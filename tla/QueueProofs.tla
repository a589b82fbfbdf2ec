----------------------------- MODULE QueueProofs -----------------------------
(* Proofs about Queue, for any number of producers, consumers, pushes and   *)
(* closes and any sizes: elements come out whole, each once and in order,   *)
(* and none is lost in the buffers.                                         *)
EXTENDS Queue, FiniteSetTheorems, SequenceTheorems, TLAPS

-----------------------------------------------------------------------------
(* Multiples of the size of an element. *)

LEMMA Size == /\ ElementSize \in Nat \ {0} /\ WriteMax \in Nat \ {0}
              /\ Batch \in Nat \ {0} /\ PipeSize \in Nat \ {0}
              /\ PipeBuf \in Nat
  BY SizesAssumption

LEMMA Remainder ==
  ASSUME NEW d \in Nat \ {0}, NEW q \in Nat, NEW r \in 0 .. d - 1
  PROVE  (d * q + r) % d = r
  OBVIOUS

LEMMA Quotient ==
  ASSUME NEW d \in Nat \ {0}, NEW a \in Nat
  PROVE  \E q \in Nat, r \in 0 .. d - 1 : a = d * q + r /\ a % d = r
<1>1. /\ a = d * (a \div d) + (a % d) /\ a % d \in 0 .. d - 1
      /\ a \div d \in Nat
  OBVIOUS
<1>2. QED BY <1>1

LEMMA RemainderOfSum ==
  ASSUME NEW d \in Nat \ {0}, NEW a \in Nat, NEW b \in Nat, a % d = 0
  PROVE  (a + b) % d = b % d
<1>1. PICK q \in Nat : a = d * q
  BY Quotient
<1>2. PICK m \in Nat, r \in 0 .. d - 1 : b = d * m + r /\ b % d = r
  BY Quotient
<1>3. a + b = d * (q + m) + r
  BY <1>1, <1>2
<1>4. q + m \in Nat
  OBVIOUS
<1>5. QED BY <1>2, <1>3, <1>4, Remainder

LEMMA MultipleDifference ==
  ASSUME NEW d \in Nat \ {0}, NEW a \in Nat, NEW b \in Nat, a % d = 0, b % d = 0, b < a
  PROVE  (a - b) % d = 0 /\ b + d <= a
<1>1. PICK q \in Nat : a = d * q
  BY Quotient
<1>2. PICK m \in Nat : b = d * m
  BY Quotient
<1>3. m < q
  <2>1. SUFFICES ASSUME q <= m PROVE FALSE
    OBVIOUS
  <2>2. d * q <= d * m
    BY <2>1
  <2>3. QED BY <1>1, <1>2, <2>2
<1>4. PICK k \in Nat : q = m + 1 + k
  <2>1. q - m - 1 \in Nat /\ q = m + 1 + (q - m - 1)
    BY <1>3
  <2>2. QED BY <2>1
<1>5. a = b + d + d * k /\ d * k \in Nat
  BY <1>1, <1>2, <1>4
<1>6. a - b = d * (k + 1) + 0
  BY <1>5
<1>7. QED BY <1>5, <1>6, Remainder

\* The same for the size of an element.
LEMMA Multiples ==
  /\ IsMultiple(0) /\ IsMultiple(ElementSize)
  /\ \A k \in Nat : k * ElementSize \in Nat /\ IsMultiple(k * ElementSize)
  /\ \A a, b \in Nat : IsMultiple(a) => (a + b) % ElementSize = b % ElementSize
  /\ \A a, b \in Nat : IsMultiple(a) => (IsMultiple(a + b) <=> IsMultiple(b))
  /\ \A a, b \in Nat : IsMultiple(a) /\ IsMultiple(b) /\ b <= a => IsMultiple(a - b)
  /\ \A a, b \in Nat : IsMultiple(a) /\ IsMultiple(b) /\ b < a => b + ElementSize <= a
<1> DEFINE d == ElementSize
<1>1. d \in Nat \ {0}
  BY Size
<1> HIDE DEF d
<1>2. 0 % d = 0 /\ d % d = 0
  <2>1. (d * 0 + 0) % d = 0 /\ (d * 1 + 0) % d = 0
    BY <1>1, Remainder
  <2>2. QED BY <1>1, <2>1
<1>3. ASSUME NEW k \in Nat
      PROVE  k * d \in Nat /\ (k * d) % d = 0
  <2>1. (d * k + 0) % d = 0
    BY <1>1, Remainder
  <2>2. QED BY <1>1, <2>1
<1>4. ASSUME NEW a \in Nat, NEW b \in Nat, a % d = 0
      PROVE  (a + b) % d = b % d
  BY <1>1, <1>4, RemainderOfSum
<1>5. ASSUME NEW a \in Nat, NEW b \in Nat, a % d = 0, b % d = 0, b < a
      PROVE  (a - b) % d = 0 /\ b + d <= a
  BY <1>1, <1>5, MultipleDifference
<1>6. \A a, b \in Nat : a % d = 0 /\ b % d = 0 /\ b <= a => (a - b) % d = 0
  <2>1. ASSUME NEW a \in Nat, NEW b \in Nat, a % d = 0, b % d = 0, b <= a
        PROVE  (a - b) % d = 0
    <3>1. CASE b < a
      BY <1>5, <2>1, <3>1
    <3>2. CASE b = a
      <4>1. a - b = 0
        BY <3>2
      <4>2. QED BY <1>2, <4>1
    <3>3. QED BY <2>1, <3>1, <3>2
  <2>2. QED BY <2>1
<1>7. QED BY <1>2, <1>3, <1>4, <1>5, <1>6 DEF IsMultiple, d

-----------------------------------------------------------------------------
(* Sequences of bytes. *)

LEMMA Members ==
  ASSUME NEW S, NEW s \in Seq(S)
  PROVE  /\ Len(s) \in Nat /\ DOMAIN s = 1 .. Len(s)
         /\ \A k \in DOMAIN s : s[k] \in S
         /\ BytesOf(s) \subseteq S
         /\ \A x \in BytesOf(s) : \E k \in DOMAIN s : s[k] = x
         /\ \A k \in DOMAIN s : s[k] \in BytesOf(s)
  BY DEF BytesOf

LEMMA BytesTyped ==
  ASSUME NEW x \in Bytes
  PROVE  x = <<x[1], x[2]>> /\ x[1] \in Producers /\ x[2] \in Nat \ {0}
  BY DEF Bytes

LEMMA Parts ==
  ASSUME NEW S, NEW s \in Seq(S), NEW m \in Nat, m <= Len(s)
  PROVE  /\ SubSeq(s, 1, m) \in Seq(S) /\ Len(SubSeq(s, 1, m)) = m
         /\ SubSeq(s, m + 1, Len(s)) \in Seq(S)
         /\ Len(SubSeq(s, m + 1, Len(s))) = Len(s) - m
         /\ s = SubSeq(s, 1, m) \o SubSeq(s, m + 1, Len(s))
<1> DEFINE a == SubSeq(s, 1, m)
           b == SubSeq(s, m + 1, Len(s))
<1>1. a = [k \in 1 .. m |-> s[k]]
  OBVIOUS
<1>2. b = [k \in 1 .. Len(s) - m |-> s[k + m]]
  OBVIOUS
<1>3. /\ a \in Seq(S) /\ Len(a) = m /\ b \in Seq(S) /\ Len(b) = Len(s) - m
  BY <1>1, <1>2
<1>4. \A k \in 1 .. m : a[k] = s[k]
  BY <1>1
<1>5. \A k \in 1 .. Len(s) - m : b[k] = s[k + m]
  BY <1>2
<1> HIDE DEF a, b
<1>6. /\ a \o b \in Seq(S) /\ Len(a \o b) = m + (Len(s) - m)
      /\ \A k \in 1 .. m + (Len(s) - m) : (a \o b)[k] = IF k <= m THEN a[k] ELSE b[k - m]
  <2>1. /\ a \o b \in Seq(S) /\ Len(a \o b) = Len(a) + Len(b)
        /\ \A k \in 1 .. Len(a) + Len(b) :
             (a \o b)[k] = IF k <= Len(a) THEN a[k] ELSE b[k - Len(a)]
    BY <1>3, ConcatProperties
  <2>2. QED BY <1>3, <2>1
<1>7. Len(a \o b) = Len(s)
  BY <1>6
<1>8. ASSUME NEW k \in 1 .. Len(s)
      PROVE  (a \o b)[k] = s[k]
  <2>1. Len(s) \in Nat /\ m + (Len(s) - m) = Len(s)
    OBVIOUS
  <2>2. (a \o b)[k] = IF k <= m THEN a[k] ELSE b[k - m]
    BY <1>6, <2>1
  <2>3. CASE k <= m
    BY <1>4, <2>2, <2>3
  <2>4. CASE ~(k <= m)
    <3>1. k - m \in 1 .. Len(s) - m /\ k - m + m = k
      BY <2>1, <2>4
    <3>2. b[k - m] = s[k - m + m]
      BY <1>5, <3>1
    <3>3. QED BY <2>2, <2>4, <3>1, <3>2
  <2>5. QED BY <2>3, <2>4
<1>9. s = a \o b
  BY <1>6, <1>7, <1>8, SeqEqual
<1>10. QED BY <1>3, <1>9 DEF a, b

\* The places of a concatenation are those of its parts.
LEMMA Joined ==
  ASSUME NEW S, NEW s \in Seq(S), NEW t \in Seq(S)
  PROVE  /\ s \o t \in Seq(S) /\ Len(s \o t) = Len(s) + Len(t)
         /\ DOMAIN (s \o t) = 1 .. Len(s) + Len(t)
         /\ \A k \in DOMAIN s : k \in DOMAIN (s \o t) /\ (s \o t)[k] = s[k]
         /\ \A k \in DOMAIN t : Len(s) + k \in DOMAIN (s \o t) /\ (s \o t)[Len(s) + k] = t[k]
         /\ \A k \in DOMAIN (s \o t) :
              k \in DOMAIN s \/ (k > Len(s) /\ k - Len(s) \in DOMAIN t)
<1> DEFINE u == s \o t
           n == Len(s)
           m == Len(t)
<1>1. /\ n \in Nat /\ m \in Nat /\ DOMAIN s = 1 .. n /\ DOMAIN t = 1 .. m
  OBVIOUS
<1>2. /\ u \in Seq(S) /\ Len(u) = n + m
      /\ \A k \in 1 .. n + m : u[k] = IF k <= n THEN s[k] ELSE t[k - n]
  BY ConcatProperties
<1>3. DOMAIN u = 1 .. n + m
  BY <1>2
<1> HIDE DEF u, n, m
<1>4. \A k \in 1 .. n : k \in 1 .. n + m /\ u[k] = s[k]
  BY <1>1, <1>2
<1>5. ASSUME NEW k \in 1 .. m
      PROVE  n + k \in 1 .. n + m /\ u[n + k] = t[k]
  <2> DEFINE l == n + k
  <2>1. l \in 1 .. n + m /\ ~(l <= n) /\ l - n = k
    BY <1>1
  <2> HIDE DEF l
  <2>2. u[l] = t[k]
    BY <1>2, <2>1
  <2>3. QED BY <2>1, <2>2 DEF l
<1>6. \A k \in 1 .. n + m : k \in 1 .. n \/ (k > n /\ k - n \in 1 .. m)
  BY <1>1
<1>7. QED BY <1>1, <1>2, <1>3, <1>4, <1>5, <1>6 DEF u, n, m

LEMMA BytesJoin ==
  ASSUME NEW S, NEW s \in Seq(S), NEW t \in Seq(S)
  PROVE  BytesOf(s \o t) = BytesOf(s) \cup BytesOf(t)
<1> DEFINE u == s \o t
           n == Len(s)
<1>1. /\ \A k \in DOMAIN s : k \in DOMAIN u /\ u[k] = s[k]
      /\ \A k \in DOMAIN t : n + k \in DOMAIN u /\ u[n + k] = t[k]
      /\ \A k \in DOMAIN u : k \in DOMAIN s \/ (k > n /\ k - n \in DOMAIN t)
  BY Joined
<1>2. n \in Nat /\ \A k \in DOMAIN u : k \in Int
  BY Joined
<1> HIDE DEF u, n
<1>3. \A k \in DOMAIN u : k \in DOMAIN s \/ \E l \in DOMAIN t : k = n + l
  <2>1. \A k \in DOMAIN u : n + (k - n) = k
    BY <1>2
  <2>2. QED BY <1>1, <2>1
<1>4. ASSUME NEW x \in BytesOf(u)
      PROVE  x \in BytesOf(s) \cup BytesOf(t)
  BY <1>1, <1>3 DEF BytesOf
<1>5. BytesOf(s) \subseteq BytesOf(u) /\ BytesOf(t) \subseteq BytesOf(u)
  BY <1>1 DEF BytesOf
<1>6. QED BY <1>4, <1>5 DEF u

LEMMA IncreasingJoin ==
  ASSUME NEW s \in Seq(Bytes), NEW t \in Seq(Bytes)
  PROVE  Increasing(s \o t) <=>
           Increasing(s) /\ Increasing(t) /\ Before(BytesOf(s), BytesOf(t))
<1> DEFINE u == s \o t
           n == Len(s)
           m == Len(t)
           Less(x, y) == x[1] = y[1] => x[2] < y[2]
<1>1. /\ n \in Nat /\ m \in Nat /\ DOMAIN s = 1 .. n /\ DOMAIN t = 1 .. m
      /\ DOMAIN u = 1 .. n + m
      /\ \A k \in 1 .. n : u[k] = s[k]
      /\ \A k \in 1 .. m : u[n + k] = t[k]
  <2>1. /\ DOMAIN u = 1 .. n + m
        /\ \A k \in DOMAIN s : u[k] = s[k]
        /\ \A k \in DOMAIN t : u[n + k] = t[k]
    BY Joined
  <2>2. /\ n \in Nat /\ m \in Nat /\ DOMAIN s = 1 .. n /\ DOMAIN t = 1 .. m
    BY Members
  <2>3. QED BY <2>1, <2>2
<1> HIDE DEF u, n, m
<1>2. /\ Increasing(u) <=> \A j \in 1 .. n + m : \A i \in 1 .. j - 1 : Less(u[i], u[j])
      /\ Increasing(s) <=> \A j \in 1 .. n : \A i \in 1 .. j - 1 : Less(s[i], s[j])
      /\ Increasing(t) <=> \A j \in 1 .. m : \A i \in 1 .. j - 1 : Less(t[i], t[j])
  BY <1>1 DEF Increasing
<1>3. Before(BytesOf(s), BytesOf(t)) <=> \A i \in 1 .. n, j \in 1 .. m : Less(s[i], t[j])
  <2>1. BytesOf(s) = {s[i] : i \in 1 .. n} /\ BytesOf(t) = {t[i] : i \in 1 .. m}
    BY <1>1 DEF BytesOf
  <2>2. Before(BytesOf(s), BytesOf(t)) <=>
          \A x \in BytesOf(s), y \in BytesOf(t) : Less(x, y)
    BY DEF Before
  <2> HIDE DEF Less
  <2>3. QED BY <2>1, <2>2
<1> HIDE DEF Less
<1>4. ASSUME Increasing(u)
      PROVE  Increasing(s) /\ Increasing(t) /\ Before(BytesOf(s), BytesOf(t))
  <2>1. \A j \in 1 .. n + m : \A i \in 1 .. j - 1 : Less(u[i], u[j])
    BY <1>2, <1>4
  <2>2. ASSUME NEW j \in 1 .. n, NEW i \in 1 .. j - 1
        PROVE  Less(s[i], s[j])
    <3>1. i \in 1 .. n /\ j \in 1 .. n + m
      BY <1>1
    <3>2. QED BY <1>1, <2>1, <3>1
  <2>3. ASSUME NEW j \in 1 .. m, NEW i \in 1 .. j - 1
        PROVE  Less(t[i], t[j])
    <3>1. i \in 1 .. m /\ n + j \in 1 .. n + m /\ n + i \in 1 .. (n + j) - 1
      BY <1>1
    <3>2. Less(u[n + i], u[n + j])
      BY <2>1, <3>1
    <3>3. u[n + i] = t[i] /\ u[n + j] = t[j]
      BY <1>1, <3>1
    <3>4. QED BY <3>2, <3>3
  <2>4. ASSUME NEW i \in 1 .. n, NEW j \in 1 .. m
        PROVE  Less(s[i], t[j])
    <3>1. n + j \in 1 .. n + m /\ i \in 1 .. (n + j) - 1
      BY <1>1
    <3>2. Less(u[i], u[n + j])
      BY <2>1, <3>1
    <3>3. u[i] = s[i] /\ u[n + j] = t[j]
      BY <1>1
    <3>4. QED BY <3>2, <3>3
  <2>5. QED BY <1>2, <1>3, <2>2, <2>3, <2>4
<1>5. ASSUME Increasing(s), Increasing(t), Before(BytesOf(s), BytesOf(t))
      PROVE  Increasing(u)
  <2>1. ASSUME NEW j \in 1 .. n + m, NEW i \in 1 .. j - 1
        PROVE  Less(u[i], u[j])
    <3>1. CASE j <= n
      <4>1. j \in 1 .. n /\ i \in 1 .. n
        BY <1>1, <3>1
      <4>2. Less(s[i], s[j])
        BY <1>2, <1>5, <4>1
      <4>3. u[i] = s[i] /\ u[j] = s[j]
        BY <1>1, <4>1
      <4>4. QED BY <4>2, <4>3
    <3>2. CASE j > n /\ i <= n
      <4> DEFINE l == j - n
      <4>1. l \in 1 .. m /\ i \in 1 .. n /\ n + l = j
        BY <1>1, <3>2
      <4> HIDE DEF l
      <4>2. Less(s[i], t[l])
        BY <1>3, <1>5, <4>1
      <4>3. u[i] = s[i] /\ u[j] = t[l]
        BY <1>1, <4>1
      <4>4. QED BY <4>2, <4>3
    <3>3. CASE j > n /\ i > n
      <4> DEFINE l == j - n
                 k == i - n
      <4>1. l \in 1 .. m /\ k \in 1 .. l - 1 /\ k \in 1 .. m /\ n + l = j /\ n + k = i
        BY <1>1, <3>3
      <4> HIDE DEF l, k
      <4>2. Less(t[k], t[l])
        BY <1>2, <1>5, <4>1
      <4>3. u[i] = t[k] /\ u[j] = t[l]
        BY <1>1, <4>1
      <4>4. QED BY <4>2, <4>3
    <3>4. QED BY <1>1, <3>1, <3>2, <3>3
  <2>2. QED BY <1>2, <2>1
<1>6. QED BY <1>4, <1>5 DEF u

\* What Whole says of the place k.
At(v, k) ==
  /\ v[k][2] % ElementSize = k % ElementSize
  /\ k % ElementSize # 1 % ElementSize => v[k] = <<v[k - 1][1], v[k - 1][2] + 1>>

LEMMA WholeJoin ==
  ASSUME NEW s \in Seq(Bytes), NEW t \in Seq(Bytes), IsMultiple(Len(s))
  PROVE  Whole(s \o t) <=> Whole(s) /\ Whole(t)
<1> DEFINE u == s \o t
           n == Len(s)
           m == Len(t)
<1>1. /\ n \in Nat /\ m \in Nat /\ DOMAIN s = 1 .. n /\ DOMAIN t = 1 .. m
      /\ DOMAIN u = 1 .. n + m /\ Len(u) = n + m
      /\ \A k \in 1 .. n : u[k] = s[k]
      /\ \A k \in 1 .. m : u[n + k] = t[k]
  <2>1. /\ DOMAIN u = 1 .. n + m /\ Len(u) = n + m
        /\ \A k \in DOMAIN s : u[k] = s[k]
        /\ \A k \in DOMAIN t : u[n + k] = t[k]
    BY Joined
  <2>2. /\ n \in Nat /\ m \in Nat /\ DOMAIN s = 1 .. n /\ DOMAIN t = 1 .. m
    BY Members
  <2>3. QED BY <2>1, <2>2
<1>2. IsMultiple(n) /\ (IsMultiple(n + m) <=> IsMultiple(m))
  BY <1>1, Multiples DEF n
<1>3. \A k \in Nat : (n + k) % ElementSize = k % ElementSize
  BY <1>1, <1>2, Multiples
<1>4. /\ Whole(u) <=> IsMultiple(n + m) /\ \A k \in 1 .. n + m : At(u, k)
      /\ Whole(s) <=> IsMultiple(n) /\ \A k \in 1 .. n : At(s, k)
      /\ Whole(t) <=> IsMultiple(m) /\ \A k \in 1 .. m : At(t, k)
  BY <1>1 DEF Whole, At
<1> HIDE DEF u, n, m
<1>5. ASSUME NEW k \in 1 .. n
      PROVE  At(u, k) <=> At(s, k)
  <2>1. u[k] = s[k]
    BY <1>1
  <2>2. CASE k = 1
    BY <2>1, <2>2 DEF At
  <2>3. CASE k # 1
    <3>1. k - 1 \in 1 .. n
      BY <1>1, <2>3
    <3>2. u[k - 1] = s[k - 1]
      BY <1>1, <3>1
    <3>3. QED BY <2>1, <3>2 DEF At
  <2>4. QED BY <2>2, <2>3
<1>6. ASSUME NEW k \in 1 .. m
      PROVE  At(u, n + k) <=> At(t, k)
  <2>1. u[n + k] = t[k] /\ (n + k) % ElementSize = k % ElementSize
    <3>1. k \in Nat
      BY <1>1
    <3>2. (n + k) % ElementSize = k % ElementSize
      BY <1>3, <3>1
    <3>3. QED BY <1>1, <3>2
  <2>2. CASE k = 1
    BY <2>1, <2>2 DEF At
  <2>3. CASE k # 1
    <3>1. k - 1 \in 1 .. m /\ (n + k) - 1 = n + (k - 1)
      BY <1>1, <2>3
    <3>2. u[n + (k - 1)] = t[k - 1]
      BY <1>1, <3>1
    <3> DEFINE l == n + k
    <3>3. u[l - 1] = t[k - 1] /\ u[l] = t[k] /\ l % ElementSize = k % ElementSize
      BY <2>1, <3>1, <3>2
    <3> HIDE DEF l
    <3>4. At(u, l) <=> At(t, k)
      BY ONLY <3>3 DEF At
    <3>5. QED BY <3>4 DEF l
  <2>4. QED BY <2>2, <2>3
<1>7. (\A k \in 1 .. n + m : At(u, k)) <=>
        (\A k \in 1 .. n : At(u, k)) /\ (\A k \in 1 .. m : At(u, n + k))
  <2>1. \A k \in 1 .. n : k \in 1 .. n + m
    BY <1>1
  <2>2. \A k \in 1 .. m : n + k \in 1 .. n + m
    BY <1>1
  <2>3. \A k \in 1 .. n + m : k \in 1 .. n \/ \E l \in 1 .. m : k = n + l
    <3>1. ASSUME NEW k \in 1 .. n + m, k \notin 1 .. n
          PROVE  k - n \in 1 .. m /\ k = n + (k - n)
      BY <1>1, <3>1
    <3>2. QED BY <3>1
  <2>4. QED BY <2>1, <2>2, <2>3
<1>8. QED BY <1>2, <1>4, <1>5, <1>6, <1>7 DEF u

\* Sound sequences are joined and parted between elements.
LEMMA SoundJoin ==
  ASSUME NEW s \in Seq(Bytes), NEW t \in Seq(Bytes), IsMultiple(Len(s))
  PROVE  Sound(s \o t) <=> Sound(s) /\ Sound(t) /\ Before(BytesOf(s), BytesOf(t))
  BY IncreasingJoin, WholeJoin DEF Sound

LEMMA SoundParts ==
  ASSUME NEW s \in Seq(Bytes), NEW m \in Nat, m <= Len(s), IsMultiple(m)
  PROVE  LET a == SubSeq(s, 1, m)
             b == SubSeq(s, m + 1, Len(s))
         IN  /\ a \in Seq(Bytes) /\ b \in Seq(Bytes)
             /\ Len(a) = m /\ Len(b) = Len(s) - m
             /\ s = a \o b /\ BytesOf(s) = BytesOf(a) \cup BytesOf(b)
             /\ Sound(s) <=> Sound(a) /\ Sound(b) /\ Before(BytesOf(a), BytesOf(b))
<1> DEFINE a == SubSeq(s, 1, m)
           b == SubSeq(s, m + 1, Len(s))
<1>1. /\ a \in Seq(Bytes) /\ b \in Seq(Bytes)
      /\ Len(a) = m /\ Len(b) = Len(s) - m /\ s = a \o b
  <2>1. s \in Seq(Bytes) /\ m \in Nat /\ m <= Len(s)
    OBVIOUS
  <2>2. QED BY ONLY <2>1, Parts
<1> HIDE DEF a, b
<1>2. BytesOf(a \o b) = BytesOf(a) \cup BytesOf(b)
  BY <1>1, BytesJoin
<1>3. Sound(a \o b) <=> Sound(a) /\ Sound(b) /\ Before(BytesOf(a), BytesOf(b))
  BY <1>1, SoundJoin
<1>4. BytesOf(s) = BytesOf(a) \cup BytesOf(b)
  BY <1>1, <1>2
<1>5. Sound(s) <=> Sound(a) /\ Sound(b) /\ Before(BytesOf(a), BytesOf(b))
  BY <1>1, <1>3
<1>6. QED BY <1>1, <1>4, <1>5 DEF a, b

LEMMA SoundEmpty ==
  Sound(<<>>) /\ BytesOf(<<>>) = {} /\ <<>> \in Seq(Bytes) /\ Len(<<>>) = 0
  BY Multiples DEF Sound, Increasing, Whole, BytesOf

-----------------------------------------------------------------------------
(* Runs of bytes of one producer. *)

LEMMA RunIs ==
  ASSUME NEW p, NEW a \in Nat, NEW n \in Nat
  PROVE  /\ Len(Run(p, a, n)) = n /\ DOMAIN Run(p, a, n) = 1 .. n
         /\ Run(p, a, n) \in Seq({p} \X (Nat \ {0}))
         /\ \A k \in 1 .. n : Run(p, a, n)[k] = <<p, a + k>>
  BY DEF Run

LEMMA RunTyped ==
  ASSUME NEW p \in Producers, NEW a \in Nat, NEW n \in Nat
  PROVE  Run(p, a, n) \in Seq(Bytes)
<1>1. \A k \in 1 .. n : <<p, a + k>> \in Bytes
  BY DEF Bytes
<1>2. QED BY <1>1 DEF Run

LEMMA RunEmpty ==
  ASSUME NEW p, NEW a
  PROVE  Run(p, a, 0) = <<>>
  BY DEF Run

LEMMA RunBytes ==
  ASSUME NEW p, NEW a \in Nat, NEW n \in Nat
  PROVE  BytesOf(Run(p, a, n)) = {<<p, k>> : k \in a + 1 .. a + n}
<1>1. DOMAIN Run(p, a, n) = 1 .. n /\ \A k \in 1 .. n : Run(p, a, n)[k] = <<p, a + k>>
  BY RunIs
<1>2. BytesOf(Run(p, a, n)) = {<<p, a + k>> : k \in 1 .. n}
  BY <1>1 DEF BytesOf
<1>3. ASSUME NEW k \in a + 1 .. a + n
      PROVE  \E l \in 1 .. n : k = a + l
  <2>1. k - a \in 1 .. n /\ k = a + (k - a)
    OBVIOUS
  <2>2. QED BY <2>1
<1>4. \A l \in 1 .. n : a + l \in a + 1 .. a + n
  OBVIOUS
<1>5. QED BY <1>2, <1>3, <1>4

LEMMA RunJoins ==
  ASSUME NEW p \in Producers, NEW a \in Nat, NEW n \in Nat, NEW m \in Nat
  PROVE  Run(p, a, n) \o Run(p, a + n, m) = Run(p, a, n + m)
<1> DEFINE s == Run(p, a, n)
           t == Run(p, a + n, m)
           u == Run(p, a, n + m)
<1>1. a + n \in Nat /\ n + m \in Nat
  OBVIOUS
<1>2. /\ s \in Seq(Bytes) /\ Len(s) = n /\ \A k \in 1 .. n : s[k] = <<p, a + k>>
      /\ t \in Seq(Bytes) /\ Len(t) = m /\ \A k \in 1 .. m : t[k] = <<p, a + n + k>>
      /\ u \in Seq(Bytes) /\ Len(u) = n + m
      /\ \A k \in 1 .. n + m : u[k] = <<p, a + k>>
  BY <1>1, RunIs, RunTyped
<1> HIDE DEF s, t, u
<1>3. /\ s \o t \in Seq(Bytes) /\ Len(s \o t) = Len(s) + Len(t)
      /\ \A k \in 1 .. Len(s) + Len(t) :
           (s \o t)[k] = IF k <= Len(s) THEN s[k] ELSE t[k - Len(s)]
  BY <1>2, ConcatProperties
<1>4. ASSUME NEW k \in 1 .. n + m
      PROVE  (s \o t)[k] = u[k]
  <2>1. (s \o t)[k] = IF k <= n THEN s[k] ELSE t[k - n]
    BY <1>2, <1>3
  <2>2. CASE k <= n
    <3>1. k \in 1 .. n
      BY <2>2
    <3>2. s[k] = <<p, a + k>> /\ u[k] = <<p, a + k>>
      BY <1>2, <3>1
    <3>3. QED BY <2>1, <2>2, <3>2
  <2>3. CASE ~(k <= n)
    <3> DEFINE l == k - n
    <3>1. l \in 1 .. m /\ a + n + l = a + k
      BY <2>3
    <3>2. (s \o t)[k] = t[l]
      BY <2>1, <2>3
    <3> HIDE DEF l
    <3>3. t[l] = <<p, a + k>>
      BY <1>2, <3>1
    <3>4. QED BY <1>2, <3>2, <3>3
  <2>4. QED BY <2>2, <2>3
<1>5. s \o t = u
  <2>1. Len(s \o t) = Len(u) /\ \A k \in 1 .. Len(s \o t) : (s \o t)[k] = u[k]
    BY <1>2, <1>3, <1>4
  <2>2. QED BY <1>2, <1>3, <2>1, SeqEqual
<1>6. QED BY <1>5 DEF s, t, u

\* The part of s after the i-th byte and up to the j-th.
Part(s, i, j) == SubSeq(s, i + 1, j)

LEMMA RunParts ==
  ASSUME NEW p \in Producers, NEW a \in Nat, NEW n \in Nat, NEW i \in Nat, NEW j \in Nat,
         i <= j, j <= n
  PROVE  Part(Run(p, a, n), i, j) = Run(p, a + i, j - i)
<1> DEFINE s == Run(p, a, n)
<1>1. s \in Seq(Bytes) /\ Len(s) = n /\ \A k \in 1 .. n : s[k] = <<p, a + k>>
  BY RunIs, RunTyped
<1> HIDE DEF s
<1>2. SubSeq(s, i + 1, j) = [k \in 1 .. j - i |-> s[k + i]]
  BY <1>1
<1>3. ASSUME NEW k \in 1 .. j - i
      PROVE  s[k + i] = <<p, (a + i) + k>>
  <2> DEFINE l == k + i
  <2>1. l \in 1 .. n /\ a + l = (a + i) + k
    OBVIOUS
  <2> HIDE DEF l
  <2>2. s[l] = <<p, (a + i) + k>>
    BY <1>1, <2>1
  <2>3. QED BY <2>2 DEF l
<1>4. QED BY <1>2, <1>3 DEF Run, s, Part

LEMMA RunSound ==
  ASSUME NEW p \in Producers, NEW a \in Nat, NEW n \in Nat, IsMultiple(a), IsMultiple(n)
  PROVE  Sound(Run(p, a, n))
<1> DEFINE s == Run(p, a, n)
           d == ElementSize
<1>1. s \in Seq(Bytes) /\ Len(s) = n /\ DOMAIN s = 1 .. n
      /\ \A k \in 1 .. n : s[k] = <<p, a + k>>
  BY RunIs, RunTyped
<1>2. \A k \in Nat : (a + k) % d = k % d
  BY Multiples
<1> HIDE DEF s, d
<1>3. Increasing(s)
  <2>1. ASSUME NEW j \in 1 .. n, NEW i \in 1 .. j - 1
        PROVE  s[i][2] < s[j][2]
    <3>1. i \in 1 .. n
      OBVIOUS
    <3>2. s[i] = <<p, a + i>> /\ s[j] = <<p, a + j>>
      BY <1>1, <3>1
    <3>3. QED BY <3>2
  <2>2. QED BY <1>1, <2>1 DEF Increasing
<1>4. Whole(s)
  <2>1. ASSUME NEW k \in 1 .. n
        PROVE  /\ s[k][2] % d = k % d
               /\ k % d # 1 % d => s[k] = <<s[k - 1][1], s[k - 1][2] + 1>>
    <3>1. s[k] = <<p, a + k>> /\ (a + k) % d = k % d
      <4>1. k \in Nat
        OBVIOUS
      <4>2. (a + k) % d = k % d
        BY <1>2, <4>1
      <4>3. QED BY <1>1, <4>2
    <3>2. CASE k = 1
      BY <3>1, <3>2
    <3>3. CASE k # 1
      <4> DEFINE l == k - 1
      <4>1. l \in 1 .. n /\ a + l + 1 = a + k
        BY <3>3
      <4> HIDE DEF l
      <4>2. s[l] = <<p, a + l>>
        BY <1>1, <4>1
      <4>3. s[k] = <<s[l][1], s[l][2] + 1>>
        BY <3>1, <4>1, <4>2
      <4>4. QED BY <3>1, <4>3 DEF l
    <3>4. QED BY <3>2, <3>3
  <2>2. QED BY <1>1, <2>1 DEF Whole, d
<1>5. QED BY <1>3, <1>4 DEF Sound, s

-----------------------------------------------------------------------------
(* What the invariant says of one producer. *)

LEMMA ProducerFields ==
  ASSUME NEW r \in ProducerStates
  PROVE  /\ r.open \in BOOLEAN /\ r.output \in Seq(Bytes) /\ r.offset \in Nat
         /\ r.queued \in Seq(Bytes) /\ r.write \in {None, Waits, Interrupted} \cup Nat
         /\ r.write \in Int
         /\ r.chunk \in Seq(Bytes) /\ r.orphans \in Seq(Seq(Bytes)) /\ r.pushed \in Nat
         /\ Len(r.output) \in Nat /\ Len(r.queued) \in Nat
         /\ r.pushed * ElementSize \in Nat
  BY Size DEF ProducerStates, None, Waits, Interrupted

LEMMA BaseIs ==
  ASSUME NEW p, NEW r \in ProducerStates, Filled(p, r)
  PROVE  /\ Base(r) \in Nat /\ Sent(r) \in Nat /\ IsMultiple(Base(r))
         /\ Base(r) + Len(r.output) + Len(r.queued) = r.pushed * ElementSize
         /\ Base(r) <= Sent(r)
         /\ IsMultiple(Len(r.output)) /\ IsMultiple(Len(r.queued)) /\ IsMultiple(r.offset)
<1> DEFINE a == r.pushed * ElementSize
           b == Len(r.queued)
           c == Len(r.output)
<1>1. a \in Nat /\ b \in Nat /\ c \in Nat /\ r.offset \in Nat /\ r.pushed \in Nat
  BY ProducerFields
<1>2. a - b - c >= 0 /\ IsMultiple(b) /\ IsMultiple(c) /\ IsMultiple(r.offset)
      /\ Base(r) = a - b - c
  BY DEF Filled, Base
<1>3. IsMultiple(a)
  BY <1>1, Multiples
<1> HIDE DEF a, b, c
<1>4. a - b \in Nat /\ b <= a /\ c <= a - b /\ a - b - c \in Nat
  BY <1>1, <1>2
<1>5. IsMultiple(a - b)
  BY <1>1, <1>2, <1>3, <1>4, Multiples
<1>6. IsMultiple(a - b - c)
  BY <1>1, <1>2, <1>4, <1>5, Multiples
<1>7. Sent(r) \in Nat /\ Base(r) <= Sent(r)
  <2>1. r.offset \in Nat /\ (r.write \in Nat => r.offset + r.write \in Nat)
    BY <1>1
  <2>2. Written(r) \in Nat
    BY <2>1 DEF Written
  <2>3. Base(r) \in Nat
    BY <1>2, <1>4
  <2>4. Sent(r) = Base(r) \/ Sent(r) = Base(r) + Written(r)
    BY DEF Sent
  <2>5. QED BY <2>2, <2>3, <2>4
<1>8. (a - b - c) + c + b = a
  BY <1>1
<1>9. QED BY <1>2, <1>4, <1>6, <1>7, <1>8 DEF a, b, c

LEMMA LesserIs ==
  ASSUME NEW a \in Nat, NEW b \in Nat
  PROVE  Lesser(a, b) \in Nat /\ Lesser(a, b) <= a /\ Lesser(a, b) <= b
         /\ (Lesser(a, b) = a \/ Lesser(a, b) = b)
  BY DEF Lesser

\* What is written next is a run of whole elements.
LEMMA ChunkIs ==
  ASSUME NEW p \in Producers, NEW r \in ProducerStates, Filled(p, r),
         r.offset < Len(r.output)
  PROVE  /\ Len(Chunk(r)) \in Nat \ {0} /\ IsMultiple(Len(Chunk(r)))
         /\ Len(Chunk(r)) <= WriteMax * ElementSize
         /\ r.offset + Len(Chunk(r)) <= Len(r.output)
         /\ Chunk(r) = Run(p, Base(r) + r.offset, Len(Chunk(r)))
         /\ Chunk(r) \in Seq(Bytes) /\ Sound(Chunk(r))
<1> DEFINE n == Len(r.output)
           o == r.offset
           w == WriteMax * ElementSize
           e == Lesser(n, o + w)
           b == Base(r)
<1>1. n \in Nat /\ o \in Nat /\ o < n /\ b \in Nat
      /\ IsMultiple(n) /\ IsMultiple(o) /\ IsMultiple(b)
  BY BaseIs, ProducerFields
<1>2. w \in Nat \ {0} /\ IsMultiple(w)
  <2>1. WriteMax \in Nat \ {0} /\ ElementSize \in Nat \ {0}
    BY Size
  <2>2. w \in Nat /\ IsMultiple(w)
    BY <2>1, Multiples
  <2>3. \A x, y \in Nat \ {0} : x * y \in Nat \ {0}
    OBVIOUS
  <2>4. QED BY <2>1, <2>2, <2>3
<1>3. r.output = Run(p, b, n) /\ Chunk(r) = SubSeq(r.output, o + 1, e)
  BY DEF Filled, Chunk
<1> HIDE DEF n, o, w, b
<1>4. IsMultiple(o + w) /\ o + w \in Nat
  BY <1>1, <1>2, Multiples
<1>5. e \in Nat /\ o < e /\ e <= n /\ e <= o + w /\ IsMultiple(e)
  <2>1. e = n \/ e = o + w
    BY DEF Lesser
  <2>2. e \in Nat /\ e <= n /\ e <= o + w
    BY <1>1, <1>4, LesserIs
  <2>3. IsMultiple(e)
    BY <1>1, <1>4, <2>1
  <2>4. o < e
    BY <1>1, <1>2, <2>1
  <2>5. QED BY <2>2, <2>3, <2>4
<1> HIDE DEF e
<1>6. Chunk(r) = Run(p, b + o, e - o)
  <2>1. o <= e
    BY <1>1, <1>5
  <2>2. Part(Run(p, b, n), o, e) = Run(p, b + o, e - o)
    BY ONLY <1>1, <1>5, <2>1, RunParts, p \in Producers
  <2>3. QED BY <1>3, <2>2 DEF Part
<1>7. /\ e - o \in Nat \ {0} /\ b + o \in Nat /\ e - o <= w /\ o + (e - o) <= n
      /\ IsMultiple(e - o) /\ IsMultiple(b + o)
  <2>1. e - o \in Nat \ {0} /\ b + o \in Nat /\ e - o <= w /\ o + (e - o) <= n /\ o <= e
    BY <1>1, <1>2, <1>5
  <2>2. IsMultiple(e - o)
    BY <1>1, <1>5, <2>1, Multiples
  <2>3. IsMultiple(b + o)
    BY <1>1, Multiples
  <2>4. QED BY <2>1, <2>2, <2>3
<1>8. Len(Chunk(r)) = e - o
  <2> DEFINE l == e - o
             f == b + o
  <2>1. l \in Nat /\ f \in Nat
    BY <1>7
  <2> HIDE DEF l, f
  <2>2. Len(Run(p, f, l)) = l
    BY <2>1, RunIs
  <2>3. QED BY <1>6, <2>2 DEF l, f
<1>9. Chunk(r) \in Seq(Bytes) /\ Sound(Chunk(r))
  BY <1>6, <1>7, RunTyped, RunSound
<1>10. QED BY <1>6, <1>7, <1>8, <1>9 DEF n, o, w, b

\* A write that is started.
LEMMA StartWriteIs ==
  ASSUME NEW p \in Producers, NEW r \in ProducerStates, Filled(p, r), r.open,
         r.write = None, r.output # <<>> => r.offset < Len(r.output),
         r.output = <<>> /\ r.offset = 0 => r.queued = <<>>
  PROVE  LET x == StartWrite(r) IN
           /\ x \in ProducerStates /\ Filled(p, x) /\ Writing(x) /\ x.open
           /\ x.orphans = r.orphans /\ x.pushed = r.pushed
           /\ x.offset = r.offset /\ x.output = r.output
           /\ x.write = None <=> r.output = <<>>
           /\ Sent(x) = Base(r) + (IF r.output = <<>> THEN 0 ELSE r.offset)
<1>1. Base(r) \in Nat
  BY BaseIs
<1>2. CASE r.output = <<>>
  <2>1. StartWrite(r) = r
    BY <1>2 DEF StartWrite
  <2>2. Sent(r) = Base(r)
    BY DEF Sent
  <2>3. Writing(r)
    BY <1>2 DEF Writing
  <2>4. QED BY <1>1, <1>2, <2>1, <2>2, <2>3
<1>3. CASE r.output # <<>>
  <2> DEFINE x == [r EXCEPT !.write = Waits, !.chunk = Chunk(r)]
  <2>1. StartWrite(r) = x
    BY <1>3 DEF StartWrite
  <2>2. /\ Chunk(r) \in Seq(Bytes) /\ r.offset < Len(r.output)
    BY <1>3, ChunkIs
  <2>3. /\ x \in ProducerStates
        /\ x.open = r.open /\ x.output = r.output /\ x.offset = r.offset
        /\ x.queued = r.queued /\ x.orphans = r.orphans /\ x.pushed = r.pushed
        /\ x.write = Waits /\ x.chunk = Chunk(r)
    BY <2>2 DEF ProducerStates
  <2> HIDE DEF x
  <2>4. Base(x) = Base(r) /\ Chunk(x) = Chunk(r)
    BY <2>3 DEF Base, Chunk
  <2>5. Filled(p, x)
    BY <2>3, <2>4 DEF Filled
  <2>6. x.write # None /\ x.write \notin Nat
    BY <2>3 DEF Waits, None
  <2>7. Writing(x)
    BY <2>2, <2>3, <2>4, <2>6 DEF Writing
  <2>8. Sent(x) = Base(r) + r.offset
    BY <2>3, <2>4, <2>6 DEF Sent, Written
  <2>9. QED BY <1>3, <2>1, <2>3, <2>5, <2>6, <2>7, <2>8
<1>4. QED BY <1>2, <1>3

LEMMA UpdateIs ==
  ASSUME NEW p \in Producers, NEW r \in ProducerStates, Filled(p, r), r.open,
         r.write = None, r.output # <<>> => r.offset <= Len(r.output)
  PROVE  LET x == Update(r) IN
           /\ x \in ProducerStates /\ Filled(p, x) /\ Writing(x) /\ x.open
           /\ x.orphans = r.orphans /\ x.pushed = r.pushed
           /\ x.write = None /\ (r.output = <<>> => r.offset = 0) => x.offset = 0
           /\ Sent(x) = Base(r) + (IF r.output = <<>> THEN 0 ELSE r.offset)
<1>1. /\ Base(r) \in Nat /\ r.offset \in Nat /\ Len(r.output) \in Nat
      /\ Len(r.queued) \in Nat /\ r.output \in Seq(Bytes) /\ r.queued \in Seq(Bytes)
      /\ Base(r) + Len(r.output) + Len(r.queued) = r.pushed * ElementSize
      /\ IsMultiple(Len(r.queued))
      /\ r.pushed * ElementSize \in Nat
  BY BaseIs, ProducerFields
<1>2. r.output = <<>> <=> Len(r.output) = 0
  BY <1>1
<1>3. CASE r.offset # Len(r.output)
  <2>1. Update(r) = StartWrite(r)
    BY <1>3 DEF Update
  <2>2. r.output # <<>> => r.offset < Len(r.output)
    BY <1>1, <1>3
  <2>3. r.output = <<>> => r.offset # 0
    BY <1>2, <1>3
  <2>4. QED BY <2>1, <2>2, <2>3, StartWriteIs
<1>4. CASE r.offset = Len(r.output)
  <2> DEFINE s == Swap(r)
  <2>1. Update(r) = StartWrite(s)
    BY <1>4 DEF Update
  <2>2. /\ s \in ProducerStates
        /\ s.open = r.open /\ s.output = r.queued /\ s.offset = 0
        /\ s.queued = <<>> /\ s.orphans = r.orphans /\ s.pushed = r.pushed
        /\ s.write = None
    <3>1. <<>> \in Seq(Bytes) /\ 0 \in Nat
      OBVIOUS
    <3>2. s = [r EXCEPT !.output = r.queued, !.offset = 0, !.queued = <<>>]
      BY DEF Swap
    <3>3. r.queued \in Seq(Bytes) /\ r.write = None
      BY <1>1
    <3> HIDE DEF s
    <3>4. QED BY <3>1, <3>2, <3>3 DEF ProducerStates
  <2> HIDE DEF s
  <2>3. Len(<<>>) = 0
    OBVIOUS
  <2>4. Base(s) = Base(r) + r.offset
    BY <1>1, <1>4, <2>2, <2>3 DEF Base
  <2>5. Base(s) + Len(r.queued) \in Nat
    BY <1>1, <2>4
  <2>6. s.queued = Run(p, Base(s) + Len(s.output), Len(s.queued))
    BY <2>2, <2>3, <2>5, RunEmpty
  <2>7. r.queued = Run(p, Base(r) + Len(r.output), Len(r.queued))
    BY DEF Filled
  <2>8. s.output = Run(p, Base(s), Len(s.output))
    BY <1>4, <2>2, <2>4, <2>7
  <2>9. IsMultiple(0)
    BY Multiples
  <2>10. Filled(p, s)
    BY <1>1, <2>2, <2>3, <2>4, <2>6, <2>8, <2>9 DEF Filled
  <2>11. s.output # <<>> => s.offset < Len(s.output)
    BY <1>1, <2>2
  <2>12. Sent(StartWrite(s)) = Base(s)
    <3>1. Sent(StartWrite(s)) = Base(s) + (IF s.output = <<>> THEN 0 ELSE s.offset)
      BY <2>2, <2>10, <2>11, StartWriteIs
    <3>2. QED BY <1>1, <2>2, <2>4, <3>1
  <2>13. Base(s) = Base(r) + (IF r.output = <<>> THEN 0 ELSE r.offset)
    BY <1>1, <1>2, <1>4, <2>4
  <2> DEFINE x == StartWrite(s)
  <2>14. /\ x \in ProducerStates /\ Filled(p, x) /\ Writing(x) /\ x.open
         /\ x.orphans = s.orphans /\ x.pushed = s.pushed /\ x.offset = s.offset
    BY <2>2, <2>10, <2>11, StartWriteIs
  <2> HIDE DEF x
  <2>15. x = Update(r) /\ Sent(x) = Base(s)
    BY <2>1, <2>12 DEF x
  <2>16. QED BY <2>2, <2>13, <2>14, <2>15
<1>5. QED BY <1>3, <1>4

-----------------------------------------------------------------------------
(* What the invariant says of one consumer. *)

LEMMA ConsumerFields ==
  ASSUME NEW r \in ConsumerStates
  PROVE  /\ r.open \in BOOLEAN /\ r.aborted \in BOOLEAN /\ r.at \in Nat
         /\ r.wild \in BOOLEAN /\ r.abort \in {"null", "live", "dangling"}
         /\ r.read \in {None, Waits, Interrupted} \cup Nat /\ r.read \in Int
         /\ r.input \in Seq(Bytes) /\ r.popped \in Seq(Bytes) /\ r.orphans \in Nat
         /\ Len(r.input) \in Nat /\ Len(r.popped) \in Nat
  BY DEF ConsumerStates, None, Waits, Interrupted

LEMMA RestIs ==
  ASSUME NEW r \in ConsumerStates, Reading(r)
  PROVE  /\ Rest(r) \in Seq(Bytes) /\ Len(Rest(r)) \in Nat
         /\ Taken(r) \subseteq Bytes /\ BytesOf(Rest(r)) \subseteq Taken(r)
         /\ BytesOf(r.popped) \subseteq Taken(r)
         /\ r.at > 0 /\ ~r.aborted => Rest(r) = SubSeq(r.input, r.at + 1, Len(r.input))
         /\ ~(r.at > 0 /\ ~r.aborted) /\ r.read > 0 => Rest(r) = r.input
         /\ ~(r.at > 0 /\ ~r.aborted) /\ ~(r.read > 0) => Rest(r) = <<>>
<1>1. /\ r.input \in Seq(Bytes) /\ r.popped \in Seq(Bytes) /\ r.at \in Nat
      /\ Len(r.input) \in Nat
  BY ConsumerFields
<1>2. r.at > 0 /\ ~r.aborted => SubSeq(r.input, r.at + 1, Len(r.input)) \in Seq(Bytes)
  <2>1. ASSUME r.at > 0, ~r.aborted
        PROVE  SubSeq(r.input, r.at + 1, Len(r.input)) \in Seq(Bytes)
    <3>1. r.at <= Len(r.input)
      BY <2>1 DEF Reading
    <3>2. QED BY <1>1, <3>1, Parts
  <2>2. QED BY <2>1
<1>3. Rest(r) \in Seq(Bytes)
  BY <1>1, <1>2 DEF Rest
<1>4. BytesOf(Rest(r)) \subseteq Bytes /\ BytesOf(r.popped) \subseteq Bytes
  BY <1>1, <1>3, Members
<1>5. Len(Rest(r)) \in Nat
  BY <1>3
<1>6. /\ r.at > 0 /\ ~r.aborted => Rest(r) = SubSeq(r.input, r.at + 1, Len(r.input))
      /\ ~(r.at > 0 /\ ~r.aborted) /\ r.read > 0 => Rest(r) = r.input
      /\ ~(r.at > 0 /\ ~r.aborted) /\ ~(r.read > 0) => Rest(r) = <<>>
  BY DEF Rest
<1>7. Taken(r) = BytesOf(r.popped) \cup BytesOf(Rest(r))
  BY DEF Taken
<1>8. QED BY <1>3, <1>4, <1>5, <1>6, <1>7

LEMMA PartOfPart ==
  ASSUME NEW S, NEW s \in Seq(S), NEW i \in Nat, NEW a \in Nat, NEW b \in Nat,
         i <= Len(s), a <= b, i + b <= Len(s)
  PROVE  Part(Part(s, i, Len(s)), a, b) = Part(s, i + a, i + b)
<1> DEFINE u == SubSeq(s, i + 1, Len(s))
<1>1. u = [k \in 1 .. Len(s) - i |-> s[k + i]]
  OBVIOUS
<1>2. u \in Seq(S) /\ Len(u) = Len(s) - i /\ \A k \in 1 .. Len(s) - i : u[k] = s[k + i]
  BY <1>1
<1> HIDE DEF u
<1>3. SubSeq(u, a + 1, b) = [k \in 1 .. b - a |-> u[k + a]]
  BY <1>2
<1>4. SubSeq(s, i + a + 1, i + b) = [k \in 1 .. b - a |-> s[k + (i + a)]]
  OBVIOUS
<1>5. ASSUME NEW k \in 1 .. b - a
      PROVE  u[k + a] = s[k + (i + a)]
  <2> DEFINE l == k + a
  <2>1. l \in 1 .. Len(s) - i /\ l + i = k + (i + a)
    OBVIOUS
  <2> HIDE DEF l
  <2>2. u[l] = s[l + i]
    BY <1>2, <2>1
  <2>3. QED BY <2>1, <2>2 DEF l
<1>6. SubSeq(u, a + 1, b) = SubSeq(s, i + a + 1, i + b)
  BY <1>3, <1>4, <1>5
<1>7. QED BY <1>6 DEF Part, u

LEMMA WholePart ==
  ASSUME NEW S, NEW s \in Seq(S)
  PROVE  Part(s, 0, Len(s)) = s /\ Part(s, Len(s), Len(s)) = <<>>
<1>1. SubSeq(s, 1, Len(s)) = s
  OBVIOUS
<1>2. SubSeq(s, Len(s) + 1, Len(s)) = <<>>
  OBVIOUS
<1>3. QED BY <1>1, <1>2 DEF Part

\* The next element of the batch is handed over.
LEMMA HandOverIs ==
  ASSUME NEW r \in ConsumerStates, r.open, ~(r.read > 0), ~r.aborted,
         r.at < Len(r.input), IsMultiple(r.at), Sound(r.popped),
         Sound(Part(r.input, r.at, Len(r.input))),
         Before(BytesOf(r.popped), BytesOf(Part(r.input, r.at, Len(r.input))))
  PROVE  LET x == HandOver(r) IN
           /\ x \in ConsumerStates /\ Reading(x) /\ x.open /\ x.orphans = r.orphans
           /\ x.aborted = r.aborted /\ x.at > 0 /\ x.abort = "live" /\ x.wild = r.wild
           /\ r.at + ElementSize <= Len(r.input) /\ x.input = r.input
           /\ x.at = r.at + ElementSize
           /\ x.popped = r.popped \o Part(r.input, r.at, r.at + ElementSize)
           /\ Part(r.input, r.at, Len(r.input)) =
                Part(r.input, r.at, r.at + ElementSize) \o Rest(x)
           /\ Rest(x) = Part(r.input, r.at + ElementSize, Len(r.input))
           /\ Taken(x) = BytesOf(r.popped) \cup BytesOf(Part(r.input, r.at, Len(r.input)))
<1> DEFINE s == r.input
           n == Len(s)
           o == r.at
           d == ElementSize
           u == Part(s, o, n)
           x == HandOver(r)
<1>1. s \in Seq(Bytes) /\ n \in Nat /\ o \in Nat /\ o < n /\ r.popped \in Seq(Bytes)
      /\ d \in Nat \ {0}
  BY ConsumerFields, Size
<1> HIDE DEF s, n, o, d
<1>2. u \in Seq(Bytes) /\ Len(u) = n - o
  <2>1. o <= n
    BY <1>1
  <2>2. QED BY <1>1, <2>1, Parts DEF Part, n
<1>3. Sound(u) /\ IsMultiple(Len(u)) /\ Before(BytesOf(r.popped), BytesOf(u))
  BY DEF Sound, Whole, s, o, n
<1> HIDE DEF u
<1>4. d <= Len(u) /\ o + d <= n /\ IsMultiple(d) /\ IsMultiple(o + d) /\ o + d \in Nat
  <2>1. IsMultiple(0) /\ IsMultiple(d) /\ Len(u) \in Nat /\ 0 < Len(u) /\ 0 \in Nat
    BY <1>1, <1>2, Multiples DEF d
  <2>2. 0 + d <= Len(u)
    BY <1>3, <2>1, Multiples DEF d
  <2>3. IsMultiple(o + d)
    BY <1>1, <2>1, Multiples DEF o
  <2>4. QED BY <1>1, <1>2, <2>1, <2>2, <2>3
<1> DEFINE a == SubSeq(u, 1, d)
           b == SubSeq(u, d + 1, Len(u))
<1>5. /\ a \in Seq(Bytes) /\ b \in Seq(Bytes) /\ Len(a) = d /\ u = a \o b
      /\ BytesOf(u) = BytesOf(a) \cup BytesOf(b)
      /\ Sound(u) <=> Sound(a) /\ Sound(b) /\ Before(BytesOf(a), BytesOf(b))
  <2>1. d \in Nat
    BY <1>1
  <2>2. QED BY <1>2, <1>4, <2>1, SoundParts
<1>6. a = Part(s, o, o + d) /\ b = Part(s, o + d, n)
  <2>1. o <= n /\ 0 <= d /\ d <= n - o /\ o + d <= n /\ o + (n - o) = n /\ 0 \in Nat
        /\ n - o <= n - o /\ n - o \in Nat /\ o + 0 = o
    BY <1>1, <1>2, <1>4
  <2>2. Part(Part(s, o, Len(s)), 0, d) = Part(s, o + 0, o + d)
    BY <1>1, <2>1, PartOfPart DEF n
  <2>3. Part(Part(s, o, Len(s)), d, n - o) = Part(s, o + d, o + (n - o))
    <3> DEFINE q == n - o
    <3>1. q \in Nat /\ o + q <= Len(s) /\ d <= q /\ o <= Len(s) /\ d \in Nat
      BY <1>1, <2>1 DEF n
    <3> HIDE DEF q
    <3>2. Part(Part(s, o, Len(s)), d, q) = Part(s, o + d, o + q)
      BY ONLY <1>1, <3>1, PartOfPart
    <3>3. QED BY <3>2 DEF q
  <2>4. a = Part(u, 0, d) /\ b = Part(u, d, n - o)
    BY <1>2 DEF Part
  <2>5. QED BY <2>1, <2>2, <2>3, <2>4 DEF u, n
<1> HIDE DEF a, b
<1>7. r.popped \o a \in Seq(Bytes)
  BY <1>1, <1>5, Joined
<1>8. /\ x \in ConsumerStates /\ x.open /\ x.orphans = r.orphans /\ x.aborted = r.aborted
      /\ x.abort = "live" /\ x.wild = r.wild
      /\ x.read = r.read /\ x.input = s /\ x.at = o + d /\ x.popped = r.popped \o a
  <2>1. x = [r EXCEPT !.at = o + d, !.abort = "live", !.popped = r.popped \o a]
    BY <1>6 DEF HandOver, Part, s, o, d
  <2> HIDE DEF x
  <2>2. QED BY <1>4, <1>7, <2>1 DEF ConsumerStates, s
<1> HIDE DEF x
<1>9. x.at > 0 /\ ~x.aborted
  BY <1>1, <1>8
<1>10. Rest(x) = b
  BY <1>6, <1>8, <1>9 DEF Rest, Part, n
<1>11. /\ Sound(r.popped \o a) /\ BytesOf(r.popped \o a) = BytesOf(r.popped) \cup BytesOf(a)
  <2>1. IsMultiple(Len(r.popped))
    BY DEF Sound, Whole
  <2>2. Before(BytesOf(r.popped), BytesOf(a)) /\ Sound(a)
    BY <1>3, <1>5 DEF Before
  <2>3. QED BY <1>1, <1>5, <2>1, <2>2, SoundJoin, BytesJoin
<1>12. Before(BytesOf(r.popped \o a), BytesOf(b)) /\ Sound(b)
  BY <1>3, <1>5, <1>11 DEF Before
<1>13. Reading(x)
  <2>1. x.at <= Len(x.input) /\ IsMultiple(x.at)
    BY <1>4, <1>8 DEF n
  <2>2. ~(x.read > 0)
    BY <1>8
  <2>3. QED BY <1>8, <1>9, <1>10, <1>11, <1>12, <2>1, <2>2 DEF Reading
<1>14. Taken(x) = BytesOf(r.popped) \cup BytesOf(u)
  BY <1>5, <1>8, <1>10, <1>11 DEF Taken
<1>15. QED
  BY <1>4, <1>5, <1>6, <1>8, <1>9, <1>10, <1>13, <1>14 DEF s, n, o, d, u, x

\* A read is started, where there is no batch to be handed over.
LEMMA StartReadIs ==
  ASSUME NEW r \in ConsumerStates, r.open, r.at = 0 \/ r.aborted,
         Sound(r.popped), IsMultiple(r.at), r.aborted => r.at > 0,
         (r.abort = "live") <=> (r.at > 0),
         r.read > 0 => /\ r.read = Len(r.input) /\ Sound(r.input)
                       /\ Before(BytesOf(r.popped), BytesOf(r.input))
  PROVE  LET x == StartRead(r) IN
           /\ x \in ConsumerStates /\ Reading(x) /\ x.open /\ x.orphans = r.orphans
           /\ x.aborted = r.aborted /\ x.abort = r.abort /\ x.wild = r.wild
           /\ x.popped = r.popped /\ x.at = r.at
           /\ Rest(x) = IF r.read > 0 THEN r.input ELSE <<>>
<1> DEFINE x == StartRead(r)
<1>1. /\ x \in ConsumerStates /\ x.open = r.open /\ x.orphans = r.orphans
      /\ x.aborted = r.aborted /\ x.popped = r.popped /\ x.at = r.at /\ x.input = r.input
      /\ x.abort = r.abort /\ x.wild = r.wild
      /\ x.read = IF r.read = None THEN Waits ELSE r.read
  BY DEF StartRead, ConsumerStates
<1> HIDE DEF x
<1>2. r.read \in Int /\ (x.read > 0 <=> r.read > 0) /\ (r.read > 0 => x.read = r.read)
  BY <1>1, ConsumerFields DEF None, Waits
<1>3. ~(x.at > 0 /\ ~x.aborted)
  BY <1>1
<1>4. Rest(x) = IF r.read > 0 THEN r.input ELSE <<>>
  BY <1>1, <1>2, <1>3 DEF Rest
<1>5. Sound(Rest(x)) /\ Before(BytesOf(x.popped), BytesOf(Rest(x)))
  BY <1>1, <1>4, SoundEmpty DEF Before
<1>6. Reading(x)
  BY <1>1, <1>2, <1>3, <1>5 DEF Reading
<1>7. QED BY <1>1, <1>4, <1>6 DEF x

-----------------------------------------------------------------------------
(* The invariant in parts. *)

Typed ==
  /\ prod \in [Producers -> ProducerStates] /\ cons \in [Consumers -> ConsumerStates]
  /\ pipe \in Seq(Bytes) /\ Len(pipe) <= PipeSize
  /\ interrupts \in 0 .. MaxInterrupts
  /\ reopened \subseteq Producers \cup Consumers

Running == failed = FALSE

LEMMA InvParts ==
  QueueInv <=> /\ Typed /\ ProducersKept /\ ConsumersKept /\ ClosedOnly /\ FlowKept
               /\ Covered /\ Running
<1>1. TypeOK => Typed
  BY DEF TypeOK, Typed
<1>2. ASSUME Typed, ProducersKept, ConsumersKept, Running
      PROVE  TypeOK
  <2>1. ASSUME NEW p \in Producers, ~prod[p].open
        PROVE  prod[p].write = None
    BY <1>2, <2>1 DEF ProducersKept, Writing
  <2>2. ASSUME NEW c \in Consumers
        PROVE  /\ ~cons[c].open => cons[c].read = None
               /\ (cons[c].abort = "live") <=> (cons[c].at > 0)
               /\ cons[c].aborted => cons[c].at > 0
               /\ cons[c].open /\ ~cons[c].aborted => cons[c].at <= Len(cons[c].input)
    <3>1. Reading(cons[c]) /\ cons[c] \in ConsumerStates
      BY <1>2 DEF ConsumersKept, Typed
    <3>2. cons[c].at \in Nat /\ Len(cons[c].input) \in Nat
      BY <3>1, ConsumerFields
    <3>3. QED BY <3>1, <3>2 DEF Reading
  <2>3. QED BY <1>2, <2>1, <2>2 DEF TypeOK, Typed, Running
<1>3. Running => ResultsAreWhole
  BY DEF ResultsAreWhole, Running
<1>4. TypeOK /\ ResultsAreWhole => Running
  BY DEF ResultsAreWhole, TypeOK, Running
<1>5. QED BY <1>1, <1>2, <1>3, <1>4 DEF QueueInv

LEMMA InvPartsNext ==
  QueueInv' <=> /\ Typed' /\ ProducersKept' /\ ConsumersKept' /\ ClosedOnly' /\ FlowKept'
                /\ Covered' /\ Running'
  BY InvParts, PTL

\* What the invariant says of the producers, the consumers and the pipe.
LEMMA Producer ==
  ASSUME QueueInv, NEW p \in Producers
  PROVE  /\ prod[p] \in ProducerStates
         /\ Filled(p, prod[p]) /\ Writing(prod[p]) /\ Orphaned(p, prod[p])
         /\ Sent(prod[p]) \in Nat
<1>1. /\ prod[p] \in ProducerStates
      /\ Filled(p, prod[p]) /\ Writing(prod[p]) /\ Orphaned(p, prod[p])
  BY InvParts DEF Typed, ProducersKept
<1>2. QED BY <1>1, BaseIs

LEMMA Consumer ==
  ASSUME QueueInv, NEW c \in Consumers
  PROVE  cons[c] \in ConsumerStates /\ Reading(cons[c]) /\ Taken(cons[c]) \subseteq Bytes
<1>1. cons[c] \in ConsumerStates /\ Reading(cons[c])
  BY InvParts DEF Typed, ConsumersKept
<1>2. QED BY <1>1, RestIs

LEMMA Pipe ==
  ASSUME QueueInv
  PROVE  /\ pipe \in Seq(Bytes) /\ Len(pipe) \in Nat /\ Len(pipe) <= PipeSize
         /\ Sound(pipe) /\ IsMultiple(Len(pipe))
         /\ BytesOf(pipe) \subseteq Bytes /\ Flowing \subseteq Bytes
         /\ \A x \in Flowing : x[1] \in Producers /\ x[2] \in Nat
<1>1. pipe \in Seq(Bytes) /\ Len(pipe) <= PipeSize /\ Sound(pipe)
  BY InvParts DEF Typed, FlowKept
<1>2. Len(pipe) \in Nat /\ BytesOf(pipe) \subseteq Bytes
  BY <1>1, Members
<1>3. IsMultiple(Len(pipe))
  BY <1>1 DEF Sound, Whole
<1>4. Flowing \subseteq Bytes
  BY <1>2, Consumer DEF Flowing
<1>5. QED BY <1>1, <1>2, <1>3, <1>4, BytesTyped

-----------------------------------------------------------------------------
(* A step of a producer, which becomes x, and of which t goes into the pipe. *)

\* The bytes t leave producer p in their turn.
Follows(t, p, x) ==
  \A y \in BytesOf(t) :
    /\ y[1] = p /\ y[2] <= Sent(x)
    /\ \A k \in DOMAIN x.orphans : Before({y}, BytesOf(x.orphans[k]))

\* What x has cancelled r had, or it was not sent.
OrphansFrom(r, x) ==
  \A k \in DOMAIN x.orphans :
    \/ \E l \in DOMAIN r.orphans : x.orphans[k] = r.orphans[l]
    \/ \A y \in BytesOf(x.orphans[k]) : Sent(r) < y[2]

Covers(p, r, x, t) ==
  r.open /\ \A n \in Sent(r) + 1 .. Sent(x) : <<p, n>> \in BytesOf(t)

LEMMA ProducerStep ==
  ASSUME QueueInv, NEW p \in Producers, NEW x \in ProducerStates, NEW t \in Seq(Bytes),
         prod' = [prod EXCEPT ![p] = x], cons' = cons, pipe' = pipe \o t,
         failed' = FALSE, interrupts' \in 0 .. MaxInterrupts,
         reopened \subseteq reopened', reopened' \subseteq Producers \cup Consumers,
         Len(pipe) + Len(t) <= PipeSize, Sound(t), Before(Flowing, BytesOf(t)),
         Filled(p, x), Writing(x), Orphaned(p, x), Sent(prod[p]) <= Sent(x),
         x.open /\ p \notin reopened' =>
           x.orphans = <<>> /\ (x.write = None => x.offset = 0),
         Follows(t, p, x), OrphansFrom(prod[p], x),
         x.open /\ reopened' = {} => reopened = {} /\ Covers(p, prod[p], x, t)
  PROVE  QueueInv'
<1> DEFINE r == prod[p]
<1>1. /\ r \in ProducerStates /\ Orphaned(p, r) /\ Sent(r) \in Nat /\ Sent(x) \in Nat
      /\ Sent(r) <= Sent(x)
  BY Producer, BaseIs
<1>2. /\ prod \in [Producers -> ProducerStates] /\ cons \in [Consumers -> ConsumerStates]
      /\ ProducersKept /\ ConsumersKept /\ ClosedOnly /\ FlowKept /\ Covered
  BY InvParts DEF Typed
<1>3. /\ prod'[p] = x /\ \A q \in Producers : q # p => prod'[q] = prod[q]
      /\ prod' \in [Producers -> ProducerStates]
  BY <1>2
<1>4. /\ pipe' \in Seq(Bytes) /\ Len(pipe') = Len(pipe) + Len(t)
      /\ BytesOf(pipe') = BytesOf(pipe) \cup BytesOf(t)
  BY Pipe, Joined, BytesJoin
<1>5. Flowing' = Flowing \cup BytesOf(t)
  BY <1>4 DEF Flowing
<1>6. Typed'
  BY <1>2, <1>3, <1>4 DEF Typed
<1>7. ProducersKept'
  BY <1>2, <1>3 DEF ProducersKept
<1>8. ConsumersKept'
  BY <1>2 DEF ConsumersKept
<1>9. ClosedOnly'
  BY <1>2, <1>3 DEF ClosedOnly
<1>10. \A c \in Consumers : Taken(cons[c]) \subseteq Flowing /\ BytesOf(pipe) \subseteq Flowing
  BY DEF Flowing
<1>11. FlowKept'
  <2>1. Sound(pipe')
    <3>1. Before(BytesOf(pipe), BytesOf(t))
      BY DEF Before, Flowing
    <3>2. QED BY <3>1, Pipe, SoundJoin
  <2>2. ASSUME NEW c \in Consumers
        PROVE  Before(Taken(cons[c]), BytesOf(pipe'))
    <3>1. Before(Taken(cons[c]), BytesOf(pipe))
      BY <1>2 DEF FlowKept
    <3>2. QED BY <1>4, <1>10, <3>1 DEF Before
  <2>3. \A c, d \in Consumers : c # d => Taken(cons[c]) \cap Taken(cons[d]) = {}
    BY <1>2 DEF FlowKept
  <2>4. ASSUME NEW y \in Flowing
        PROVE  /\ y[2] <= Sent(prod'[y[1]])
               /\ \A k \in DOMAIN prod'[y[1]].orphans :
                    Before({y}, BytesOf(prod'[y[1]].orphans[k]))
    <3>1. /\ y[2] <= Sent(prod[y[1]]) /\ y[2] \in Nat /\ y[1] \in Producers
          /\ \A k \in DOMAIN prod[y[1]].orphans :
               Before({y}, BytesOf(prod[y[1]].orphans[k]))
      BY <1>2, Pipe DEF FlowKept
    <3>2. CASE y[1] # p
      BY <1>3, <3>1, <3>2
    <3>3. CASE y[1] = p
      <4>1. y[2] <= Sent(r) /\ y[2] <= Sent(x)
        BY <1>1, <3>1, <3>3
      <4>2. ASSUME NEW k \in DOMAIN x.orphans
            PROVE  Before({y}, BytesOf(x.orphans[k]))
        <5>1. CASE \E l \in DOMAIN r.orphans : x.orphans[k] = r.orphans[l]
          BY <3>1, <3>3, <5>1
        <5>2. CASE \A z \in BytesOf(x.orphans[k]) : Sent(r) < z[2]
          <6>1. BytesOf(x.orphans[k]) \subseteq Bytes
            BY Members, ProducerFields
          <6>2. ASSUME NEW z \in BytesOf(x.orphans[k])
                PROVE  y[2] < z[2]
            <7>1. z[2] \in Nat /\ Sent(r) < z[2]
              BY <5>2, <6>1, BytesTyped
            <7>2. QED BY <1>1, <3>1, <4>1, <7>1
          <6>3. QED BY <6>2 DEF Before
        <5>3. QED BY <5>1, <5>2 DEF OrphansFrom
      <4>3. QED BY <1>3, <3>3, <4>1, <4>2
    <3>4. QED BY <3>2, <3>3
  <2>5. ASSUME NEW y \in BytesOf(t)
        PROVE  /\ y[2] <= Sent(prod'[y[1]])
               /\ \A k \in DOMAIN prod'[y[1]].orphans :
                    Before({y}, BytesOf(prod'[y[1]].orphans[k]))
    BY <1>3 DEF Follows
  <2>6. QED BY <1>5, <2>1, <2>2, <2>3, <2>4, <2>5 DEF FlowKept
<1>12. Covered'
  <2>1. SUFFICES ASSUME NothingClosed', NEW q \in Producers, NEW n \in 1 .. Sent(prod'[q])
                 PROVE  <<q, n>> \in Flowing'
    BY DEF Covered
  <2>2. x.open /\ reopened' = {} /\ \A q1 \in Producers : prod'[q1].open
    BY <1>3, <2>1 DEF NothingClosed
  <2>3. NothingClosed /\ Covers(p, r, x, t)
    BY <1>3, <2>1, <2>2 DEF NothingClosed, Covers
  <2>4. \A q1 \in Producers : \A n1 \in 1 .. Sent(prod[q1]) : <<q1, n1>> \in Flowing
    BY <1>2, <2>3 DEF Covered
  <2>5. CASE q # p
    BY <1>3, <1>5, <2>1, <2>4, <2>5
  <2>6. CASE q = p
    <3>1. n \in 1 .. Sent(x)
      BY <1>3, <2>1, <2>6
    <3>2. CASE n \in 1 .. Sent(r)
      BY <1>5, <2>4, <2>6, <3>2
    <3>3. CASE n \in Sent(r) + 1 .. Sent(x)
      BY <1>5, <2>3, <2>6, <3>3 DEF Covers
    <3>4. QED BY <1>1, <3>1, <3>2, <3>3
  <2>7. QED BY <2>5, <2>6
<1>13. Running'
  BY DEF Running
<1>14. QED BY <1>6, <1>7, <1>8, <1>9, <1>11, <1>12, <1>13, InvPartsNext

-----------------------------------------------------------------------------
(* A step of a consumer, which becomes x, and of the pipe, of which the     *)
(* first m bytes are taken out.                                             *)

\* x has taken nothing but what r had and s, and all of it if full.
Takes(r, x, s) == Taken(x) \subseteq Taken(r) \cup BytesOf(s)
TakesAll(r, x, s) == r.open /\ Taken(r) \cup BytesOf(s) \subseteq Taken(x)

\* A consumer that was never closed has cancelled no read and aborted no handler, and
\* one that was not opened again has written to no flag but of a handler that ran.
Unclosed(c, x) ==
  /\ x.open /\ c \notin reopened' => x.orphans = 0 /\ ~x.aborted /\ x.abort # "dangling"
  /\ x.wild => c \in reopened'

LEMMA ConsumerStep ==
  ASSUME QueueInv, NEW c \in Consumers, NEW x \in ConsumerStates,
         NEW m \in Nat, m <= Len(pipe), IsMultiple(m),
         cons' = [cons EXCEPT ![c] = x], prod' = prod,
         pipe' = SubSeq(pipe, m + 1, Len(pipe)),
         failed' = FALSE, interrupts' \in 0 .. MaxInterrupts,
         reopened \subseteq reopened', reopened' \subseteq Producers \cup Consumers,
         Reading(x), Takes(cons[c], x, SubSeq(pipe, 1, m)),
         Unclosed(c, x),
         x.open /\ reopened' = {} =>
           reopened = {} /\ TakesAll(cons[c], x, SubSeq(pipe, 1, m))
  PROVE  QueueInv'
<1> DEFINE r == cons[c]
           a == SubSeq(pipe, 1, m)
           b == SubSeq(pipe, m + 1, Len(pipe))
<1>1. /\ prod \in [Producers -> ProducerStates] /\ cons \in [Consumers -> ConsumerStates]
      /\ ProducersKept /\ ConsumersKept /\ ClosedOnly /\ FlowKept /\ Covered
      /\ Len(pipe) <= PipeSize /\ pipe \in Seq(Bytes)
  BY InvParts DEF Typed
<1>2. /\ cons'[c] = x /\ \A d \in Consumers : d # c => cons'[d] = cons[d]
      /\ cons' \in [Consumers -> ConsumerStates]
  BY <1>1
<1>3. /\ b \in Seq(Bytes) /\ Len(b) = Len(pipe) - m
      /\ BytesOf(pipe) = BytesOf(a) \cup BytesOf(b)
      /\ Sound(b) /\ Before(BytesOf(a), BytesOf(b))
  BY Pipe, SoundParts
<1>4. pipe' = b /\ Takes(r, x, a)
      /\ (x.open /\ reopened' = {} => reopened = {} /\ TakesAll(r, x, a))
  OBVIOUS
<1> HIDE DEF a, b
<1>5. Len(b) <= PipeSize
  <2>1. Len(pipe) \in Nat /\ PipeSize \in Nat
    BY Pipe, Size
  <2>2. QED BY <1>1, <1>3, <2>1
<1>6. Typed'
  BY <1>1, <1>2, <1>3, <1>4, <1>5 DEF Typed
<1>7. ProducersKept'
  BY <1>1 DEF ProducersKept
<1>8. ConsumersKept'
  BY <1>1, <1>2 DEF ConsumersKept
<1>9. ClosedOnly'
  BY <1>1, <1>2 DEF ClosedOnly, Unclosed
<1>10. \A d \in Consumers : Taken(cons'[d]) \subseteq
         Taken(cons[d]) \cup (IF d = c THEN BytesOf(a) ELSE {})
  BY <1>2, <1>4 DEF Takes
<1>11. \A d \in Consumers : Before(Taken(cons[d]), BytesOf(pipe))
  BY <1>1 DEF FlowKept
<1>12. Flowing' \subseteq Flowing
  <2>1. BytesOf(b) \subseteq Flowing /\ BytesOf(a) \subseteq Flowing
    BY <1>3 DEF Flowing
  <2>2. \A d \in Consumers : Taken(cons[d]) \subseteq Flowing
    BY DEF Flowing
  <2>3. \A d \in Consumers : Taken(cons'[d]) \subseteq Flowing
    BY <1>10, <2>1, <2>2
  <2>4. QED BY <1>4, <2>1, <2>3 DEF Flowing
<1>13. FlowKept'
  <2>1. ASSUME NEW d \in Consumers
        PROVE  Before(Taken(cons'[d]), BytesOf(b))
    <3>1. Before(Taken(cons[d]), BytesOf(b))
      BY <1>3, <1>11 DEF Before
    <3>2. QED BY <1>3, <1>10, <3>1 DEF Before
  <2>2. ASSUME NEW d \in Consumers, NEW e \in Consumers, d # e
        PROVE  Taken(cons'[d]) \cap Taken(cons'[e]) = {}
    <3>1. Taken(cons[d]) \cap Taken(cons[e]) = {}
      BY <1>1, <2>2 DEF FlowKept
    <3>2. \A f \in Consumers : Taken(cons[f]) \cap BytesOf(a) = {}
      <4>1. ASSUME NEW f \in Consumers, NEW y \in Taken(cons[f]), y \in BytesOf(a)
            PROVE  FALSE
        <5>1. y[2] < y[2]
          BY <1>3, <1>11, <4>1 DEF Before
        <5>2. y[2] \in Nat
          BY <4>1, Consumer, BytesTyped
        <5>3. QED BY <5>1, <5>2
      <4>2. QED BY <4>1
    <3>3. QED BY <1>10, <2>2, <3>1, <3>2
  <2>3. \A y \in Flowing :
          /\ y[2] <= Sent(prod[y[1]])
          /\ \A k \in DOMAIN prod[y[1]].orphans :
               Before({y}, BytesOf(prod[y[1]].orphans[k]))
    BY <1>1 DEF FlowKept
  <2>4. QED BY <1>3, <1>4, <1>12, <2>1, <2>2, <2>3 DEF FlowKept
<1>14. Covered'
  <2>1. SUFFICES ASSUME NothingClosed', NEW q \in Producers, NEW n \in 1 .. Sent(prod[q])
                 PROVE  <<q, n>> \in Flowing'
    BY DEF Covered
  <2>2. x.open /\ reopened' = {} /\ \A d \in Consumers : cons'[d].open
    BY <1>2, <2>1 DEF NothingClosed
  <2>3. TakesAll(r, x, a) /\ NothingClosed
    BY <1>2, <1>4, <2>1, <2>2 DEF NothingClosed, TakesAll
  <2>4. <<q, n>> \in Flowing
    BY <1>1, <2>1, <2>3 DEF Covered
  <2>5. \A d \in Consumers : Taken(cons[d]) \subseteq Taken(cons'[d])
    BY <1>2, <2>3 DEF TakesAll
  <2>6. BytesOf(a) \subseteq Taken(cons'[c])
    BY <1>2, <2>3 DEF TakesAll
  <2>7. Flowing \subseteq Flowing'
    BY <1>3, <1>4, <2>5, <2>6 DEF Flowing
  <2>8. QED BY <2>4, <2>7
<1>15. Running'
  BY DEF Running
<1>16. QED BY <1>6, <1>7, <1>8, <1>9, <1>13, <1>14, <1>15, InvPartsNext

LEMMA ConsumerKeeps ==
  ASSUME QueueInv, NEW c \in Consumers, NEW x \in ConsumerStates,
         cons' = [cons EXCEPT ![c] = x], prod' = prod, pipe' = pipe,
         failed' = FALSE, interrupts' \in 0 .. MaxInterrupts,
         reopened \subseteq reopened', reopened' \subseteq Producers \cup Consumers,
         Reading(x), Taken(x) \subseteq Taken(cons[c]),
         Unclosed(c, x),
         x.open /\ reopened' = {} =>
           reopened = {} /\ cons[c].open /\ Taken(cons[c]) \subseteq Taken(x)
  PROVE  QueueInv'
<1>1. pipe \in Seq(Bytes) /\ Len(pipe) \in Nat
  BY Pipe
<1>2. SubSeq(pipe, 1, 0) = <<>> /\ SubSeq(pipe, 0 + 1, Len(pipe)) = pipe
  BY <1>1
<1>3. 0 \in Nat /\ 0 <= Len(pipe) /\ IsMultiple(0)
  BY <1>1, Multiples
<1>4. Takes(cons[c], x, SubSeq(pipe, 1, 0))
  BY <1>2, SoundEmpty DEF Takes
<1>5. x.open /\ reopened' = {} => reopened = {} /\ TakesAll(cons[c], x, SubSeq(pipe, 1, 0))
  BY <1>2, SoundEmpty DEF TakesAll
<1>6. pipe' = SubSeq(pipe, 0 + 1, Len(pipe))
  BY <1>2
<1>7. QED BY <1>3, <1>4, <1>5, <1>6, ConsumerStep

\* The other variables.
LEMMA Others ==
  ASSUME QueueInv
  PROVE  /\ interrupts \in 0 .. MaxInterrupts /\ failed = FALSE
         /\ reopened \subseteq Producers \cup Consumers
         /\ prod \in [Producers -> ProducerStates]
         /\ cons \in [Consumers -> ConsumerStates]
         /\ MaxInterrupts \in Nat
         /\ \A p \in Producers : LET r == prod[p] IN
              r.open /\ p \notin reopened =>
                r.orphans = <<>> /\ (r.write = None => r.offset = 0)
         /\ \A c \in Consumers :
              /\ cons[c].open /\ c \notin reopened =>
                   cons[c].orphans = 0 /\ ~cons[c].aborted /\ cons[c].abort # "dangling"
              /\ cons[c].wild => c \in reopened
  BY InvParts, BoundsAssumption DEF Typed, Running, ClosedOnly

-----------------------------------------------------------------------------
(* What a step of a consumer does to the line of bytes that have left the   *)
(* producers.                                                               *)

\* The line stays as it is, but that more of it may have been popped; no callback is
\* called with anything while the consumer is closed, and a close tells the handler.
Passes(c, r, x) ==
  /\ ~r.open \/ ~x.open => x.popped = r.popped
  /\ r.open /\ ~x.open => (x.aborted <=> r.at > 0)
  /\ x.open /\ c \notin reopened' =>
       /\ r.open /\ Len(r.popped) <= Len(x.popped)
       /\ x.popped \o (Rest(x) \o pipe') = r.popped \o (Rest(r) \o pipe)

Passed(c) ==
  /\ prod' = prod
  /\ \E x \in ConsumerStates :
       cons' = [cons EXCEPT ![c] = x] /\ Passes(c, cons[c], x)

LEMMA Lines ==
  ASSUME NEW s \in Seq(Bytes), NEW t \in Seq(Bytes), NEW u \in Seq(Bytes)
  PROVE  /\ (s \o t) \o u = s \o (t \o u)
         /\ s \o t \in Seq(Bytes)
<1> DEFINE S == Bytes
<1>1. s \in Seq(S) /\ t \in Seq(S) /\ u \in Seq(S)
  OBVIOUS
<1> HIDE DEF S
<1>2. (s \o t) \o u = s \o (t \o u)
  BY <1>1, ConcatAssociative
<1>3. s \o t \in Seq(S)
  BY <1>1, Joined
<1>4. QED BY <1>2, <1>3 DEF S

LEMMA LinesAssociate ==
  \A s, t, u \in Seq(Bytes) : (s \o t) \o u = s \o (t \o u)
BY ONLY Lines

LEMMA EmptyLines ==
  ASSUME NEW s \in Seq(Bytes)
  PROVE  <<>> \o s = s /\ s \o <<>> = s
<1> DEFINE S == Bytes
<1>1. s \in Seq(S)
  OBVIOUS
<1> HIDE DEF S
<1>2. QED BY <1>1, ConcatEmptySeq

LEMMA PassesKept ==
  ASSUME NEW c \in Consumers, NEW r \in ConsumerStates, NEW x \in ConsumerStates,
         x.popped = r.popped, Rest(x) = Rest(r), pipe' = pipe,
         x.open /\ c \notin reopened' => r.open, r.open => x.open
  PROVE  Passes(c, r, x)
<1>1. Len(r.popped) <= Len(x.popped)
  BY ConsumerFields
<1>2. QED BY <1>1 DEF Passes

LEMMA PassesOn ==
  ASSUME NEW c \in Consumers, NEW r \in ConsumerStates, NEW x \in ConsumerStates,
         NEW a \in Seq(Bytes), r.open, x.open, x.popped = r.popped \o a,
         Rest(x) \in Seq(Bytes), Rest(r) = a \o Rest(x), pipe' = pipe, pipe \in Seq(Bytes)
  PROVE  Passes(c, r, x)
<1> DEFINE s == r.popped
           b == Rest(x)
<1>1. s \in Seq(Bytes) /\ Len(s) \in Nat /\ Len(a) \in Nat /\ b \in Seq(Bytes)
      /\ a \in Seq(Bytes) /\ pipe \in Seq(Bytes)
  BY ConsumerFields
<1>2. x.popped = s \o a /\ Rest(r) = a \o b
  OBVIOUS
<1> HIDE DEF s, b
<1>3. Len(s \o a) = Len(s) + Len(a) /\ b \o pipe \in Seq(Bytes)
  BY <1>1, Joined
<1>4. Len(s) <= Len(x.popped)
  BY <1>1, <1>2, <1>3
<1>5. (s \o a) \o (b \o pipe) = s \o (a \o (b \o pipe))
  <2> DEFINE d == b \o pipe
  <2>1. s \in Seq(Bytes) /\ a \in Seq(Bytes) /\ d \in Seq(Bytes)
    BY <1>1, <1>3
  <2> HIDE DEF d
  <2>2. (s \o a) \o d = s \o (a \o d)
    BY ONLY <2>1, LinesAssociate, Zenon
  <2>3. QED BY <2>2 DEF d
<1>6. a \o (b \o pipe) = (a \o b) \o pipe
  BY ONLY <1>1, LinesAssociate, Zenon
<1>7. x.popped \o (b \o pipe) = s \o (Rest(r) \o pipe)
  BY <1>2, <1>5, <1>6, Zenon
<1>8. QED BY <1>4, <1>7 DEF Passes, s, b

\* Bytes out of the pipe are popped, or read.
LEMMA PassesOut ==
  ASSUME NEW c \in Consumers, NEW r \in ConsumerStates, NEW x \in ConsumerStates,
         NEW a \in Seq(Bytes), r.open, x.open, Rest(r) = <<>>,
         \/ x.popped = r.popped \o a /\ Rest(x) = <<>>
         \/ x.popped = r.popped /\ Rest(x) = a,
         pipe = a \o pipe', pipe' \in Seq(Bytes)
  PROVE  Passes(c, r, x)
<1> DEFINE s == r.popped
<1>1. s \in Seq(Bytes) /\ Len(s) \in Nat /\ Len(a) \in Nat /\ pipe \in Seq(Bytes)
      /\ pipe' \in Seq(Bytes) /\ a \in Seq(Bytes)
  BY ConsumerFields, Joined
<1>2. <<>> \o pipe = pipe /\ <<>> \o pipe' = pipe'
  <2>1. \A q \in Seq(Bytes) : <<>> \o q = q
    BY EmptyLines
  <2>2. pipe \in Seq(Bytes) /\ pipe' \in Seq(Bytes)
    BY <1>1
  <2>3. QED BY ONLY <2>1, <2>2, Zenon
<1>3. (s \o a) \o pipe' = s \o (a \o pipe')
  <2> HIDE DEF s
  <2>1. s \in Seq(Bytes) /\ a \in Seq(Bytes) /\ pipe' \in Seq(Bytes)
    BY <1>1
  <2>2. QED BY ONLY <2>1, LinesAssociate, Zenon
<1>4. Len(s \o a) = Len(s) + Len(a)
  BY <1>1, Joined
<1>5. CASE x.popped = s \o a /\ Rest(x) = <<>>
  <2>1. x.popped \o (Rest(x) \o pipe') = s \o (Rest(r) \o pipe)
    BY <1>2, <1>3, <1>5, Zenon
  <2>2. Len(s) <= Len(x.popped)
    <3> HIDE DEF s
    <3>1. QED BY <1>1, <1>4, <1>5
  <2>3. QED BY <2>1, <2>2 DEF Passes
<1>6. CASE x.popped = s /\ Rest(x) = a
  <2>1. x.popped \o (Rest(x) \o pipe') = s \o (Rest(r) \o pipe)
    BY <1>2, <1>6, Zenon
  <2>2. Len(s) <= Len(x.popped)
    BY <1>1, <1>6
  <2>3. QED BY <1>6, <2>1, <2>2 DEF Passes
<1>7. QED BY <1>5, <1>6

-----------------------------------------------------------------------------
(* The steps of the consumers. *)

LEMMA PopStep ==
  ASSUME QueueInv, NEW c \in Consumers, Pop(c)
  PROVE  QueueInv' /\ Passed(c)
<1> DEFINE r == cons[c]
           x == StartRead(r)
<1>1. /\ cons' = [cons EXCEPT ![c] = x] /\ prod' = prod /\ pipe' = pipe /\ failed' = failed
      /\ interrupts' = interrupts /\ reopened' = reopened /\ r.open
  BY Others DEF Pop
<1>2. r \in ConsumerStates /\ Reading(r) /\ r.at \in Nat /\ r.read \in Int
  BY Consumer, ConsumerFields
<1>3. Unclosed(c, r)
  BY <1>1, Others DEF Unclosed
<1> HIDE DEF r
<1>4. /\ x \in ConsumerStates /\ x.open /\ x.orphans = r.orphans
      /\ x.aborted = r.aborted /\ x.popped = r.popped /\ x.at = r.at /\ x.input = r.input
      /\ x.abort = r.abort /\ x.wild = r.wild
      /\ x.read = IF r.read = None THEN Waits ELSE r.read
  BY <1>1, <1>2 DEF StartRead, ConsumerStates
<1> HIDE DEF x
<1>5. (x.read > 0 <=> r.read > 0) /\ (r.read > 0 => x.read = r.read)
  BY <1>2, <1>4 DEF None, Waits
<1>6. /\ Rest(x) = Rest(r) /\ Reading(x) /\ Unclosed(c, x)
  <2>1. Rest(x) = Rest(r)
    BY <1>4, <1>5 DEF Rest
  <2>2. QED BY <1>1, <1>2, <1>3, <1>4, <1>5, <2>1 DEF Reading, Unclosed
<1>7. Taken(x) = Taken(r)
  BY <1>4, <1>6 DEF Taken
<1>8. QueueInv'
  BY <1>1, <1>4, <1>6, <1>7, Others, ConsumerKeeps DEF r
<1>9. Passes(c, r, x)
  BY <1>1, <1>2, <1>4, <1>6, PassesKept
<1>10. QED BY <1>1, <1>4, <1>8, <1>9 DEF Passed, r

LEMMA PopSyncStep ==
  ASSUME QueueInv, NEW c \in Consumers, PopSync(c)
  PROVE  QueueInv' /\ Passed(c)
<1> DEFINE r == cons[c]
           d == ElementSize
           a == SubSeq(pipe, 1, d)
           x == [r EXCEPT !.popped = r.popped \o a]
<1>1. /\ cons' = [cons EXCEPT ![c] = x] /\ prod' = prod
      /\ pipe' = SubSeq(pipe, d + 1, Len(pipe)) /\ failed' = failed
      /\ interrupts' = interrupts /\ reopened' = reopened
      /\ r.open /\ r.at = 0 /\ r.read = None /\ Len(pipe) >= d
  BY Others DEF PopSync
<1>2. r \in ConsumerStates /\ Reading(r) /\ r.popped \in Seq(Bytes)
  BY Consumer, ConsumerFields
<1>3. d \in Nat /\ d <= Len(pipe) /\ IsMultiple(d)
  BY <1>1, Size, Multiples, Pipe
<1>4. /\ a \in Seq(Bytes) /\ BytesOf(a) \subseteq BytesOf(pipe) /\ Sound(a)
  <2>1. pipe \in Seq(Bytes) /\ Sound(pipe)
    BY Pipe
  <2>2. /\ a \in Seq(Bytes) /\ BytesOf(pipe) = BytesOf(a) \cup
             BytesOf(SubSeq(pipe, d + 1, Len(pipe)))
        /\ Sound(a)
    BY <1>3, <2>1, SoundParts
  <2>3. QED BY <2>2
<1>5. Before(Taken(r), BytesOf(a)) /\ BytesOf(r.popped) \subseteq Taken(r)
  <2>1. Before(Taken(r), BytesOf(pipe))
    BY InvParts DEF FlowKept
  <2>2. QED BY <1>2, <1>4, <2>1, RestIs DEF Before
<1> HIDE DEF r, d, a
<1>6. /\ r.popped \o a \in Seq(Bytes) /\ Sound(r.popped \o a)
      /\ BytesOf(r.popped \o a) = BytesOf(r.popped) \cup BytesOf(a)
  <2>1. Sound(r.popped) /\ IsMultiple(Len(r.popped))
    BY <1>2 DEF Reading, Sound, Whole
  <2>2. Before(BytesOf(r.popped), BytesOf(a))
    BY <1>5 DEF Before
  <2>3. QED BY <1>2, <1>4, <2>1, <2>2, SoundJoin, BytesJoin, Joined
<1>7. /\ x \in ConsumerStates /\ x.open = r.open /\ x.at = r.at /\ x.read = r.read
      /\ x.aborted = r.aborted /\ x.orphans = r.orphans /\ x.input = r.input
      /\ x.abort = r.abort /\ x.wild = r.wild /\ x.popped = r.popped \o a
  BY <1>2, <1>6 DEF ConsumerStates
<1> HIDE DEF x
<1>8. Rest(x) = <<>> /\ Rest(r) = <<>>
  BY <1>1, <1>7 DEF Rest, None
<1>9. Reading(x)
  <2>1. Before(BytesOf(x.popped), BytesOf(Rest(x))) /\ Sound(Rest(x))
    BY <1>8, SoundEmpty DEF Before
  <2>2. ~(x.at > 0) /\ ~(x.read > 0)
    BY <1>1, <1>7 DEF None
  <2>3. QED BY <1>1, <1>2, <1>6, <1>7, <2>1, <2>2 DEF Reading
<1>10. Taken(x) = Taken(r) \cup BytesOf(a)
  BY <1>6, <1>7, <1>8, SoundEmpty DEF Taken
<1>11. Takes(r, x, a) /\ TakesAll(r, x, a)
  BY <1>1, <1>10 DEF Takes, TakesAll
<1>12. QueueInv'
  <2>1. Unclosed(c, x)
    BY <1>1, <1>7, Others DEF Unclosed, r
  <2>2. QED BY <1>1, <1>3, <1>7, <1>9, <1>11, <2>1, Others, ConsumerStep DEF r, d, a
<1>13. Passes(c, r, x)
  <2>1. pipe = a \o pipe' /\ pipe' \in Seq(Bytes)
    BY <1>1, <1>3, Pipe, SoundParts DEF a
  <2>2. QED BY <1>1, <1>2, <1>4, <1>7, <1>8, <2>1, PassesOut
<1>14. QED BY <1>1, <1>7, <1>12, <1>13 DEF Passed, r

LEMMA ConsumerReadStep ==
  ASSUME QueueInv, NEW c \in Consumers, ConsumerRead(c)
  PROVE  QueueInv' /\ Passed(c)
<1> DEFINE r == cons[c]
           s == [r EXCEPT !.read = None]
<1>1. /\ r.at = 0 /\ r.read # None /\ r.read # Waits
      /\ prod' = prod /\ pipe' = pipe /\ interrupts' = interrupts /\ reopened' = reopened
  BY DEF ConsumerRead
<1>2. \/ /\ r.read = Interrupted /\ cons' = [cons EXCEPT ![c] = StartRead(s)]
         /\ failed' = failed
      \/ /\ r.read # Interrupted /\ cons' = [cons EXCEPT ![c] = HandOver(s)]
         /\ failed' = (r.read % ElementSize # 0)
  BY DEF ConsumerRead
<1>3. r \in ConsumerStates /\ Reading(r)
  BY Consumer
<1> HIDE DEF r
<1>4. /\ s \in ConsumerStates /\ s.open = r.open /\ s.at = r.at /\ s.read = None
      /\ s.aborted = r.aborted /\ s.orphans = r.orphans /\ s.input = r.input
      /\ s.abort = r.abort /\ s.wild = r.wild /\ s.popped = r.popped
  BY <1>3 DEF ConsumerStates
<1> HIDE DEF s
<1>5. /\ r.open /\ ~r.aborted /\ IsMultiple(r.at) /\ Sound(r.popped) /\ r.open \in BOOLEAN
      /\ r.aborted \in BOOLEAN /\ ~(s.read > 0) /\ ((s.abort = "live") <=> (s.at > 0))
      /\ s.at = 0
  BY <1>1, <1>3, <1>4, ConsumerFields DEF Reading, None
<1>6. CASE r.read = Interrupted
  <2> DEFINE x == StartRead(s)
  <2>1. ~(s.read > 0) /\ ~(r.read > 0)
    BY <1>4, <1>6 DEF None, Interrupted
  <2>2. /\ x \in ConsumerStates /\ Reading(x) /\ x.open /\ x.orphans = s.orphans
        /\ x.aborted = s.aborted /\ x.popped = s.popped /\ Rest(x) = <<>>
        /\ x.abort = s.abort /\ x.wild = s.wild
    BY <1>1, <1>4, <1>5, <2>1, StartReadIs
  <2>3. Rest(r) = <<>>
    BY <1>1, <2>1 DEF Rest
  <2>4. cons' = [cons EXCEPT ![c] = x] /\ failed' = failed
    BY <1>2, <1>6
  <2> HIDE DEF x
  <2>5. Taken(x) = Taken(r)
    BY <1>4, <2>2, <2>3 DEF Taken
  <2>6. QueueInv'
    <3>1. Unclosed(c, x)
      BY <1>1, <1>4, <1>5, <2>2, Others DEF Unclosed, r
    <3>2. QED BY <1>1, <1>4, <1>5, <2>2, <2>4, <2>5, <3>1, Others, ConsumerKeeps DEF r
  <2>7. Passes(c, r, x)
    BY <1>1, <1>3, <1>4, <1>5, <2>2, <2>3, PassesKept
  <2>8. QED BY <1>1, <2>2, <2>4, <2>6, <2>7 DEF Passed, r
<1>7. CASE r.read # Interrupted
  <2> DEFINE x == HandOver(s)
             u == Part(r.input, 0, Len(r.input))
  <2>1. r.read \in Nat \ {0} /\ r.read > 0 /\ r.input \in Seq(Bytes)
    BY <1>1, <1>3, <1>7, ConsumerFields DEF None, Waits, Interrupted
  <2>2. r.read = Len(r.input) /\ Rest(r) = r.input /\ u = r.input
    <3>1. r.read = Len(r.input)
      BY <1>3, <2>1 DEF Reading
    <3>2. Rest(r) = r.input
      BY <1>1, <2>1 DEF Rest
    <3>3. QED BY <2>1, <3>1, <3>2, WholePart
  <2>3. Sound(r.input) /\ Before(BytesOf(r.popped), BytesOf(r.input))
    BY <1>3, <2>2 DEF Reading
  <2>4. 0 < Len(r.input) /\ IsMultiple(Len(r.input))
    BY <2>1, <2>2, <2>3 DEF Sound, Whole
  <2>5. failed' = FALSE
    BY <1>2, <1>7, <2>2, <2>4 DEF IsMultiple
  <2>6. cons' = [cons EXCEPT ![c] = x]
    BY <1>2, <1>7
  <2>7. /\ s.at < Len(s.input) /\ IsMultiple(s.at) /\ Sound(s.popped)
        /\ Sound(Part(s.input, s.at, Len(s.input)))
        /\ Before(BytesOf(s.popped), BytesOf(Part(s.input, s.at, Len(s.input))))
    BY <1>1, <1>4, <1>5, <2>2, <2>3, <2>4
  <2>8. /\ x \in ConsumerStates /\ Reading(x) /\ x.open /\ x.orphans = s.orphans
        /\ x.aborted = s.aborted /\ x.abort = "live" /\ x.wild = s.wild
        /\ x.popped = s.popped \o Part(s.input, s.at, s.at + ElementSize)
        /\ Part(s.input, s.at, Len(s.input)) =
             Part(s.input, s.at, s.at + ElementSize) \o Rest(x)
        /\ s.at + ElementSize <= Len(s.input)
        /\ Taken(x) = BytesOf(s.popped) \cup BytesOf(Part(s.input, s.at, Len(s.input)))
    BY <1>4, <1>5, <2>7, HandOverIs
  <2> HIDE DEF x
  <2>9. Taken(x) = Taken(r)
    BY <1>1, <1>4, <2>2, <2>8 DEF Taken
  <2>10. QueueInv'
    <3>1. Unclosed(c, x)
      BY <1>1, <1>4, <1>5, <2>8, Others DEF Unclosed, r
    <3>2. QED BY <1>1, <1>4, <1>5, <2>5, <2>6, <2>8, <2>9, <3>1, Others, ConsumerKeeps DEF r
  <2> DEFINE a == Part(r.input, 0, 0 + ElementSize)
  <2>11. a \in Seq(Bytes)
    BY <1>1, <1>4, <2>1, <2>8, Size, Parts DEF Part
  <2>12. x.popped = r.popped \o a /\ Rest(r) = a \o Rest(x)
    BY <1>1, <1>4, <2>2, <2>8
  <2> HIDE DEF a
  <2>13. Rest(x) \in Seq(Bytes) /\ pipe \in Seq(Bytes)
    BY <2>8, RestIs, Pipe
  <2>14. Passes(c, r, x)
    BY <1>1, <1>3, <1>5, <2>8, <2>11, <2>12, <2>13, PassesOn
  <2>15. QED BY <1>1, <2>6, <2>8, <2>10, <2>14 DEF Passed, r
<1>8. QED BY <1>6, <1>7

\* What the handler becomes when a callback returns.
Returned(r) ==
  IF r.aborted THEN Aborted(r)
  ELSE IF r.at < Len(r.input) THEN HandOver(r)
  ELSE StartRead(Done(r))

LEMMA ReturnedIs ==
  ASSUME NEW r \in ConsumerStates, Reading(r), r.at > 0
  PROVE  LET x == Returned(r) IN
           /\ x \in ConsumerStates /\ Reading(x) /\ x.open = r.open
           /\ x.orphans = r.orphans /\ ~x.aborted /\ Taken(x) = Taken(r)
           /\ x.wild = r.wild /\ (x.abort = "dangling" => r.aborted)
           /\ \/ x.popped = r.popped /\ Rest(x) = Rest(r)
              \/ r.open /\ \E a \in Seq(Bytes) :
                              x.popped = r.popped \o a /\ Rest(r) = a \o Rest(x)
<1>1. /\ r.at \in Nat /\ r.input \in Seq(Bytes) /\ Len(r.input) \in Nat
      /\ r.aborted \in BOOLEAN /\ r.open \in BOOLEAN /\ r.read \in Int
  BY ConsumerFields
<1>2. IsMultiple(0)
  BY Multiples
<1>3. CASE r.aborted
  <2> DEFINE x == Aborted(r)
  <2>1. /\ x \in ConsumerStates /\ x.open = r.open /\ x.at = 0 /\ x.read = r.read
        /\ x.aborted = FALSE /\ x.orphans = r.orphans /\ x.input = r.input
        /\ x.abort = "dangling" /\ x.wild = r.wild /\ x.popped = r.popped
    BY DEF ConsumerStates, Aborted
  <2> HIDE DEF x
  <2>2. Rest(x) = Rest(r)
    BY <1>3, <2>1 DEF Rest
  <2>3. Reading(x)
    BY <1>2, <1>3, <2>1, <2>2 DEF Reading
  <2>4. Taken(x) = Taken(r)
    BY <2>1, <2>2 DEF Taken
  <2>5. Returned(r) = x
    BY <1>3 DEF Returned, x
  <2>6. QED BY <1>3, <2>1, <2>2, <2>3, <2>4, <2>5
<1>4. CASE ~r.aborted
  <2>1. /\ r.open /\ ~(r.read > 0) /\ r.at <= Len(r.input)
        /\ IsMultiple(r.at) /\ Sound(r.popped) /\ Sound(Rest(r))
        /\ Before(BytesOf(r.popped), BytesOf(Rest(r)))
        /\ Rest(r) = Part(r.input, r.at, Len(r.input))
    BY <1>4 DEF Reading, Rest, Part
  <2>2. CASE r.at < Len(r.input)
    <3> DEFINE x == HandOver(r)
    <3>1. Returned(r) = x
      BY <1>4, <2>2 DEF Returned
    <3>2. /\ Sound(Part(r.input, r.at, Len(r.input)))
          /\ Before(BytesOf(r.popped), BytesOf(Part(r.input, r.at, Len(r.input))))
      BY <2>1
    <3>3. /\ x \in ConsumerStates /\ Reading(x) /\ x.open /\ x.orphans = r.orphans
          /\ x.aborted = r.aborted /\ x.at > 0 /\ r.at + ElementSize <= Len(r.input)
          /\ x.abort = "live" /\ x.wild = r.wild
          /\ x.popped = r.popped \o Part(r.input, r.at, r.at + ElementSize)
          /\ Part(r.input, r.at, Len(r.input)) =
               Part(r.input, r.at, r.at + ElementSize) \o Rest(x)
          /\ Taken(x) = BytesOf(r.popped) \cup BytesOf(Part(r.input, r.at, Len(r.input)))
      BY <1>4, <2>1, <2>2, <3>2, HandOverIs
    <3> HIDE DEF x
    <3>4. Taken(x) = Taken(r)
      BY <2>1, <3>3 DEF Taken
    <3>5. x.open = r.open /\ ~x.aborted
      BY <1>1, <1>4, <2>1, <3>3, ConsumerFields
    <3> DEFINE a == Part(r.input, r.at, r.at + ElementSize)
    <3>6. a \in Seq(Bytes)
      <4> DEFINE j == r.at + ElementSize
      <4>1. j \in Nat /\ j <= Len(r.input) /\ r.at \in Nat
        BY <1>1, <3>3, Size
      <4> HIDE DEF j
      <4>2. Part(r.input, r.at, j) \in Seq(Bytes)
        BY <1>1, <4>1, SubSeqProperties DEF Part
      <4>3. QED BY <4>2 DEF j
    <3>7. x.popped = r.popped \o a /\ Rest(r) = a \o Rest(x)
      BY <2>1, <3>3
    <3> HIDE DEF a
    <3>8. QED BY <2>1, <3>1, <3>3, <3>4, <3>5, <3>6, <3>7
  <2>3. CASE ~(r.at < Len(r.input))
    <3> DEFINE s == Done(r)
               x == StartRead(s)
    <3>1. Returned(r) = x
      BY <1>4, <2>3 DEF Returned
    <3>2. /\ s \in ConsumerStates /\ s.open = r.open /\ s.at = 0 /\ s.read = r.read
          /\ s.aborted = r.aborted /\ s.orphans = r.orphans /\ s.input = r.input
          /\ s.abort = "null" /\ s.wild = r.wild /\ s.popped = r.popped
      BY <2>1 DEF ConsumerStates, Done
    <3> HIDE DEF s
    <3>3. ~(s.read > 0) /\ ((s.abort = "live") <=> (s.at > 0))
      <4>1. ~(s.read > 0)
        BY <2>1, <3>2
      <4>2. ~(s.abort = "live") /\ ~(s.at > 0)
        BY <3>2
      <4>3. QED BY <4>1, <4>2
    <3>4. /\ x \in ConsumerStates /\ Reading(x) /\ x.open /\ x.orphans = s.orphans
          /\ x.aborted = s.aborted /\ x.popped = s.popped /\ Rest(x) = <<>>
          /\ x.abort = s.abort /\ x.wild = s.wild
      BY <1>2, <1>4, <2>1, <3>2, <3>3, StartReadIs
    <3> HIDE DEF x
    <3>5. Rest(r) = <<>>
      <4>1. r.at = Len(r.input)
        BY <1>1, <2>1, <2>3
      <4>2. QED BY <1>1, <2>1, <4>1, WholePart
    <3>6. Taken(x) = Taken(r)
      BY <3>2, <3>4, <3>5 DEF Taken
    <3>7. x.open = r.open
      BY <1>1, <2>1, <3>4, ConsumerFields
    <3>8. QED BY <1>4, <3>1, <3>2, <3>4, <3>5, <3>6, <3>7
  <2>4. QED BY <2>2, <2>3
<1>5. QED BY <1>3, <1>4

LEMMA ReturnStep ==
  ASSUME QueueInv, NEW c \in Consumers, Return(c)
  PROVE  QueueInv' /\ Passed(c)
<1> DEFINE r == cons[c]
           x == Returned(r)
<1>1. /\ cons' = [cons EXCEPT ![c] = x] /\ prod' = prod /\ pipe' = pipe
      /\ failed' = failed /\ interrupts' = interrupts /\ reopened' = reopened /\ r.at > 0
  BY DEF Return, Returned
<1>2. r \in ConsumerStates /\ Reading(r)
  BY Consumer
<1>3. /\ x \in ConsumerStates /\ Reading(x) /\ x.open = r.open
      /\ x.orphans = r.orphans /\ ~x.aborted /\ Taken(x) = Taken(r)
      /\ x.wild = r.wild /\ (x.abort = "dangling" => r.aborted)
      /\ \/ x.popped = r.popped /\ Rest(x) = Rest(r)
         \/ r.open /\ \E a \in Seq(Bytes) :
                         x.popped = r.popped \o a /\ Rest(r) = a \o Rest(x)
  BY <1>1, <1>2, ReturnedIs
<1> HIDE DEF x
<1>4. QueueInv'
  <2>1. Unclosed(c, x)
    BY <1>1, <1>3, Others DEF Unclosed
  <2>2. QED BY <1>1, <1>3, <2>1, Others, ConsumerKeeps
<1>5. Rest(x) \in Seq(Bytes) /\ pipe \in Seq(Bytes)
  BY <1>3, RestIs, Pipe
<1> HIDE DEF r
<1>6. Passes(c, r, x)
  BY <1>1, <1>2, <1>3, <1>5, PassesKept, PassesOn
<1>7. QED BY <1>1, <1>3, <1>4, <1>6 DEF Passed, r

LEMMA ConsumerCloseStep ==
  ASSUME QueueInv, NEW c \in Consumers, ConsumerClose(c)
  PROVE  QueueInv' /\ Passed(c)
<1> DEFINE r == cons[c]
           n == IF r.read = Waits THEN r.orphans + 1 ELSE r.orphans
           a == r.aborted \/ r.abort = "live"
           w == r.wild \/ r.abort = "dangling"
           x == [r EXCEPT !.open = FALSE, !.read = None,
                          !.aborted = (r.aborted \/ r.abort = "live"),
                          !.wild = (r.wild \/ r.abort = "dangling"),
                          !.orphans = IF r.read = Waits THEN @ + 1 ELSE @]
           y == [r EXCEPT !.open = FALSE, !.read = None, !.aborted = a, !.wild = w,
                          !.orphans = n]
<1>1. /\ cons' = [cons EXCEPT ![c] = x] /\ prod' = prod /\ pipe' = pipe
      /\ failed' = failed /\ interrupts' = interrupts /\ reopened' = reopened /\ r.open
  BY DEF ConsumerClose
<1>2. /\ r \in ConsumerStates /\ Reading(r) /\ r.at \in Nat /\ r.orphans \in Nat
      /\ r.popped \in Seq(Bytes)
  BY Consumer, ConsumerFields
<1>3. n \in Nat /\ a \in BOOLEAN /\ w \in BOOLEAN /\ x = y
  BY <1>2
<1>14. (a <=> r.at > 0) /\ (w => c \in reopened')
  BY <1>1, <1>2, Others DEF Reading
<1> HIDE DEF n, r, a, w, x
<1>4. /\ x \in ConsumerStates /\ x.open = FALSE /\ x.at = r.at /\ x.read = None
      /\ x.aborted = a /\ x.input = r.input /\ x.popped = r.popped
      /\ x.abort = r.abort /\ x.wild = w
  BY <1>2, <1>3 DEF ConsumerStates
<1> HIDE DEF y
<1>5. /\ ~(x.read > 0) /\ ~(x.at > 0 /\ ~x.aborted)
      /\ x.aborted => x.at > 0
  <2>1. ~(x.read > 0)
    BY <1>4 DEF None
  <2>2. CASE a
    BY <1>4, <1>14, <2>1, <2>2
  <2>3. CASE ~a
    BY <1>4, <1>14, <2>1, <2>3
  <2>4. QED BY <2>2, <2>3
<1>6. Rest(x) = <<>>
  BY <1>4, <1>5 DEF Rest
<1>7. Before(BytesOf(x.popped), BytesOf(Rest(x))) /\ Sound(Rest(x))
  BY <1>6, SoundEmpty DEF Before
<1>8. Reading(x)
  BY <1>2, <1>4, <1>5, <1>7 DEF Reading
<1>9. Taken(x) \subseteq Taken(r)
  BY <1>4, <1>6, SoundEmpty DEF Taken
<1>10. ~x.open /\ Unclosed(c, x)
  BY <1>4, <1>14 DEF Unclosed
<1>11. QueueInv'
  BY <1>1, <1>4, <1>8, <1>9, <1>10, Others, ConsumerKeeps DEF r
<1>12. Passes(c, r, x)
  BY <1>4, <1>10, <1>14 DEF Passes
<1>13. QED BY <1>1, <1>4, <1>11, <1>12 DEF Passed, r

LEMMA ConsumerOpenStep ==
  ASSUME QueueInv, NEW c \in Consumers, ConsumerOpen(c)
  PROVE  QueueInv' /\ Passed(c)
<1> DEFINE r == cons[c]
           x == [r EXCEPT !.open = TRUE]
<1>1. /\ cons' = [cons EXCEPT ![c] = x] /\ prod' = prod /\ pipe' = pipe
      /\ failed' = failed /\ interrupts' = interrupts /\ reopened' = reopened \cup {c}
      /\ ~r.open
  BY DEF ConsumerOpen
<1>2. r \in ConsumerStates /\ Reading(r)
  BY Consumer
<1> HIDE DEF r
<1>3. /\ x \in ConsumerStates /\ x.open = TRUE /\ x.at = r.at /\ x.read = r.read
      /\ x.aborted = r.aborted /\ x.input = r.input /\ x.popped = r.popped
      /\ x.abort = r.abort
  BY <1>2 DEF ConsumerStates
<1> HIDE DEF x
<1>4. Rest(x) = Rest(r)
  BY <1>3 DEF Rest
<1>5. Reading(x)
  BY <1>1, <1>2, <1>3, <1>4 DEF Reading
<1>6. Taken(x) = Taken(r)
  BY <1>3, <1>4 DEF Taken
<1>7. c \in reopened' /\ reopened' # {} /\ reopened \subseteq reopened'
      /\ reopened' \subseteq Producers \cup Consumers
  BY <1>1, Others
<1>8. QueueInv'
  <2>1. Unclosed(c, x)
    BY <1>7 DEF Unclosed
  <2>2. QED BY <1>1, <1>3, <1>5, <1>6, <1>7, <2>1, Others, ConsumerKeeps DEF r
<1>9. Passes(c, r, x)
  BY <1>1, <1>3, <1>7 DEF Passes
<1>10. QED BY <1>1, <1>3, <1>8, <1>9 DEF Passed, r

\* The bytes that a read takes out of the pipe.
LEMMA ReadSizeIs ==
  ASSUME QueueInv
  PROVE  /\ ReadSize \in Nat /\ ReadSize <= Len(pipe) /\ IsMultiple(ReadSize)
         /\ pipe # <<>> => ReadSize > 0
<1>1. /\ Len(pipe) \in Nat /\ IsMultiple(Len(pipe)) /\ pipe \in Seq(Bytes)
  BY Pipe
<1>2. Batch \in Nat \ {0} /\ ElementSize \in Nat \ {0}
  BY Size
<1> DEFINE m == Batch * ElementSize
<1>3. m \in Nat \ {0}
  BY <1>2
<1>4. IsMultiple(m)
  BY <1>2, Multiples
<1> HIDE DEF m
<1>5. ReadSize = Lesser(Len(pipe), m)
  BY DEF ReadSize, m
<1>6. /\ ReadSize \in Nat /\ ReadSize <= Len(pipe)
      /\ (ReadSize = Len(pipe) \/ ReadSize = m)
  BY <1>1, <1>3, <1>5, LesserIs
<1>7. pipe # <<>> => Len(pipe) > 0
  BY <1>1
<1>8. QED BY <1>1, <1>3, <1>4, <1>6, <1>7

LEMMA KernelReadStep ==
  ASSUME QueueInv, NEW c \in Consumers, KernelRead(c)
  PROVE  QueueInv' /\ Passed(c)
<1> DEFINE r == cons[c]
           m == ReadSize
           a == SubSeq(pipe, 1, m)
           x == [r EXCEPT !.read = m, !.input = a]
<1>1. /\ cons' = [cons EXCEPT ![c] = x] /\ prod' = prod /\ failed' = failed
      /\ interrupts' = interrupts /\ reopened' = reopened
      /\ pipe' = SubSeq(pipe, m + 1, Len(pipe))
      /\ r.read = Waits /\ (r.at = 0 \/ r.aborted) /\ pipe # <<>>
  BY DEF KernelRead, AfterRead, Taking
<1>2. r \in ConsumerStates /\ Reading(r)
  BY Consumer
<1>3. m \in Nat /\ m <= Len(pipe) /\ IsMultiple(m) /\ m > 0
  BY <1>1, ReadSizeIs
<1>4. /\ a \in Seq(Bytes) /\ BytesOf(a) \subseteq BytesOf(pipe) /\ Sound(a) /\ Len(a) = m
  <2>1. pipe \in Seq(Bytes) /\ Sound(pipe)
    BY Pipe
  <2>2. /\ a \in Seq(Bytes) /\ BytesOf(pipe) = BytesOf(a) \cup
             BytesOf(SubSeq(pipe, m + 1, Len(pipe)))
        /\ Sound(a) /\ Len(a) = m
    BY <1>3, <2>1, SoundParts
  <2>3. QED BY <2>2
<1>5. Before(Taken(r), BytesOf(a)) /\ BytesOf(r.popped) \subseteq Taken(r)
  <2>1. Before(Taken(r), BytesOf(pipe))
    BY InvParts DEF FlowKept
  <2>2. QED BY <1>2, <1>4, <2>1, RestIs DEF Before
<1>6. r.open /\ ~(r.at > 0 /\ ~r.aborted) /\ ~(r.read > 0)
  BY <1>1, <1>2, ConsumerFields DEF Reading, None, Waits
<1> HIDE DEF r, m, a
<1>7. /\ x \in ConsumerStates /\ x.open = r.open /\ x.at = r.at /\ x.read = m
      /\ x.aborted = r.aborted /\ x.abort = r.abort /\ x.wild = r.wild
      /\ x.orphans = r.orphans /\ x.input = a
      /\ x.popped = r.popped
  BY <1>2, <1>3, <1>4 DEF ConsumerStates
<1> HIDE DEF x
<1>8. Rest(x) = a /\ Rest(r) = <<>>
  BY <1>3, <1>6, <1>7 DEF Rest
<1>9. Before(BytesOf(x.popped), BytesOf(Rest(x))) /\ Sound(Rest(x))
  BY <1>4, <1>5, <1>7, <1>8 DEF Before
<1>10. Reading(x)
  BY <1>2, <1>4, <1>6, <1>7, <1>9 DEF Reading
<1>11. Taken(x) = Taken(r) \cup BytesOf(a)
  BY <1>7, <1>8, SoundEmpty DEF Taken
<1>12. Takes(r, x, a) /\ TakesAll(r, x, a)
  BY <1>6, <1>11 DEF Takes, TakesAll
<1>13. QueueInv'
  <2>1. Unclosed(c, x)
    BY <1>1, <1>7, Others DEF Unclosed, r
  <2>2. QED BY <1>1, <1>3, <1>7, <1>10, <1>12, <2>1, Others, ConsumerStep DEF r, m, a
<1>14. Passes(c, r, x)
  <2>1. pipe = a \o pipe' /\ pipe' \in Seq(Bytes)
    BY <1>1, <1>3, Pipe, SoundParts DEF a
  <2>2. QED BY <1>2, <1>4, <1>6, <1>7, <1>8, <2>1, PassesOut
<1>15. QED BY <1>1, <1>7, <1>13, <1>14 DEF Passed, r

LEMMA KernelOrphanReadStep ==
  ASSUME QueueInv, NEW c \in Consumers, KernelOrphanRead(c)
  PROVE  QueueInv' /\ Passed(c)
<1> DEFINE r == cons[c]
           x == [r EXCEPT !.orphans = r.orphans - 1]
<1>1. /\ cons' = [cons EXCEPT ![c] = x] /\ prod' = prod /\ failed' = failed
      /\ interrupts' = interrupts /\ reopened' = reopened /\ r.orphans > 0
      /\ pipe' = pipe \/ pipe' = SubSeq(pipe, ReadSize + 1, Len(pipe))
  BY DEF KernelOrphanRead, AfterRead
<1>2. r \in ConsumerStates /\ Reading(r) /\ r.orphans \in Nat /\ r.open \in BOOLEAN
  BY Consumer, ConsumerFields
<1>3. r.orphans - 1 \in Nat
  BY <1>1, <1>2
<1>4. ~(r.open /\ c \notin reopened)
  BY <1>1, Others
<1> HIDE DEF r
<1>5. /\ x \in ConsumerStates /\ x.open = r.open /\ x.at = r.at /\ x.read = r.read
      /\ x.aborted = r.aborted /\ x.input = r.input /\ x.popped = r.popped
      /\ x.abort = r.abort /\ x.wild = r.wild
  BY <1>2, <1>3 DEF ConsumerStates
<1> HIDE DEF x
<1>6. Rest(x) = Rest(r)
  BY <1>5 DEF Rest
<1>7. Reading(x) /\ Taken(x) = Taken(r)
  BY <1>2, <1>5, <1>6 DEF Reading, Taken
<1>8. ~(x.open /\ c \notin reopened') /\ ~(x.open /\ reopened' = {}) /\ Unclosed(c, x)
  BY <1>1, <1>4, <1>5, Others DEF Unclosed, r
<1>9. ASSUME pipe' = pipe
      PROVE  QueueInv'
  BY <1>1, <1>5, <1>7, <1>8, <1>9, Others, ConsumerKeeps DEF r
<1>10. ASSUME pipe' = SubSeq(pipe, ReadSize + 1, Len(pipe))
       PROVE  QueueInv'
  <2>1. ReadSize \in Nat /\ ReadSize <= Len(pipe) /\ IsMultiple(ReadSize)
    BY ReadSizeIs
  <2>2. Takes(r, x, SubSeq(pipe, 1, ReadSize))
    BY <1>7 DEF Takes
  <2>3. QED BY <1>1, <1>5, <1>7, <1>8, <1>10, <2>1, <2>2, Others, ConsumerStep DEF r
<1>11. Passes(c, r, x)
  BY <1>2, <1>5, <1>8 DEF Passes
<1>12. QED BY <1>1, <1>5, <1>9, <1>10, <1>11 DEF Passed, r

\* A read ends with EINTR.
LEMMA InterruptedReadStep ==
  ASSUME QueueInv, NEW c \in Consumers, Taking(cons[c]),
         cons' = [cons EXCEPT ![c].read = Interrupted], prod' = prod, pipe' = pipe,
         failed' = failed, reopened' = reopened, interrupts' \in 0 .. MaxInterrupts
  PROVE  QueueInv' /\ Passed(c)
<1> DEFINE r == cons[c]
           x == [r EXCEPT !.read = Interrupted]
<1>1. cons' = [cons EXCEPT ![c] = x] /\ r.read = Waits /\ (r.at = 0 \/ r.aborted)
  BY DEF Taking
<1>2. r \in ConsumerStates /\ Reading(r)
  BY Consumer
<1>3. r.open /\ ~(r.at > 0 /\ ~r.aborted) /\ ~(r.read > 0)
  BY <1>1, <1>2, ConsumerFields DEF Reading, None, Waits
<1> HIDE DEF r
<1>4. /\ x \in ConsumerStates /\ x.open = r.open /\ x.at = r.at /\ x.read = Interrupted
      /\ x.aborted = r.aborted /\ x.orphans = r.orphans /\ x.input = r.input
      /\ x.abort = r.abort /\ x.wild = r.wild /\ x.popped = r.popped
  BY <1>2 DEF ConsumerStates
<1> HIDE DEF x
<1>5. ~(x.read > 0)
  BY <1>4 DEF Interrupted
<1>6. Rest(x) = Rest(r)
  BY <1>3, <1>4, <1>5 DEF Rest
<1>7. Reading(x) /\ Taken(x) = Taken(r)
  BY <1>2, <1>3, <1>4, <1>5, <1>6 DEF Reading, Taken
<1>8. QueueInv'
  <2>1. Unclosed(c, x)
    BY <1>4, Others DEF Unclosed, r
  <2>2. QED BY <1>1, <1>3, <1>4, <1>7, <2>1, Others, ConsumerKeeps DEF r
<1>9. Passes(c, r, x)
  BY <1>2, <1>3, <1>4, <1>6, PassesKept
<1>10. QED BY <1>1, <1>4, <1>8, <1>9 DEF Passed, r

-----------------------------------------------------------------------------
(* The steps of the producers. *)

\* What the invariant says of a write.
LEMMA WritingIs ==
  ASSUME NEW p \in Producers, NEW r \in ProducerStates, Filled(p, r), Writing(r)
  PROVE  /\ IsMultiple(Sent(r)) /\ Sent(r) <= Base(r) + Len(r.output)
         /\ r.write = None => r.output = <<>> /\ Len(r.output) = 0 /\ Sent(r) = Base(r)
         /\ r.write # None =>
              /\ r.open /\ r.offset < Len(r.output) /\ r.output # <<>>
              /\ r.chunk = Chunk(r) /\ Len(r.chunk) \in Nat \ {0}
              /\ r.chunk = Run(p, Base(r) + r.offset, Len(r.chunk))
              /\ r.offset + Len(r.chunk) <= Len(r.output)
              /\ Len(r.chunk) <= WriteMax * ElementSize
              /\ IsMultiple(Len(r.chunk)) /\ Sound(r.chunk)
         /\ r.write \in {Waits, Interrupted} => Sent(r) = Base(r) + r.offset
         /\ r.write # None /\ r.write \notin {Waits, Interrupted} =>
              /\ r.write \in 1 .. Len(r.chunk) /\ IsMultiple(r.write)
              /\ Sent(r) = Base(r) + r.offset + r.write
<1>1. /\ Base(r) \in Nat /\ IsMultiple(Base(r)) /\ IsMultiple(r.offset) /\ r.offset \in Nat
      /\ Len(r.output) \in Nat /\ r.output \in Seq(Bytes)
  BY BaseIs, ProducerFields
<1> DEFINE b == Base(r)
           o == r.offset
<1>0. ASSUME NEW k \in Nat, IsMultiple(k)
      PROVE  IsMultiple(b + k)
  <2> HIDE DEF b
  <2>1. b \in Nat /\ IsMultiple(b)
    BY <1>1 DEF b
  <2>2. QED BY <1>0, <2>1, Multiples
<1>2. CASE r.write = None
  <2>1. r.output = <<>> /\ Sent(r) = Base(r)
    BY <1>2 DEF Writing, Sent
  <2>2. Len(r.output) = 0
    BY <2>1
  <2>3. r.write \notin {Waits, Interrupted}
    BY <1>2 DEF None, Waits, Interrupted
  <2>4. QED BY <1>1, <1>2, <2>1, <2>2, <2>3
<1>3. CASE r.write # None
  <2>1. /\ r.open /\ r.offset < Len(r.output) /\ r.chunk = Chunk(r)
        /\ r.write \in {Waits, Interrupted} \cup 1 .. Len(r.chunk)
        /\ r.write \in Nat => IsMultiple(r.write)
    BY <1>3 DEF Writing
  <2>2. r.output # <<>>
    BY <1>1, <2>1
  <2>3. /\ Len(r.chunk) \in Nat \ {0} /\ IsMultiple(Len(r.chunk))
        /\ Len(r.chunk) <= WriteMax * ElementSize
        /\ r.offset + Len(r.chunk) <= Len(r.output)
        /\ r.chunk = Run(p, Base(r) + r.offset, Len(r.chunk))
        /\ Sound(r.chunk)
    BY <2>1, ChunkIs
  <2>4. CASE r.write \in {Waits, Interrupted}
    <3>1. Sent(r) = Base(r) + r.offset
      BY <1>3, <2>4 DEF Sent, Written, Waits, Interrupted
    <3>2. IsMultiple(Sent(r))
      BY <1>1, <1>0, <3>1
    <3>3. Sent(r) <= Base(r) + Len(r.output)
      BY <1>1, <2>1, <3>1
    <3>4. QED BY <1>3, <2>1, <2>2, <2>3, <2>4, <3>1, <3>2, <3>3
  <2>5. CASE r.write \notin {Waits, Interrupted}
    <3>1. r.write \in 1 .. Len(r.chunk)
      BY <2>1, <2>5
    <3>2. r.write \in Nat /\ r.write <= Len(r.chunk)
      BY <2>3, <3>1
    <3>3. IsMultiple(r.write)
      BY <2>1, <3>2
    <3>4. Sent(r) = Base(r) + (r.offset + r.write)
      BY <1>3, <3>2 DEF Sent, Written
    <3>5. r.offset + r.write \in Nat /\ IsMultiple(r.offset + r.write)
      <4> DEFINE w == r.write
      <4>1. o \in Nat /\ IsMultiple(o) /\ w \in Nat /\ IsMultiple(w)
        BY <1>1, <3>2, <3>3
      <4> HIDE DEF o, w
      <4>2. o + w \in Nat /\ IsMultiple(o + w)
        BY <4>1, Multiples
      <4>3. QED BY <4>2 DEF o, w
    <3>6. IsMultiple(Sent(r))
      BY <1>0, <3>4, <3>5
    <3>7. Sent(r) = Base(r) + r.offset + r.write
      BY <1>1, <3>2, <3>4
    <3>8. Sent(r) <= Base(r) + Len(r.output)
      BY <1>1, <2>3, <3>2, <3>7
    <3>9. QED BY <1>3, <2>1, <2>2, <2>3, <2>5, <3>1, <3>3, <3>6, <3>7, <3>8
  <2>6. QED BY <2>4, <2>5
<1>4. QED BY <1>2, <1>3

\* A producer of which nothing goes into the pipe.
LEMMA ProducerKeeps ==
  ASSUME QueueInv, NEW p \in Producers, NEW x \in ProducerStates,
         prod' = [prod EXCEPT ![p] = x], cons' = cons, pipe' = pipe,
         failed' = FALSE, interrupts' \in 0 .. MaxInterrupts,
         reopened \subseteq reopened', reopened' \subseteq Producers \cup Consumers,
         Filled(p, x), Writing(x), Orphaned(p, x), Sent(prod[p]) <= Sent(x),
         x.open /\ p \notin reopened' =>
           x.orphans = <<>> /\ (x.write = None => x.offset = 0),
         OrphansFrom(prod[p], x),
         x.open /\ reopened' = {} =>
           reopened = {} /\ prod[p].open /\ Sent(x) = Sent(prod[p])
  PROVE  QueueInv'
<1>1. pipe \in Seq(Bytes) /\ Len(pipe) \in Nat /\ Len(pipe) <= PipeSize
  BY Pipe
<1>2. pipe' = pipe \o <<>> /\ Len(pipe) + Len(<<>>) <= PipeSize /\ <<>> \in Seq(Bytes)
  BY <1>1
<1>3. Sound(<<>>) /\ Before(Flowing, BytesOf(<<>>)) /\ Follows(<<>>, p, x)
  BY SoundEmpty DEF Before, Follows
<1>4. ASSUME x.open, reopened' = {}
      PROVE  reopened = {} /\ Covers(p, prod[p], x, <<>>)
  <2>1. reopened = {} /\ prod[p].open /\ Sent(x) = Sent(prod[p]) /\ Sent(prod[p]) \in Nat
    BY <1>4, Producer
  <2>2. Sent(prod[p]) + 1 .. Sent(x) = {}
    BY <2>1
  <2>3. QED BY <2>1, <2>2 DEF Covers
<1>5. QED BY <1>2, <1>3, <1>4, ProducerStep

\* What a step of a producer puts at the end of the line: its next bytes, and after a
\* close some of those of a write that was in flight.
Sends(p, r, x) ==
  \/ /\ r.open /\ x.open /\ x.orphans = r.orphans
     /\ \E n \in Nat : Sent(x) = Sent(r) + n /\ pipe' = pipe \o Run(p, Sent(r), n)
  \/ /\ r.open /\ ~x.open /\ pipe' = pipe
     /\ \/ x.orphans = r.orphans
        \/ x.orphans = Append(r.orphans, Run(p, Sent(r), Len(r.chunk)))
  \/ /\ ~r.open /\ ~x.open /\ r.orphans # <<>> /\ x.orphans = Tail(r.orphans)
     /\ \E n \in 0 .. Len(Head(r.orphans)) :
          pipe' = pipe \o SubSeq(Head(r.orphans), 1, n)
  \/ p \in reopened'

Sending(p) ==
  /\ cons' = cons
  /\ \E x \in ProducerStates :
       /\ prod' = [prod EXCEPT ![p] = x] /\ Sends(p, prod[p], x)
       /\ x.pushed \in {prod[p].pushed, prod[p].pushed + 1}

LEMMA SendsNothing ==
  ASSUME NEW p \in Producers, NEW r \in ProducerStates, NEW x \in ProducerStates,
         r.open, x.open, x.orphans = r.orphans, Sent(r) \in Nat, Sent(x) = Sent(r),
         pipe' = pipe, pipe \in Seq(Bytes)
  PROVE  Sends(p, r, x)
<1>1. Run(p, Sent(r), 0) = <<>> /\ Sent(x) = Sent(r) + 0
  BY RunEmpty
<1>2. pipe \o <<>> = pipe
  BY ONLY pipe \in Seq(Bytes), EmptyLines
<1>3. pipe' = pipe \o Run(p, Sent(r), 0)
  BY <1>1, <1>2, Zenon
<1>4. QED BY <1>1, <1>3 DEF Sends

\* What r has cancelled is kept by x, which has sent no less.
LEMMA OrphansKept ==
  ASSUME NEW p, NEW r \in ProducerStates, NEW x \in ProducerStates, Orphaned(p, r),
         x.orphans = r.orphans, Sent(r) \in Nat, Sent(x) \in Nat, Sent(r) <= Sent(x)
  PROVE  Orphaned(p, x) /\ OrphansFrom(r, x)
<1>1. ASSUME NEW k \in DOMAIN r.orphans, NEW y \in BytesOf(r.orphans[k])
      PROVE  y[2] <= Sent(x)
  <2>1. r.orphans[k] \in Seq(Bytes)
    BY ProducerFields, Members
  <2>2. y[2] \in Nat
    BY <2>1, Members, BytesTyped
  <2>3. y[2] <= Sent(r)
    BY DEF Orphaned
  <2>4. QED BY <2>2, <2>3
<1>2. Orphaned(p, x)
  BY <1>1 DEF Orphaned
<1>3. QED BY <1>2 DEF OrphansFrom

\* An element is queued.
LEMMA PushedIs ==
  ASSUME NEW p \in Producers, NEW r \in ProducerStates, Filled(p, r)
  PROVE  LET x == [r EXCEPT !.queued = @ \o Element(p, r.pushed + 1), !.pushed = @ + 1]
         IN  /\ x \in ProducerStates /\ Filled(p, x) /\ Base(x) = Base(r)
             /\ x.open = r.open /\ x.output = r.output /\ x.offset = r.offset
             /\ x.write = r.write /\ x.chunk = r.chunk /\ x.orphans = r.orphans
             /\ x.pushed = r.pushed + 1
<1> DEFINE e == Element(p, r.pushed + 1)
           q == r.queued \o e
           b == Base(r)
           m == Len(r.output)
           l == Len(r.queued)
           d == ElementSize
           k == r.pushed * d
           x == [r EXCEPT !.queued = @ \o e, !.pushed = @ + 1]
<1>1. /\ r.pushed \in Nat /\ d \in Nat /\ r.queued \in Seq(Bytes) /\ m \in Nat /\ l \in Nat
      /\ k \in Nat
  BY ProducerFields, Size
<1>2. /\ b \in Nat /\ b + m + l = k /\ IsMultiple(m) /\ IsMultiple(l) /\ IsMultiple(r.offset)
  BY BaseIs
<1>3. e = Run(p, k, d)
  <2>1. (r.pushed + 1) - 1 = r.pushed
    BY <1>1
  <2>2. QED BY <2>1 DEF Element
<1>4. (r.pushed + 1) * d = k + d
  BY <1>1
<1> HIDE DEF e
<1>5. e \in Seq(Bytes) /\ Len(e) = d
  <2> HIDE DEF k, d
  <2>1. QED BY <1>1, <1>3, RunIs, RunTyped
<1>6. q \in Seq(Bytes) /\ Len(q) = l + d
  <2> DEFINE s == r.queued
  <2>1. s \in Seq(Bytes) /\ Len(s) = l
    BY <1>1
  <2> HIDE DEF s, l, d
  <2>2. s \o e \in Seq(Bytes) /\ Len(s \o e) = l + d
    BY <1>5, <2>1, Joined
  <2>3. QED BY <2>2 DEF s
<1>7. q = Run(p, b + m, l + d)
  <2>1. r.queued = Run(p, b + m, l)
    BY DEF Filled
  <2> HIDE DEF b, m, l, k, d
  <2>2. b + m \in Nat /\ b + m + l = k
    BY <1>1, <1>2
  <2>3. e = Run(p, b + m + l, d)
    BY <1>3, <2>2
  <2>4. Run(p, b + m, l) \o Run(p, b + m + l, d) = Run(p, b + m, l + d)
    <3> DEFINE c == b + m
    <3> HIDE DEF c
    <3>1. c \in Nat /\ l \in Nat /\ d \in Nat
      BY <1>1, <2>2 DEF c
    <3>2. Run(p, c, l) \o Run(p, c + l, d) = Run(p, c, l + d)
      BY ONLY <3>1, p \in Producers, RunJoins
    <3>3. QED BY <3>2 DEF c
  <2>5. q = Run(p, b + m, l) \o Run(p, b + m + l, d)
    BY <2>1, <2>3, Zenon
  <2>6. QED BY <2>4, <2>5, Zenon
<1>8. IsMultiple(l + d)
  BY <1>1, <1>2, Multiples
<1>9. r.output = Run(p, b, m) /\ b >= 0
  BY DEF Filled
<1>10. x = [r EXCEPT !.queued = q, !.pushed = r.pushed + 1]
  OBVIOUS
<1> HIDE DEF q, x
<1>11. /\ x \in ProducerStates /\ x.open = r.open /\ x.output = r.output
       /\ x.offset = r.offset /\ x.write = r.write /\ x.chunk = r.chunk
       /\ x.orphans = r.orphans /\ x.queued = q /\ x.pushed = r.pushed + 1
  <2>1. q \in Seq(Bytes) /\ r.pushed + 1 \in Nat
    BY <1>1, <1>6
  <2>2. QED BY ONLY <1>10, <2>1, r \in ProducerStates DEF ProducerStates
<1>12. Base(x) = b
  <2>1. Base(x) = (r.pushed + 1) * d - Len(q) - m
    BY <1>11 DEF Base
  <2> HIDE DEF b, k, l, m, d
  <2>2. Base(x) = (k + d) - (l + d) - m
    BY <1>4, <1>6, <2>1
  <2>3. QED BY <1>1, <1>2, <2>2
<1>13. Filled(p, x)
  BY <1>2, <1>6, <1>7, <1>8, <1>9, <1>11, <1>12 DEF Filled
<1>14. QED BY <1>11, <1>12, <1>13 DEF x, e

LEMMA PushStep ==
  ASSUME QueueInv, NEW p \in Producers, Push(p)
  PROVE  QueueInv' /\ Sending(p)
<1> DEFINE r == prod[p]
           s == [r EXCEPT !.queued = @ \o Element(p, r.pushed + 1), !.pushed = @ + 1]
           x == Update(s)
<1>1. /\ prod' = [prod EXCEPT ![p] = x] /\ cons' = cons /\ pipe' = pipe /\ failed' = failed
      /\ interrupts' = interrupts /\ reopened' = reopened /\ r.open
  BY DEF Push
<1>2. /\ r \in ProducerStates /\ Filled(p, r) /\ Writing(r) /\ Orphaned(p, r)
      /\ Sent(r) \in Nat
  BY Producer
<1>3. r.open /\ p \notin reopened => r.orphans = <<>> /\ (r.write = None => r.offset = 0)
  BY Others
<1> HIDE DEF r
<1>4. /\ s \in ProducerStates /\ Filled(p, s) /\ Base(s) = Base(r)
      /\ s.open = r.open /\ s.output = r.output /\ s.offset = r.offset
      /\ s.write = r.write /\ s.chunk = r.chunk /\ s.orphans = r.orphans
      /\ s.pushed = r.pushed + 1
  BY <1>2, PushedIs
<1> HIDE DEF s
<1>5. /\ x \in ProducerStates /\ Filled(p, x) /\ Writing(x) /\ x.orphans = r.orphans
      /\ Sent(x) = Sent(r) /\ x.open /\ x.pushed = r.pushed + 1
      /\ x.write = None => r.write = None /\ (r.offset = 0 => x.offset = 0)
  <2>1. CASE r.write # None
    <3>1. x = s
      BY <1>4, <2>1 DEF Update
    <3>2. Chunk(s) = Chunk(r) /\ Written(s) = Written(r)
      BY <1>4 DEF Chunk, Written
    <3>3. Writing(s)
      BY <1>2, <1>4, <2>1, <3>2 DEF Writing
    <3>4. Sent(s) = Sent(r)
      BY <1>4, <2>1, <3>2 DEF Sent
    <3>5. QED BY <1>1, <1>4, <2>1, <3>1, <3>3, <3>4
  <2>2. CASE r.write = None
    <3>1. r.output = <<>> /\ Sent(r) = Base(r) /\ Base(r) \in Nat
      BY <1>2, <2>2, WritingIs, BaseIs
    <3>2. /\ x \in ProducerStates /\ Filled(p, x) /\ Writing(x)
          /\ x.orphans = s.orphans /\ x.open /\ x.pushed = s.pushed
          /\ x.write = None /\ (s.output = <<>> => s.offset = 0) => x.offset = 0
          /\ Sent(x) = Base(s) + (IF s.output = <<>> THEN 0 ELSE s.offset)
      BY <1>1, <1>4, <2>2, <3>1, UpdateIs
    <3>3. Sent(x) = Sent(r)
      BY <1>4, <3>1, <3>2
    <3>4. QED BY <1>4, <2>2, <3>2, <3>3
  <2>3. QED BY <2>1, <2>2
<1> HIDE DEF x
<1>6. Sent(r) <= Sent(x) /\ Sent(x) \in Nat
  BY <1>2, <1>5
<1>7. Orphaned(p, x) /\ OrphansFrom(r, x)
  BY <1>2, <1>5, <1>6, OrphansKept
<1>8. x.open /\ p \notin reopened => x.orphans = <<>> /\ (x.write = None => x.offset = 0)
  BY <1>1, <1>3, <1>5
<1>9. QueueInv'
  BY <1>1, <1>5, <1>6, <1>7, <1>8, Others, ProducerKeeps DEF r
<1>10. Sends(p, r, x)
  BY <1>1, <1>2, <1>5, Pipe, SendsNothing
<1>11. QED BY <1>1, <1>5, <1>9, <1>10 DEF Sending, r

\* A run of bytes that goes into the pipe after those that are there.
LEMMA RunLeaves ==
  ASSUME QueueInv, NEW p \in Producers, NEW x \in ProducerStates, NEW n \in Nat,
         IsMultiple(n), x.orphans = <<>>, Sent(x) = Sent(prod[p]) + n
  PROVE  LET t == Run(p, Sent(prod[p]), n) IN
           /\ t \in Seq(Bytes) /\ Len(t) = n /\ Sound(t)
           /\ Before(Flowing, BytesOf(t)) /\ Follows(t, p, x)
           /\ prod[p].open => Covers(p, prod[p], x, t)
<1> DEFINE a == Sent(prod[p])
           t == Run(p, a, n)
<1>1. a \in Nat /\ IsMultiple(a)
  BY Producer, WritingIs
<1>2. \A y \in Flowing : y[1] \in Producers /\ y[2] \in Nat /\ y[2] <= Sent(prod[y[1]])
  BY InvParts, Pipe DEF FlowKept
<1>3. Sent(x) = a + n
  OBVIOUS
<1>4. \A y \in Flowing : y[2] \in Nat /\ (y[1] = p => y[2] <= a)
  BY <1>2
<1>5. prod[p].open => Covers(p, prod[p], x, t)
                        \/ ~(\A k \in a + 1 .. a + n : <<p, k>> \in BytesOf(t))
  BY <1>3 DEF Covers
<1> HIDE DEF a
<1>6. t \in Seq(Bytes) /\ Len(t) = n /\ Sound(t)
  BY <1>1, RunIs, RunTyped, RunSound
<1>7. BytesOf(t) = {<<p, k>> : k \in a + 1 .. a + n}
  BY <1>1, RunBytes
<1> HIDE DEF t
<1>8. \A y \in BytesOf(t) : y[1] = p /\ y[2] \in Nat /\ a < y[2] /\ y[2] <= a + n
  BY <1>1, <1>7
<1>9. Before(Flowing, BytesOf(t))
  <2>1. ASSUME NEW y \in Flowing, NEW z \in BytesOf(t), y[1] = z[1]
        PROVE  y[2] < z[2]
    <3>1. y[1] = p /\ z[2] \in Nat /\ a < z[2]
      BY <1>8, <2>1
    <3>2. y[2] \in Nat /\ y[2] <= a
      BY <1>4, <3>1
    <3>3. QED BY <1>1, <3>1, <3>2
  <2>2. QED BY <2>1 DEF Before
<1>10. Follows(t, p, x)
  BY <1>3, <1>8 DEF Follows
<1>11. \A k \in a + 1 .. a + n : <<p, k>> \in BytesOf(t)
  BY <1>7
<1>12. QED BY <1>5, <1>6, <1>9, <1>10, <1>11 DEF t, a

LEMMA PushSyncStep ==
  ASSUME QueueInv, NEW p \in Producers, PushSync(p)
  PROVE  QueueInv' /\ Sending(p)
<1> DEFINE r == prod[p]
           x == [r EXCEPT !.pushed = r.pushed + 1]
           k == r.pushed * ElementSize
           d == ElementSize
           t == Run(p, Sent(r), d)
<1>1. /\ prod' = [prod EXCEPT ![p] = x] /\ cons' = cons /\ failed' = failed
      /\ interrupts' = interrupts /\ reopened' = reopened
      /\ pipe' = pipe \o Element(p, r.pushed + 1)
      /\ r.open /\ r.output = <<>> /\ r.queued = <<>> /\ r.orphans = <<>>
      /\ Len(pipe) + d <= PipeSize
  BY DEF PushSync
<1>2. /\ r \in ProducerStates /\ Filled(p, r) /\ Writing(r) /\ Sent(r) \in Nat
      /\ r.pushed \in Nat /\ r.offset \in Nat /\ k \in Nat /\ d \in Nat
  BY Producer, ProducerFields, Size
<1>3. r.open /\ p \notin reopened => (r.write = None => r.offset = 0)
  BY Others
<1>4. Len(r.output) = 0 /\ Len(r.queued) = 0
  BY <1>1
<1>5. r.write = None
  BY <1>2, <1>4, WritingIs
<1>6. Base(r) = k /\ Sent(r) = k
  <2>1. Base(r) + 0 + 0 = k /\ Base(r) \in Nat
    BY <1>2, <1>4, BaseIs
  <2>2. Sent(r) = Base(r)
    BY <1>5 DEF Sent
  <2>3. QED BY <2>1, <2>2
<1>7. Element(p, r.pushed + 1) = t
  <2>1. (r.pushed + 1) - 1 = r.pushed
    BY <1>2
  <2>2. QED BY <1>6, <2>1 DEF Element
<1>8. (r.pushed + 1) * d = k + d
  BY <1>2
<1>9. IsMultiple(r.offset) /\ IsMultiple(d) /\ IsMultiple(0)
  BY <1>2, BaseIs, Multiples
<1> HIDE DEF r
<1>10. /\ x \in ProducerStates /\ x.open = r.open /\ x.output = r.output
       /\ x.offset = r.offset /\ x.write = r.write /\ x.chunk = r.chunk
       /\ x.orphans = r.orphans /\ x.queued = r.queued /\ x.pushed = r.pushed + 1
  <2>1. r.pushed + 1 \in Nat
    BY <1>2
  <2>2. QED BY ONLY <2>1, <1>2 DEF ProducerStates, x
<1> HIDE DEF x, k
<1>11. Base(x) = k + d /\ Sent(x) = k + d
  <2>1. Base(x) = (r.pushed + 1) * d - 0 - 0
    BY <1>4, <1>10 DEF Base
  <2> HIDE DEF d
  <2>2. Base(x) = k + d
    BY <1>2, <1>8, <2>1
  <2>3. Sent(x) = Base(x)
    BY <1>5, <1>10 DEF Sent
  <2>4. QED BY <2>2, <2>3
<1>12. Filled(p, x)
  <2> HIDE DEF d
  <2>1. k + d \in Nat
    BY <1>2
  <2>2. x.output = Run(p, Base(x), 0) /\ x.queued = Run(p, Base(x) + 0, 0)
    BY <1>1, <1>10, RunEmpty
  <2>3. QED BY <1>4, <1>9, <1>10, <1>11, <2>1, <2>2 DEF Filled
<1>13. Writing(x)
  BY <1>1, <1>5, <1>10 DEF Writing
<1>14. Orphaned(p, x) /\ OrphansFrom(r, x)
  BY <1>1, <1>10 DEF Orphaned, OrphansFrom
<1>15. Sent(x) = Sent(r) + d /\ Sent(r) <= Sent(x)
  BY <1>2, <1>6, <1>11
<1>16. /\ t \in Seq(Bytes) /\ Len(t) = d /\ Sound(t)
       /\ Before(Flowing, BytesOf(t)) /\ Follows(t, p, x) /\ Covers(p, r, x, t)
  BY <1>1, <1>2, <1>9, <1>10, <1>15, RunLeaves DEF r
<1>17. pipe' = pipe \o t
  BY <1>1, <1>7
<1> HIDE DEF t
<1>18. QueueInv'
  BY <1>1, <1>3, <1>10, <1>12, <1>13, <1>14, <1>15, <1>16, <1>17, Others, ProducerStep
  DEF r
<1>19. Sends(p, r, x)
  BY <1>1, <1>2, <1>10, <1>15, <1>17 DEF Sends, t
<1>20. QED BY <1>1, <1>10, <1>18, <1>19 DEF Sending, r

LEMMA ProducerWriteStep ==
  ASSUME QueueInv, NEW p \in Producers, ProducerWrite(p)
  PROVE  QueueInv' /\ Sending(p)
<1> DEFINE r == prod[p]
           o == IF r.write = Interrupted THEN r.offset ELSE r.offset + r.write
           s == [r EXCEPT !.write = None, !.chunk = <<>>, !.offset = o]
           s1 == [r EXCEPT !.write = None, !.chunk = <<>>]
           x == Update(s)
<1>1. /\ cons' = cons /\ pipe' = pipe /\ interrupts' = interrupts /\ reopened' = reopened
      /\ r.write # None /\ r.write # Waits
  BY DEF ProducerWrite
<1>2. \/ /\ r.write = Interrupted /\ failed' = failed
         /\ prod' = [prod EXCEPT ![p] = Update(s1)]
      \/ /\ r.write # Interrupted /\ failed' = (r.write % ElementSize # 0)
         /\ prod' = [prod EXCEPT ![p] = Update([s1 EXCEPT !.offset = @ + r.write])]
  BY DEF ProducerWrite
<1>3. /\ r \in ProducerStates /\ Filled(p, r) /\ Writing(r) /\ Orphaned(p, r)
      /\ Sent(r) \in Nat /\ r.offset \in Nat /\ Base(r) \in Nat
  BY Producer, ProducerFields, BaseIs
<1>4. r.open /\ p \notin reopened => r.orphans = <<>>
  BY Others
<1> HIDE DEF r
<1>5. /\ r.open /\ r.offset < Len(r.output) /\ r.output # <<>>
      /\ Len(r.chunk) \in Nat /\ r.offset + Len(r.chunk) <= Len(r.output)
      /\ IsMultiple(r.offset) /\ Len(r.output) \in Nat
  BY <1>1, <1>3, WritingIs, ProducerFields, BaseIs
<1>6. /\ o \in Nat /\ o <= Len(r.output) /\ IsMultiple(o) /\ Base(r) + o = Sent(r)
      /\ r.write # Interrupted => r.write % ElementSize = 0 /\ o = r.offset + r.write
  <2>1. CASE r.write = Interrupted
    <3>1. Base(r) + r.offset = Sent(r)
      BY <1>3, <2>1, WritingIs
    <3>2. QED BY <1>3, <1>5, <2>1, <3>1
  <2>2. CASE r.write # Interrupted
    <3>1. /\ r.write \in 1 .. Len(r.chunk) /\ IsMultiple(r.write)
          /\ Sent(r) = Base(r) + r.offset + r.write
      BY <1>1, <1>3, <2>2, WritingIs
    <3>2. r.write \in Nat /\ r.write <= Len(r.chunk) /\ o = r.offset + r.write
      BY <1>5, <2>2, <3>1
    <3>3. r.write % ElementSize = 0
      BY <3>1 DEF IsMultiple
    <3>4. IsMultiple(r.offset + r.write)
      BY <1>3, <1>5, <3>1, <3>2, Multiples
    <3> DEFINE b == Base(r)
               w == r.write
               f == r.offset
               l == Len(r.output)
               m == Len(r.chunk)
    <3>5. /\ b \in Nat /\ w \in Nat /\ f \in Nat /\ l \in Nat /\ m \in Nat
          /\ w <= m /\ f + m <= l /\ Sent(r) = b + f + w /\ o = f + w
      BY <1>3, <1>5, <3>1, <3>2
    <3> HIDE DEF o, b, w, f, l, m
    <3>6. o \in Nat /\ o <= l /\ b + o = Sent(r)
      BY <3>5
    <3>7. QED BY <2>2, <3>2, <3>3, <3>4, <3>6 DEF b, l
  <2>3. QED BY <2>1, <2>2
<1>7. prod' = [prod EXCEPT ![p] = x] /\ failed' = FALSE
  <2>1. CASE r.write = Interrupted
    <3>1. s = s1
      BY <1>3, <2>1 DEF ProducerStates
    <3>2. QED BY <1>2, <2>1, <3>1, Others
  <2>2. CASE r.write # Interrupted
    <3>1. s = [s1 EXCEPT !.offset = @ + r.write]
      BY <1>3, <2>2 DEF ProducerStates
    <3>2. QED BY <1>2, <1>6, <2>2, <3>1
  <2>3. QED BY <2>1, <2>2
<1> HIDE DEF o
<1>8. /\ s \in ProducerStates /\ s.open = r.open /\ s.output = r.output
      /\ s.offset = o /\ s.write = None /\ s.orphans = r.orphans
      /\ s.queued = r.queued /\ s.pushed = r.pushed
  <2>1. r \in ProducerStates /\ o \in Nat
    BY <1>3, <1>6
  <2>2. <<>> \in Seq(Bytes)
    OBVIOUS
  <2>3. QED BY ONLY <2>1, <2>2 DEF ProducerStates, s
<1> HIDE DEF s, s1
<1>9. Base(s) = Base(r)
  BY <1>8 DEF Base
<1>10. Filled(p, s)
  BY <1>3, <1>6, <1>8, <1>9 DEF Filled
<1>11. /\ x \in ProducerStates /\ Filled(p, x) /\ Writing(x) /\ x.orphans = s.orphans
       /\ x.pushed = s.pushed /\ x.open
       /\ x.write = None /\ (s.output = <<>> => s.offset = 0) => x.offset = 0
       /\ Sent(x) = Base(s) + (IF s.output = <<>> THEN 0 ELSE s.offset)
  BY <1>5, <1>6, <1>8, <1>10, UpdateIs
<1> HIDE DEF x
<1>12. Sent(x) = Sent(r)
  BY <1>5, <1>6, <1>8, <1>9, <1>11
<1>13. Sent(r) <= Sent(x) /\ Sent(x) \in Nat /\ x.orphans = r.orphans
  BY <1>3, <1>8, <1>11, <1>12
<1>14. Orphaned(p, x) /\ OrphansFrom(r, x)
  BY <1>3, <1>11, <1>13, OrphansKept
<1>15. x.open /\ p \notin reopened => x.orphans = <<>> /\ (x.write = None => x.offset = 0)
  BY <1>4, <1>5, <1>8, <1>11, <1>13
<1>16. QueueInv'
  BY <1>1, <1>5, <1>7, <1>11, <1>12, <1>13, <1>14, <1>15, Others, ProducerKeeps DEF r
<1>17. Sends(p, r, x)
  BY <1>1, <1>3, <1>5, <1>11, <1>12, <1>13, Pipe, SendsNothing
<1>18. QED BY <1>1, <1>7, <1>8, <1>11, <1>16, <1>17 DEF Sending, r

\* What a close leaves of a write in flight comes after what was cancelled before.
LEMMA CancelledIs ==
  ASSUME NEW p \in Producers, NEW r \in ProducerStates, NEW x \in ProducerStates,
         Filled(p, r), Writing(r), Orphaned(p, r), r.write = Waits,
         Sent(r) \in Nat, Sent(x) \in Nat, Base(r) + Len(r.output) <= Sent(x),
         x.orphans = Append(r.orphans, r.chunk)
  PROVE  Orphaned(p, x) /\ OrphansFrom(r, x)
<1> DEFINE o == r.orphans
           h == r.chunk
           n == Len(o)
           a == Sent(r)
           l == Len(h)
<1>1. /\ o \in Seq(Seq(Bytes)) /\ h \in Seq(Bytes) /\ n \in Nat /\ DOMAIN o = 1 .. n
      /\ Base(r) \in Nat /\ r.offset \in Nat /\ Len(r.output) \in Nat
  BY ProducerFields, BaseIs
<1>2. /\ h = Run(p, a, l) /\ Sound(h) /\ l \in Nat /\ l <= WriteMax * ElementSize
      /\ a + l <= Sent(x) /\ a <= Sent(x)
  <2>1. r.write # None
    BY DEF None, Waits
  <2>2. /\ h = Run(p, Base(r) + r.offset, l) /\ Sound(h) /\ l \in Nat
        /\ l <= WriteMax * ElementSize /\ r.offset + l <= Len(r.output)
        /\ a = Base(r) + r.offset
    BY <2>1, WritingIs
  <2>3. h = Run(p, a, l)
    BY <2>2, Zenon
  <2> DEFINE b == Base(r)
             i == r.offset
             f == Len(r.output)
             y == Sent(x)
  <2>4. /\ b \in Nat /\ i \in Nat /\ f \in Nat /\ y \in Nat /\ l \in Nat
        /\ a = b + i /\ i + l <= f /\ b + f <= y
    BY <1>1, <2>2
  <2>5. a + l <= y /\ a <= y
    <3> HIDE DEF a, b, f, i, l, y
    <3>1. QED BY ONLY <2>4
  <2>6. QED BY <2>2, <2>3, <2>5
<1>3. /\ DOMAIN x.orphans = 1 .. n + 1 /\ x.orphans[n + 1] = h
      /\ \A k \in 1 .. n : x.orphans[k] = o[k]
  BY <1>1
<1>4. \A k \in 1 .. n :
        /\ Sound(o[k]) /\ Len(o[k]) <= WriteMax * ElementSize
        /\ \A y \in BytesOf(o[k]) : y[1] = p /\ y[2] <= a /\ y[2] \in Nat
        /\ \A i \in 1 .. k - 1 : Before(BytesOf(o[i]), BytesOf(o[k]))
  <2>1. \A k \in 1 .. n : BytesOf(o[k]) \subseteq Bytes
    BY <1>1, Members
  <2>2. QED BY <1>1, <2>1, BytesTyped DEF Orphaned
<1> HIDE DEF o, h, n, a, l
<1>5. BytesOf(h) = {<<p, k>> : k \in a + 1 .. a + l} /\ a \in Nat
  BY <1>2, RunBytes DEF a
<1>6. \A y \in BytesOf(h) : y[1] = p /\ y[2] \in Nat /\ a < y[2] /\ y[2] <= Sent(x)
  BY <1>2, <1>5
<1>7. ASSUME NEW k \in 1 .. n + 1
      PROVE  /\ Sound(x.orphans[k]) /\ Len(x.orphans[k]) <= WriteMax * ElementSize
             /\ \A y \in BytesOf(x.orphans[k]) : y[1] = p /\ y[2] <= Sent(x)
             /\ \A i \in 1 .. k - 1 :
                  Before(BytesOf(x.orphans[i]), BytesOf(x.orphans[k]))
             /\ \/ k \in 1 .. n /\ x.orphans[k] = o[k]
                \/ \A y \in BytesOf(x.orphans[k]) : a < y[2]
  <2>0. n \in Nat /\ (k \in 1 .. n \/ k = n + 1)
    <3>1. n \in Nat
      BY <1>1
    <3>2. QED BY <3>1
  <2>1. CASE k \in 1 .. n
    <3>1. x.orphans[k] = o[k] /\ \A i \in 1 .. k - 1 : x.orphans[i] = o[i]
      <4>1. \A i \in 1 .. k - 1 : i \in 1 .. n
        BY <2>0, <2>1
      <4>2. QED BY <1>3, <2>1, <4>1
    <3>2. \A y \in BytesOf(o[k]) : y[1] = p /\ y[2] <= Sent(x)
      BY <1>2, <1>4, <1>5, <2>1
    <3>3. QED BY <1>4, <2>1, <3>1, <3>2
  <2>2. CASE k = n + 1
    <3>1. x.orphans[k] = h
      BY <1>3, <2>2
    <3>2. ASSUME NEW i \in 1 .. k - 1
          PROVE  Before(BytesOf(x.orphans[i]), BytesOf(h))
      <4>1. i \in 1 .. n
        BY <1>1, <2>2
      <4>2. x.orphans[i] = o[i]
        BY <1>3, <4>1
      <4>3. ASSUME NEW y \in BytesOf(o[i]), NEW z \in BytesOf(h)
            PROVE  y[2] < z[2]
        <5>1. y[2] <= a /\ y[2] \in Nat
          BY <1>4, <4>1
        <5>2. a < z[2] /\ z[2] \in Nat
          BY <1>6
        <5>3. QED BY <1>5, <5>1, <5>2
      <4>4. QED BY <4>2, <4>3 DEF Before
    <3>3. QED BY <1>2, <1>6, <3>1, <3>2 DEF l
  <2>3. QED BY <2>0, <2>1, <2>2
<1>8. Orphaned(p, x)
  BY <1>3, <1>7 DEF Orphaned
<1>9. OrphansFrom(r, x)
  <2>1. ASSUME NEW k \in DOMAIN x.orphans
        PROVE  \/ \E i \in DOMAIN r.orphans : x.orphans[k] = r.orphans[i]
               \/ \A y \in BytesOf(x.orphans[k]) : Sent(r) < y[2]
    BY <1>1, <1>3, <1>7 DEF o, a
  <2>2. QED BY <2>1 DEF OrphansFrom
<1>10. QED BY <1>8, <1>9

LEMMA ProducerCloseStep ==
  ASSUME QueueInv, NEW p \in Producers, ProducerClose(p)
  PROVE  QueueInv' /\ Sending(p)
<1> DEFINE r == prod[p]
           o == IF r.write = Waits THEN Append(r.orphans, r.chunk) ELSE r.orphans
           x == [r EXCEPT !.open = FALSE, !.output = <<>>, !.queued = <<>>,
                          !.write = None, !.chunk = <<>>,
                          !.orphans = IF r.write = Waits
                                      THEN Append(@, r.chunk) ELSE @]
           y == [r EXCEPT !.open = FALSE, !.output = <<>>, !.queued = <<>>,
                          !.write = None, !.chunk = <<>>, !.orphans = o]
           k == r.pushed * ElementSize
<1>1. /\ prod' = [prod EXCEPT ![p] = x] /\ cons' = cons /\ pipe' = pipe
      /\ failed' = failed /\ interrupts' = interrupts /\ reopened' = reopened
      /\ r.open
  BY DEF ProducerClose
<1>2. /\ r \in ProducerStates /\ Filled(p, r) /\ Writing(r) /\ Orphaned(p, r)
      /\ Sent(r) \in Nat
  BY Producer
<1>3. o \in Seq(Seq(Bytes)) /\ x = y
  BY <1>2, ProducerFields
<1> HIDE DEF r, x, o
<1>4. /\ x \in ProducerStates /\ x.open = FALSE /\ x.output = <<>> /\ x.queued = <<>>
      /\ x.write = None /\ x.orphans = o /\ x.pushed = r.pushed /\ x.offset = r.offset
  <2>1. <<>> \in Seq(Bytes) /\ None \in {None, Waits, Interrupted} \cup Nat
        /\ FALSE \in BOOLEAN
    OBVIOUS
  <2>2. QED BY ONLY <1>2, <1>3, <2>1 DEF ProducerStates, y
<1>5. /\ Base(r) \in Nat /\ Base(r) + Len(r.output) + Len(r.queued) = k /\ k \in Nat
      /\ Sent(r) <= Base(r) + Len(r.output) /\ IsMultiple(r.offset)
      /\ Len(r.output) \in Nat /\ Len(r.queued) \in Nat
  BY <1>2, BaseIs, WritingIs, ProducerFields
<1> HIDE DEF k, y
<1>6. Len(x.output) = 0 /\ Len(x.queued) = 0
  BY <1>4
<1>7. Base(x) = k /\ Sent(x) = k
  <2>1. Base(x) = k - 0 - 0
    BY <1>4, <1>6 DEF Base, k
  <2>2. Sent(x) = Base(x)
    BY <1>4 DEF Sent
  <2>3. QED BY <1>5, <2>1, <2>2
<1>8. Sent(r) <= Sent(x) /\ Base(r) + Len(r.output) <= Sent(x) /\ Sent(x) \in Nat
  BY <1>2, <1>5, <1>7
<1>9. Filled(p, x)
  <2>1. x.output = Run(p, Base(x), 0) /\ x.queued = Run(p, Base(x) + 0, 0)
    BY <1>4, RunEmpty
  <2>2. IsMultiple(0)
    BY Multiples
  <2>3. QED BY <1>4, <1>5, <1>6, <1>7, <2>1, <2>2 DEF Filled
<1>10. Writing(x)
  BY <1>4 DEF Writing
<1>11. Orphaned(p, x) /\ OrphansFrom(r, x)
  <2>1. CASE r.write = Waits
    <3>1. x.orphans = Append(r.orphans, r.chunk)
      BY <1>4, <2>1 DEF o
    <3>2. QED BY <1>2, <1>4, <1>8, <2>1, <3>1, CancelledIs
  <2>2. CASE r.write # Waits
    <3>1. x.orphans = r.orphans
      BY <1>4, <2>2 DEF o
    <3>2. QED BY <1>2, <1>4, <1>8, <3>1, OrphansKept
  <2>3. QED BY <2>1, <2>2
<1>12. ~x.open
  BY <1>4
<1>13. QueueInv'
  BY <1>1, <1>4, <1>8, <1>9, <1>10, <1>11, <1>12, Others, ProducerKeeps DEF r
<1>14. \/ x.orphans = r.orphans
       \/ x.orphans = Append(r.orphans, Run(p, Sent(r), Len(r.chunk)))
  <2>1. CASE r.write = Waits
    <3>1. r.write # None /\ r.write \in {Waits, Interrupted}
      BY <2>1 DEF None, Waits
    <3>2. r.chunk = Run(p, Sent(r), Len(r.chunk))
      <4>1. /\ r.chunk = Run(p, Base(r) + r.offset, Len(r.chunk))
            /\ Sent(r) = Base(r) + r.offset
        BY <1>2, <3>1, WritingIs
      <4>2. QED BY <4>1, Zenon
    <3>3. x.orphans = Append(r.orphans, r.chunk)
      BY <1>4, <2>1 DEF o
    <3>4. QED BY <3>2, <3>3, Zenon
  <2>2. CASE r.write # Waits
    BY <1>4, <2>2 DEF o
  <2>3. QED BY <2>1, <2>2
<1>15. Sends(p, r, x)
  BY <1>1, <1>12, <1>14 DEF Sends
<1>16. QED BY <1>1, <1>4, <1>13, <1>15 DEF Sending, r

LEMMA ProducerOpenStep ==
  ASSUME QueueInv, NEW p \in Producers, ProducerOpen(p)
  PROVE  QueueInv' /\ Sending(p)
<1> DEFINE r == prod[p]
           x == [r EXCEPT !.open = TRUE]
<1>1. /\ prod' = [prod EXCEPT ![p] = x] /\ cons' = cons /\ pipe' = pipe
      /\ failed' = failed /\ interrupts' = interrupts /\ reopened' = reopened \cup {p}
      /\ ~r.open
  BY DEF ProducerOpen
<1>2. /\ r \in ProducerStates /\ Filled(p, r) /\ Writing(r) /\ Orphaned(p, r)
      /\ Sent(r) \in Nat
  BY Producer
<1> HIDE DEF r
<1>3. r.write = None /\ r.output = <<>> /\ r.queued = <<>>
  BY <1>1, <1>2 DEF Writing
<1>4. /\ x \in ProducerStates /\ x.open = TRUE /\ x.output = r.output
      /\ x.offset = r.offset /\ x.write = r.write /\ x.chunk = r.chunk
      /\ x.orphans = r.orphans /\ x.queued = r.queued /\ x.pushed = r.pushed
  BY <1>2 DEF ProducerStates
<1> HIDE DEF x
<1>5. Base(x) = Base(r) /\ Sent(x) = Sent(r)
  <2>1. Base(x) = Base(r)
    BY <1>4 DEF Base
  <2>2. QED BY <1>3, <1>4, <2>1 DEF Sent
<1>6. Filled(p, x)
  BY <1>2, <1>4, <1>5 DEF Filled
<1>7. Writing(x)
  BY <1>3, <1>4 DEF Writing
<1>8. Sent(r) <= Sent(x) /\ Sent(x) \in Nat
  BY <1>2, <1>5
<1>9. Orphaned(p, x) /\ OrphansFrom(r, x)
  BY <1>2, <1>4, <1>8, OrphansKept
<1>10. p \in reopened' /\ reopened' # {} /\ reopened \subseteq reopened'
       /\ reopened' \subseteq Producers \cup Consumers
  BY <1>1, Others
<1>11. QueueInv'
  BY <1>1, <1>4, <1>6, <1>7, <1>8, <1>9, <1>10, Others, ProducerKeeps DEF r
<1>12. QED BY <1>1, <1>4, <1>10, <1>11 DEF Sending, Sends, r

LEMMA InterruptedWriteStep ==
  ASSUME QueueInv, NEW p \in Producers, prod[p].write = Waits,
         prod' = [prod EXCEPT ![p].write = Interrupted], cons' = cons, pipe' = pipe,
         failed' = failed, reopened' = reopened, interrupts' \in 0 .. MaxInterrupts
  PROVE  QueueInv' /\ Sending(p)
<1> DEFINE r == prod[p]
           x == [r EXCEPT !.write = Interrupted]
<1>1. prod' = [prod EXCEPT ![p] = x] /\ r.write = Waits
  OBVIOUS
<1>2. /\ r \in ProducerStates /\ Filled(p, r) /\ Writing(r) /\ Orphaned(p, r)
      /\ Sent(r) \in Nat
  BY Producer
<1>3. r.open /\ p \notin reopened => r.orphans = <<>>
  BY Others
<1> HIDE DEF r
<1>4. /\ x \in ProducerStates /\ x.open = r.open /\ x.output = r.output
      /\ x.offset = r.offset /\ x.write = Interrupted /\ x.chunk = r.chunk
      /\ x.orphans = r.orphans /\ x.queued = r.queued /\ x.pushed = r.pushed
  BY <1>2 DEF ProducerStates
<1> HIDE DEF x
<1>5. Base(x) = Base(r) /\ Chunk(x) = Chunk(r)
  BY <1>4 DEF Base, Chunk
<1>6. Filled(p, x)
  BY <1>2, <1>4, <1>5 DEF Filled
<1>7. Writing(x) /\ x.write # None
  BY <1>1, <1>2, <1>4, <1>5 DEF Writing, None, Waits, Interrupted
<1>8. Sent(x) = Sent(r)
  <2>1. Sent(x) = Base(r) + r.offset
    BY <1>4, <1>5, <1>6, <1>7, WritingIs
  <2>2. QED BY <1>1, <1>2, <2>1, WritingIs
<1>9. Sent(r) <= Sent(x) /\ Sent(x) \in Nat
  BY <1>2, <1>8
<1>10. Orphaned(p, x) /\ OrphansFrom(r, x)
  BY <1>2, <1>4, <1>9, OrphansKept
<1>11. r.open
  BY <1>1, <1>2, WritingIs DEF None, Waits
<1>12. QueueInv'
  BY <1>1, <1>3, <1>4, <1>6, <1>7, <1>8, <1>9, <1>10, <1>11, Others, ProducerKeeps DEF r
<1>13. Sends(p, r, x)
  BY <1>2, <1>4, <1>8, <1>11, Pipe, SendsNothing
<1>14. QED BY <1>1, <1>4, <1>12, <1>13 DEF Sending, r

\* The pipe takes whole elements.
LEMMA FitsIs ==
  ASSUME WritesAreWhole, NEW n, NEW size \in Nat, Fits(n, size), IsMultiple(size),
         size <= WriteMax * ElementSize, Len(pipe) \in Nat
  PROVE  n \in Nat /\ n <= size /\ IsMultiple(n) /\ Len(pipe) + n <= PipeSize
<1> DEFINE m == WriteMax * ElementSize
<1>1. /\ n \in Nat /\ n <= size /\ Len(pipe) + n <= PipeSize
      /\ size <= PipeBuf => n = size
  BY DEF Fits
<1>2. m \in Nat /\ PipeBuf \in Nat /\ ElementSize \in Nat /\ size <= m
  BY Size
<1>3. IsMultiple(n)
  <2>1. CASE ElementSize = 1
    <3>1. n * ElementSize = n
      BY <1>1, <2>1
    <3>2. IsMultiple(n * ElementSize)
      BY <1>1, Multiples
    <3>3. QED BY <3>1, <3>2
  <2>2. CASE m <= PipeBuf
    <3> HIDE DEF m
    <3>1. size <= PipeBuf
      BY <1>2, <2>2
    <3>2. QED BY <1>1, <3>1
  <2>3. QED BY <2>1, <2>2 DEF WritesAreWhole
<1>4. QED BY <1>1, <1>3

LEMMA KernelWriteStep ==
  ASSUME WritesAreWhole, QueueInv, NEW p \in Producers, KernelWrite(p)
  PROVE  QueueInv' /\ Sending(p)
<1> DEFINE r == prod[p]
<1>1. PICK n \in 1 .. PipeSize :
        /\ r.write = Waits /\ r.orphans = <<>> /\ Fits(n, Len(r.chunk))
        /\ pipe' = pipe \o SubSeq(r.output, r.offset + 1, r.offset + n)
        /\ prod' = [prod EXCEPT ![p].write = n]
        /\ cons' = cons /\ failed' = failed
        /\ interrupts' = interrupts /\ reopened' = reopened
  BY DEF KernelWrite
<1> DEFINE x == [r EXCEPT !.write = n]
           t == Run(p, Sent(r), n)
<1>2. /\ r \in ProducerStates /\ Filled(p, r) /\ Writing(r) /\ Sent(r) \in Nat
      /\ r.offset \in Nat /\ Base(r) \in Nat /\ Len(r.output) \in Nat
      /\ pipe \in Seq(Bytes) /\ Len(pipe) \in Nat
  BY Producer, ProducerFields, BaseIs, Pipe
<1>3. prod' = [prod EXCEPT ![p] = x]
  BY <1>1
<1>4. r.open /\ p \notin reopened => r.orphans = <<>>
  BY Others
<1> HIDE DEF r
<1>5. /\ r.open /\ r.offset < Len(r.output) /\ r.chunk = Chunk(r)
      /\ Len(r.chunk) \in Nat /\ r.offset + Len(r.chunk) <= Len(r.output)
      /\ Len(r.chunk) <= WriteMax * ElementSize /\ IsMultiple(Len(r.chunk))
      /\ Sent(r) = Base(r) + r.offset
  <2>1. r.write # None /\ r.write \in {Waits, Interrupted}
    BY <1>1 DEF None, Waits
  <2>2. QED BY <1>2, <2>1, WritingIs
<1>6. /\ n \in Nat /\ n > 0 /\ n <= Len(r.chunk) /\ IsMultiple(n)
      /\ Len(pipe) + n <= PipeSize
  <2>1. n > 0
    BY Size
  <2>2. QED BY <1>1, <1>2, <1>5, <2>1, FitsIs
<1>7. /\ x \in ProducerStates /\ x.open = r.open /\ x.output = r.output
      /\ x.offset = r.offset /\ x.write = n /\ x.chunk = r.chunk
      /\ x.orphans = r.orphans /\ x.queued = r.queued /\ x.pushed = r.pushed
  BY <1>2, <1>6 DEF ProducerStates
<1> HIDE DEF x
<1>8. Base(x) = Base(r) /\ Chunk(x) = Chunk(r)
  BY <1>7 DEF Base, Chunk
<1>9. Filled(p, x)
  BY <1>2, <1>7, <1>8 DEF Filled
<1>10. x.write # None /\ x.write \notin {Waits, Interrupted} /\ x.write \in 1 .. Len(x.chunk)
  BY <1>5, <1>6, <1>7 DEF None, Waits, Interrupted
<1>11. Writing(x)
  BY <1>5, <1>6, <1>7, <1>8, <1>10 DEF Writing
<1>12. Sent(x) = Sent(r) + n /\ Sent(r) <= Sent(x)
  <2>1. Sent(x) = Base(r) + r.offset + n
    BY <1>7, <1>8, <1>9, <1>10, <1>11, WritingIs
  <2>2. QED BY <1>2, <1>5, <1>6, <2>1
<1>13. Orphaned(p, x) /\ OrphansFrom(r, x)
  BY <1>1, <1>7 DEF Orphaned, OrphansFrom
<1>14. pipe' = pipe \o t
  <2> DEFINE o == r.output
             b == Base(r)
             l == Len(r.output)
             i == r.offset
             j == i + n
  <2>1. i \in Nat /\ j \in Nat /\ i <= j /\ j <= l /\ l \in Nat /\ b \in Nat /\ j - i = n
    <3> DEFINE e == Len(r.chunk)
    <3>1. /\ i \in Nat /\ l \in Nat /\ b \in Nat /\ n \in Nat /\ e \in Nat
          /\ n <= e /\ i + e <= l
      BY <1>2, <1>5, <1>6
    <3> HIDE DEF b, e, i, l
    <3>2. QED BY ONLY <3>1
  <2>2. o = Run(p, b, l) /\ b + i = Sent(r)
    BY <1>2, <1>5 DEF Filled
  <2>3. pipe' = pipe \o Part(o, i, j)
    BY <1>1 DEF Part
  <2> HIDE DEF o, b, l, i, j
  <2>4. Part(Run(p, b, l), i, j) = Run(p, b + i, j - i)
    BY <2>1, RunParts
  <2>5. QED BY <2>1, <2>2, <2>3, <2>4
<1>15. /\ t \in Seq(Bytes) /\ Len(t) = n /\ Sound(t)
       /\ Before(Flowing, BytesOf(t)) /\ Follows(t, p, x) /\ Covers(p, r, x, t)
  BY <1>1, <1>5, <1>6, <1>7, <1>12, RunLeaves DEF r
<1> HIDE DEF t
<1>16. QueueInv'
  BY <1>1, <1>3, <1>4, <1>5, <1>6, <1>7, <1>9, <1>10, <1>11, <1>12, <1>13, <1>14, <1>15,
     Others, ProducerStep DEF r
<1>17. Sends(p, r, x)
  BY <1>5, <1>6, <1>7, <1>12, <1>14 DEF Sends, t
<1>18. QED BY <1>1, <1>3, <1>7, <1>16, <1>17 DEF Sending, r

LEMMA KernelOrphanWriteStep ==
  ASSUME WritesAreWhole, QueueInv, NEW p \in Producers, KernelOrphanWrite(p)
  PROVE  QueueInv' /\ Sending(p)
<1> DEFINE r == prod[p]
           o == r.orphans
           h == Head(o)
<1>1. PICK n \in 0 .. PipeSize :
        /\ o # <<>>
        /\ n = 0 \/ Fits(n, Len(h))
        /\ pipe' = pipe \o SubSeq(h, 1, n)
        /\ prod' = [prod EXCEPT ![p].orphans = Tail(@)]
        /\ cons' = cons /\ failed' = failed
        /\ interrupts' = interrupts /\ reopened' = reopened
  BY DEF KernelOrphanWrite
<1> DEFINE x == [r EXCEPT !.orphans = Tail(o)]
           t == SubSeq(h, 1, n)
<1>2. /\ r \in ProducerStates /\ Filled(p, r) /\ Writing(r) /\ Orphaned(p, r)
      /\ Sent(r) \in Nat /\ o \in Seq(Seq(Bytes))
      /\ pipe \in Seq(Bytes) /\ Len(pipe) \in Nat /\ Len(pipe) <= PipeSize
  BY Producer, ProducerFields, Pipe
<1>3. prod' = [prod EXCEPT ![p] = x] /\ o # <<>>
  BY <1>1 DEF KernelOrphanWrite
<1>4. ~(r.open /\ p \notin reopened)
  BY <1>3, Others
<1>5. \A y \in Flowing : y[1] = p => \A k \in DOMAIN o : Before({y}, BytesOf(o[k]))
  BY InvParts DEF FlowKept
<1>6. /\ h = o[1] /\ 1 \in DOMAIN o /\ h \in Seq(Bytes) /\ Len(h) \in Nat
      /\ Tail(o) \in Seq(Seq(Bytes)) /\ Len(o) \in Nat
      /\ \A k \in DOMAIN Tail(o) : k + 1 \in DOMAIN o /\ Tail(o)[k] = o[k + 1]
                                   /\ k \in 1 .. Len(o) - 1
  <2> DEFINE S == Seq(Bytes)
             z == r.orphans
  <2>1. z \in Seq(S) /\ z # <<>>
    BY <1>2, <1>3
  <2> HIDE DEF S, z
  <2>2. /\ Head(z) = z[1] /\ 1 \in DOMAIN z /\ Head(z) \in S
        /\ Tail(z) \in Seq(S) /\ Len(z) \in Nat
        /\ \A k \in DOMAIN Tail(z) : k + 1 \in DOMAIN z /\ Tail(z)[k] = z[k + 1]
                                     /\ k \in 1 .. Len(z) - 1
    BY <2>1
  <2>3. Len(Head(z)) \in Nat
    BY <2>2 DEF S
  <2>4. QED BY <2>2, <2>3 DEF S, z
<1>7. /\ Sound(h) /\ Len(h) <= WriteMax * ElementSize
      /\ \A y \in BytesOf(h) : y[1] = p /\ y[2] <= Sent(r)
  BY <1>2, <1>6 DEF Orphaned
<1>8. \A k \in DOMAIN Tail(o) : Before(BytesOf(h), BytesOf(Tail(o)[k]))
  <2>1. ASSUME NEW k \in DOMAIN Tail(o)
        PROVE  Before(BytesOf(h), BytesOf(Tail(o)[k]))
    <3>1. 1 \in 1 .. (k + 1) - 1
      BY <1>6
    <3>2. QED BY <1>2, <1>6, <3>1 DEF Orphaned
  <2>2. QED BY <2>1
<1> HIDE DEF r, o, h
<1>9. n \in Nat /\ n <= Len(h) /\ IsMultiple(n) /\ Len(pipe) + n <= PipeSize
  <2>1. CASE n = 0
    BY <1>2, <1>6, <2>1, Multiples, Size
  <2>2. CASE Fits(n, Len(h))
    <3>1. IsMultiple(Len(h))
      BY <1>7 DEF Sound, Whole
    <3>2. QED BY <1>2, <1>6, <1>7, <2>2, <3>1, FitsIs
  <2>3. QED BY <1>1, <2>1, <2>2
<1>10. /\ t \in Seq(Bytes) /\ Len(t) = n /\ Sound(t) /\ BytesOf(t) \subseteq BytesOf(h)
  <2>1. /\ t \in Seq(Bytes) /\ Len(t) = n /\ Sound(t)
        /\ BytesOf(h) = BytesOf(t) \cup BytesOf(SubSeq(h, n + 1, Len(h)))
    BY <1>6, <1>7, <1>9, SoundParts
  <2>2. QED BY <2>1
<1>11. /\ x \in ProducerStates /\ x.open = r.open /\ x.output = r.output
       /\ x.offset = r.offset /\ x.write = r.write /\ x.chunk = r.chunk
       /\ x.orphans = Tail(o) /\ x.queued = r.queued /\ x.pushed = r.pushed
  BY <1>2, <1>6 DEF ProducerStates
<1>12. pipe' = pipe \o t
  BY <1>1
<1> HIDE DEF x, t
<1>13. Base(x) = Base(r) /\ Chunk(x) = Chunk(r) /\ Sent(x) = Sent(r)
  <2>1. Base(x) = Base(r) /\ Chunk(x) = Chunk(r) /\ Written(x) = Written(r)
    BY <1>11 DEF Base, Chunk, Written
  <2>2. QED BY <1>11, <2>1 DEF Sent
<1>14. Filled(p, x) /\ Writing(x)
  BY <1>2, <1>11, <1>13 DEF Filled, Writing
<1>15. Orphaned(p, x)
  <2>1. ASSUME NEW k \in DOMAIN x.orphans
        PROVE  /\ Sound(x.orphans[k]) /\ Len(x.orphans[k]) <= WriteMax * ElementSize
               /\ \A y \in BytesOf(x.orphans[k]) : y[1] = p /\ y[2] <= Sent(x)
               /\ \A i \in 1 .. k - 1 :
                    Before(BytesOf(x.orphans[i]), BytesOf(x.orphans[k]))
    <3>1. k \in 1 .. Len(o) - 1 /\ k + 1 \in DOMAIN o /\ x.orphans[k] = o[k + 1]
      BY <1>6, <1>11
    <3>2. \A i \in 1 .. k - 1 : i + 1 \in 1 .. (k + 1) - 1 /\ x.orphans[i] = o[i + 1]
      <4>1. \A i \in 1 .. k - 1 : i \in 1 .. Len(o) - 1 /\ i + 1 \in 1 .. (k + 1) - 1
        <5> DEFINE l == Len(o)
        <5>1. l \in Nat /\ k \in 1 .. l - 1
          BY <1>6, <3>1
        <5> HIDE DEF l
        <5>2. \A i \in 1 .. k - 1 : i \in 1 .. l - 1 /\ i + 1 \in 1 .. (k + 1) - 1
          BY <5>1
        <5>3. QED BY <5>2 DEF l
      <4>2. \A i \in 1 .. Len(o) - 1 : Tail(o)[i] = o[i + 1]
        BY <1>2, <1>3
      <4>3. QED BY <1>11, <4>1, <4>2
    <3>3. /\ Sound(o[k + 1]) /\ Len(o[k + 1]) <= WriteMax * ElementSize
          /\ \A y \in BytesOf(o[k + 1]) : y[1] = p /\ y[2] <= Sent(r)
          /\ \A i \in 1 .. (k + 1) - 1 : Before(BytesOf(o[i]), BytesOf(o[k + 1]))
      BY <1>2, <3>1 DEF Orphaned, o
    <3>4. QED BY <1>13, <3>1, <3>2, <3>3
  <2>2. QED BY <2>1 DEF Orphaned
<1>16. OrphansFrom(r, x)
  BY <1>6, <1>11 DEF OrphansFrom, o
<1>17. Before(Flowing, BytesOf(t))
  <2>1. ASSUME NEW y \in Flowing, NEW z \in BytesOf(t), y[1] = z[1]
        PROVE  y[2] < z[2]
    <3>1. z \in BytesOf(h) /\ y[1] = p
      BY <1>7, <1>10, <2>1
    <3>2. Before({y}, BytesOf(h))
      BY <1>5, <1>6, <3>1
    <3>3. QED BY <2>1, <3>1, <3>2 DEF Before
  <2>2. QED BY <2>1 DEF Before
<1>18. Follows(t, p, x)
  <2>1. ASSUME NEW y \in BytesOf(t)
        PROVE  /\ y[1] = p /\ y[2] <= Sent(x)
               /\ \A k \in DOMAIN x.orphans : Before({y}, BytesOf(x.orphans[k]))
    <3>1. y \in BytesOf(h)
      BY <1>10
    <3>2. \A k \in DOMAIN x.orphans : Before({y}, BytesOf(x.orphans[k]))
      BY <1>8, <1>11, <3>1 DEF Before
    <3>3. QED BY <1>7, <1>13, <3>1, <3>2
  <2>2. QED BY <2>1 DEF Follows
<1>19. ~(x.open /\ p \notin reopened') /\ ~(x.open /\ reopened' = {})
  BY <1>1, <1>4, <1>11
<1>20. Len(pipe) + Len(t) <= PipeSize /\ Sent(r) <= Sent(x)
  BY <1>2, <1>9, <1>10, <1>13
<1>21. QueueInv'
  BY <1>1, <1>3, <1>10, <1>11, <1>12, <1>14, <1>15, <1>16, <1>17, <1>18, <1>19, <1>20,
     Others, ProducerStep DEF r
<1>22. Sends(p, r, x)
  <2>1. n \in 0 .. Len(h)
    BY <1>6, <1>9
  <2>2. pipe' = pipe \o SubSeq(Head(r.orphans), 1, n) /\ n \in 0 .. Len(Head(r.orphans))
    BY <1>12, <2>1 DEF t, h, o
  <2>3. r.orphans # <<>> /\ x.orphans = Tail(r.orphans) /\ reopened' = reopened
    BY <1>1, <1>3, <1>11 DEF o
  <2>4. x.open = r.open
    BY <1>11
  <2>5. CASE r.open
    BY <1>4, <2>3, <2>5 DEF Sends
  <2>6. CASE ~r.open
    BY <2>2, <2>3, <2>4, <2>6 DEF Sends
  <2>7. QED BY <2>5, <2>6
<1>23. QED BY <1>1, <1>3, <1>11, <1>21, <1>22 DEF Sending, r

-----------------------------------------------------------------------------
(* The invariant. *)

LEMMA InvInit == Init => QueueInv
<1>1. SUFFICES ASSUME Init
               PROVE  QueueInv
  OBVIOUS
<1>2. /\ Sound(<<>>) /\ BytesOf(<<>>) = {} /\ <<>> \in Seq(Bytes)
      /\ <<>> \in Seq(Seq(Bytes)) /\ IsMultiple(0) /\ PipeSize \in Nat
      /\ MaxInterrupts \in Nat
  BY SoundEmpty, Multiples, Size, BoundsAssumption
<1>3. \A p \in Producers :
        /\ prod[p] \in ProducerStates /\ prod[p].open /\ prod[p].output = <<>>
        /\ prod[p].offset = 0 /\ prod[p].queued = <<>> /\ prod[p].write = None
        /\ prod[p].orphans = <<>> /\ prod[p].pushed = 0
  BY <1>1, <1>2 DEF Init, ProducerStates
<1>4. \A c \in Consumers :
        /\ cons[c] \in ConsumerStates /\ cons[c].open /\ cons[c].read = None
        /\ cons[c].at = 0 /\ ~cons[c].aborted /\ cons[c].orphans = 0
        /\ cons[c].abort = "null" /\ ~cons[c].wild /\ cons[c].popped = <<>>
  BY <1>1, <1>2 DEF Init, ConsumerStates
<1>5. Typed /\ Running
  <2>1. /\ prod \in [Producers -> ProducerStates]
        /\ cons \in [Consumers -> ConsumerStates]
    BY <1>1, <1>3, <1>4 DEF Init
  <2>2. pipe = <<>> /\ Len(pipe) = 0 /\ interrupts = 0 /\ reopened = {} /\ failed = FALSE
    BY <1>1 DEF Init
  <2>3. QED BY <1>2, <2>1, <2>2 DEF Typed, Running
<1>6. ASSUME NEW p \in Producers
      PROVE  /\ Filled(p, prod[p]) /\ Writing(prod[p]) /\ Orphaned(p, prod[p])
             /\ Sent(prod[p]) = 0
  <2> DEFINE r == prod[p]
  <2>1. /\ r.open /\ r.output = <<>> /\ r.offset = 0 /\ r.queued = <<>> /\ r.write = None
        /\ r.orphans = <<>> /\ r.pushed = 0 /\ Len(r.output) = 0 /\ Len(r.queued) = 0
    BY <1>3
  <2> HIDE DEF r
  <2>2. Base(r) = 0 /\ Sent(r) = 0
    <3>1. 0 * ElementSize = 0
      BY Size
    <3>2. Base(r) = 0
      BY <2>1, <3>1 DEF Base
    <3>3. QED BY <2>1, <3>2 DEF Sent
  <2>3. r.output = Run(p, Base(r), 0) /\ r.queued = Run(p, Base(r) + 0, 0)
    BY <2>1, RunEmpty
  <2>4. Filled(p, r)
    BY <1>2, <2>1, <2>2, <2>3 DEF Filled
  <2>5. Writing(r) /\ Orphaned(p, r)
    BY <2>1 DEF Writing, Orphaned
  <2>6. QED BY <2>2, <2>4, <2>5 DEF r
<1>7. ASSUME NEW c \in Consumers
      PROVE  Reading(cons[c]) /\ Taken(cons[c]) = {}
  <2> DEFINE r == cons[c]
  <2>1. /\ r.open /\ r.read = 0 /\ r.at = 0 /\ ~r.aborted /\ r.popped = <<>>
        /\ r.abort = "null"
    BY <1>4 DEF None
  <2> HIDE DEF r
  <2>2. ~(r.at > 0) /\ ~(r.read > 0)
    BY <2>1
  <2>3. Rest(r) = <<>>
    BY <2>2 DEF Rest
  <2>4. Taken(r) = {}
    BY <1>2, <2>1, <2>3 DEF Taken
  <2>5. Before(BytesOf(r.popped), BytesOf(Rest(r)))
    BY <1>2, <2>1 DEF Before
  <2>6. Reading(r)
    BY <1>2, <2>1, <2>2, <2>3, <2>5 DEF Reading
  <2>7. QED BY <2>4, <2>6 DEF r
<1>8. ProducersKept /\ ConsumersKept
  BY <1>6, <1>7 DEF ProducersKept, ConsumersKept
<1>9. ClosedOnly
  BY <1>3, <1>4 DEF ClosedOnly
<1>10. Flowing = {} /\ pipe = <<>>
  BY <1>1, <1>2, <1>7 DEF Flowing, Init
<1>11. FlowKept
  BY <1>2, <1>7, <1>10 DEF FlowKept, Before
<1>12. Covered
  <2>1. \A p \in Producers : 1 .. Sent(prod[p]) = {}
    BY <1>6
  <2>2. QED BY <2>1 DEF Covered
<1>13. QED BY <1>5, <1>8, <1>9, <1>11, <1>12, InvParts

\* What a step is to the line.
Steps ==
  \/ UNCHANGED <<prod, cons, pipe>>
  \/ \E p \in Producers : Sending(p)
  \/ \E c \in Consumers : Passed(c)

LEMMA InterruptStep ==
  ASSUME QueueInv, KernelInterrupt
  PROVE  QueueInv' /\ Steps
<1>1. /\ interrupts' \in 0 .. MaxInterrupts /\ pipe' = pipe /\ reopened' = reopened
      /\ failed' = failed
  <2>1. interrupts \in 0 .. MaxInterrupts /\ MaxInterrupts \in Nat
    BY Others
  <2>2. interrupts < MaxInterrupts /\ interrupts' = interrupts + 1
    BY DEF KernelInterrupt
  <2>3. interrupts' \in 0 .. MaxInterrupts
    BY <2>1, <2>2
  <2>4. QED BY <2>3 DEF KernelInterrupt
<1>2. CASE \E p \in Producers :
             /\ prod[p].write = Waits
             /\ prod' = [prod EXCEPT ![p].write = Interrupted] /\ UNCHANGED cons
  BY <1>1, <1>2, InterruptedWriteStep DEF Steps
<1>3. CASE \E c \in Consumers :
             /\ Taking(cons[c])
             /\ cons' = [cons EXCEPT ![c].read = Interrupted] /\ UNCHANGED prod
  BY <1>1, <1>3, InterruptedReadStep DEF Steps
<1>4. QED BY <1>1, <1>2, <1>3 DEF KernelInterrupt

LEMMA InvNext ==
  ASSUME WritesAreWhole, QueueInv, [Next]_vars
  PROVE  QueueInv' /\ Steps
<1>1. CASE UNCHANGED vars
  <2>1. /\ prod' = prod /\ cons' = cons /\ pipe' = pipe /\ interrupts' = interrupts
        /\ reopened' = reopened /\ failed' = failed
    BY <1>1 DEF vars
  <2>2. Typed' /\ Running'
    BY <2>1, InvParts DEF Typed, Running
  <2>3. ProducersKept' /\ ConsumersKept' /\ ClosedOnly'
    BY <2>1, InvParts DEF ProducersKept, ConsumersKept, ClosedOnly
  <2>4. FlowKept' /\ Covered'
    BY <2>1, InvParts DEF FlowKept, Covered, Flowing, NothingClosed
  <2>5. QED BY <2>1, <2>2, <2>3, <2>4, InvPartsNext DEF Steps
<1>2. ASSUME NEW p \in Producers,
             ProducerApi(p) \/ ProducerLoop(p) \/ KernelOrphanWrite(p)
      PROVE  QueueInv' /\ Sending(p)
  BY <1>2, PushStep, PushSyncStep, ProducerCloseStep, ProducerOpenStep, ProducerWriteStep,
     KernelWriteStep, KernelOrphanWriteStep DEF ProducerApi, ProducerLoop
<1>3. ASSUME NEW c \in Consumers,
             ConsumerApi(c) \/ ConsumerLoop(c) \/ KernelOrphanRead(c)
      PROVE  QueueInv' /\ Passed(c)
  BY <1>3, PopStep, PopSyncStep, ConsumerCloseStep, ConsumerOpenStep, ConsumerReadStep,
     ReturnStep, KernelReadStep, KernelOrphanReadStep DEF ConsumerApi, ConsumerLoop
<1>4. CASE KernelInterrupt
  BY <1>4, InterruptStep
<1>5. QED BY <1>1, <1>2, <1>3, <1>4 DEF Next, Steps

LEMMA InvAlways ==
  ASSUME WritesAreWhole
  PROVE  Spec => []QueueInv
<1>1. Init => QueueInv
  BY InvInit
<1>2. QueueInv /\ [Next]_vars => QueueInv'
  BY InvNext
<1>3. QED BY <1>1, <1>2, PTL DEF Spec

-----------------------------------------------------------------------------
(* What follows. *)

\* The types of the producers, the consumers and the pipe, which holds no more than
\* it has room for; what is closed has no operation that would call it back.
THEOREM QueueTyped ==
  ASSUME WritesAreWhole
  PROVE  Spec => []TypeOK
<1>1. QueueInv => TypeOK
  BY DEF QueueInv
<1>2. QED BY <1>1, InvAlways, PTL

\* The assertions of queue_producer_write and queue_consumer_read never fail, when
\* the pipe takes every write whole.
THEOREM QueueResultsWhole ==
  ASSUME WritesAreWhole
  PROVE  Spec => []ResultsAreWhole
<1>1. QueueInv => ResultsAreWhole
  BY DEF QueueInv
<1>2. QED BY <1>1, InvAlways, PTL

LEMMA InvPopped == QueueInv => PoppedSound
<1>1. SUFFICES ASSUME QueueInv
               PROVE  PoppedSound
  OBVIOUS
<1>2. OnceInOrder
  <2>1. \A c \in Consumers : Increasing(cons[c].popped)
    BY <1>1, Consumer DEF Reading, Sound
  <2>2. ASSUME NEW c \in Consumers, NEW d \in Consumers, c # d
        PROVE  BytesOf(cons[c].popped) \cap BytesOf(cons[d].popped) = {}
    <3>1. Taken(cons[c]) \cap Taken(cons[d]) = {}
      BY <1>1, <2>2, InvParts DEF FlowKept
    <3>2. QED BY <3>1 DEF Taken
  <2>3. QED BY <2>1, <2>2 DEF OnceInOrder, Increasing
<1>3. ElementsWhole
  <2>1. \A c \in Consumers : Whole(cons[c].popped)
    BY <1>1, Consumer DEF Reading, Sound
  <2>2. QED BY <2>1 DEF ElementsWhole, Whole
<1>4. IdleByReopenOnly
  <2>1. ASSUME NEW p \in Producers, prod[p].open, prod[p].write = None
        PROVE  \/ prod[p].output = <<>> /\ prod[p].queued = <<>>
               \/ p \in reopened /\ prod[p].offset # 0
    <3>1. prod[p].output = <<>> /\ (prod[p].offset = 0 => prod[p].queued = <<>>)
      BY <1>1, <2>1, Producer DEF Writing
    <3>2. p \notin reopened => prod[p].offset = 0
      BY <1>1, <2>1, Others
    <3>3. QED BY <3>1, <3>2
  <2>2. QED BY <2>1 DEF IdleByReopenOnly
<1>5. QED BY <1>1, <1>2, <1>3, <1>4 DEF PoppedSound, QueueInv

\* Whatever producers and consumers share the pipe, are closed and opened again, and
\* however the pipe is read: whole elements are popped, each once and by one
\* consumer, in the order of its producer, and no producer keeps its elements for no
\* reason.
THEOREM QueuePoppedSound ==
  ASSUME WritesAreWhole
  PROVE  Spec => []PoppedSound
BY InvPopped, InvAlways, PTL

LEMMA InvInFlight == QueueInv => InFlightIntact
<1>1. SUFFICES ASSUME QueueInv, NEW p \in Producers, prod[p].write # None
               PROVE  LET r == prod[p] IN
                        /\ r.offset + Len(r.chunk) <= Len(r.output)
                        /\ SubSeq(r.output, r.offset + 1, r.offset + Len(r.chunk)) = r.chunk
  BY DEF InFlightIntact
<1> DEFINE r == prod[p]
           o == r.output
           b == Base(r)
           l == Len(r.output)
           i == r.offset
           n == Len(r.chunk)
           h == r.chunk
<1>2. /\ r \in ProducerStates /\ Filled(p, r) /\ Writing(r)
  BY <1>1, Producer
<1>3. /\ h = Run(p, b + i, n) /\ n \in Nat /\ i + n <= l
      /\ i \in Nat /\ l \in Nat /\ b \in Nat
  BY <1>1, <1>2, WritingIs, ProducerFields, BaseIs
<1>4. o = Run(p, b, l)
  BY <1>2 DEF Filled
<1>5. Part(o, i, i + n) = h
  <2> HIDE DEF o, b, l, i, n, h
  <2> DEFINE j == i + n
  <2>1. j \in Nat /\ i <= j /\ j <= l /\ j - i = n
    BY <1>3
  <2> HIDE DEF j
  <2>2. Part(Run(p, b, l), i, j) = Run(p, b + i, j - i)
    BY <1>1, <1>3, <2>1, RunParts
  <2>3. QED BY <1>3, <1>4, <2>1, <2>2 DEF j
<1>6. QED BY <1>3, <1>5 DEF Part

\* The bytes a producer has not written to the pipe are its last ones.
LEMMA UnsentIs ==
  ASSUME QueueInv, NEW p \in Producers, prod[p].open, p \notin reopened
  PROVE  /\ prod[p].pushed * ElementSize \in Nat /\ Sent(prod[p]) \in Nat
         /\ Sent(prod[p]) <= prod[p].pushed * ElementSize
         /\ Unsent(p) = {<<p, k>> : k \in Sent(prod[p]) + 1 .. prod[p].pushed * ElementSize}
<1> DEFINE r == prod[p]
           o == r.output
           b == Base(r)
           l == Len(r.output)
           m == Len(r.queued)
           w == Written(r)
           k == r.pushed * ElementSize
           a == Sent(r)
           u == Unsent(p)
<1>1. /\ r \in ProducerStates /\ Filled(p, r) /\ Writing(r) /\ a \in Nat
      /\ b \in Nat /\ l \in Nat /\ m \in Nat /\ b + l + m = k /\ k \in Nat
  BY Producer, BaseIs, ProducerFields
<1>2. w \in Nat /\ w <= l /\ a = b + w
  <2>1. CASE r.write = None
    <3>1. r.offset = 0
      BY <2>1, Others
    <3>2. w = 0
      BY <2>1, <3>1 DEF Written, None
    <3>3. QED BY <1>1, <2>1, <3>2 DEF Sent
  <2>2. CASE r.write # None
    <3>1. a = b + w
      BY <2>2 DEF Sent
    <3>2. w \in Nat
      BY <1>1, ProducerFields DEF Written
    <3>3. a <= b + l
      BY <1>1, WritingIs
    <3> HIDE DEF a, b, w, l
    <3>4. QED BY <1>1, <3>1, <3>2, <3>3
  <2>3. QED BY <2>1, <2>2
<1>3. o = Run(p, b, l) /\ r.queued = Run(p, b + l, m)
  BY <1>1 DEF Filled
<1>4. u = BytesOf(Part(o, w, l)) \cup BytesOf(r.queued)
  BY DEF Unsent, Part
<1> HIDE DEF r, o, b, l, m, w, k, a, u
<1>5. Part(o, w, l) = Run(p, b + w, l - w)
  BY <1>1, <1>2, <1>3, RunParts
<1>6. l - w \in Nat /\ b + w \in Nat /\ b + l \in Nat
  BY <1>1, <1>2
<1>7. /\ BytesOf(Run(p, b + w, l - w)) = {<<p, j>> : j \in b + w + 1 .. b + w + (l - w)}
      /\ BytesOf(Run(p, b + l, m)) = {<<p, j>> : j \in b + l + 1 .. b + l + m}
  BY <1>1, <1>6, RunBytes
<1>8. a + 1 .. k = (b + w + 1 .. b + w + (l - w)) \cup (b + l + 1 .. b + l + m)
  BY <1>1, <1>2
<1>9. u = {<<p, j>> : j \in a + 1 .. k}
  BY <1>3, <1>4, <1>5, <1>7, <1>8
<1>10. a <= k
  BY <1>1, <1>2
<1>11. QED BY <1>1, <1>9, <1>10 DEF a, k, u, r

LEMMA InvNothingLost == QueueInv /\ reopened = {} => NothingLost
<1>1. SUFFICES ASSUME QueueInv, NothingClosed
               PROVE  UNION {BytesOf(Run(p, 0, prod[p].pushed * ElementSize)) : p \in Producers}
                        = BytesOf(pipe) \cup (UNION {Unsent(p) : p \in Producers})
                            \cup (UNION {InHand(c) \cup BytesOf(cons[c].popped) :
                                            c \in Consumers})
  BY DEF NothingLost, NothingClosed
<1> DEFINE K(p) == prod[p].pushed * ElementSize
           S(p) == Sent(prod[p])
           U(p) == Unsent(p)
           B(p) == BytesOf(Run(p, 0, K(p)))
<1>2. ASSUME NEW c \in Consumers
      PROVE  InHand(c) \cup BytesOf(cons[c].popped) = Taken(cons[c])
  <2> DEFINE r == cons[c]
             q == SubSeq(r.input, r.at + 1, Len(r.input))
  <2>1. r \in ConsumerStates /\ Reading(r) /\ r.at \in Nat /\ r.input \in Seq(Bytes)
    BY <1>1, Consumer, ConsumerFields
  <2>2. ~r.aborted
    BY <1>1, Others DEF NothingClosed
  <2>3. InHand(c) = IF r.at > 0 \/ r.read > 0 THEN BytesOf(q) ELSE {}
    BY DEF InHand
  <2> HIDE DEF r
  <2>4. BytesOf(Rest(r)) = IF r.at > 0 \/ r.read > 0 THEN BytesOf(q) ELSE {}
    <3>1. CASE r.at > 0
      BY <2>2, <3>1 DEF Rest
    <3>2. CASE ~(r.at > 0) /\ r.read > 0
      <4>1. Rest(r) = r.input
        BY <3>2 DEF Rest
      <4>2. r.at = 0
        BY <2>1, <3>2
      <4>3. q = r.input
        BY <2>1, <4>2, WholePart DEF Part
      <4>4. QED BY <3>2, <4>1, <4>3
    <3>3. CASE ~(r.at > 0) /\ ~(r.read > 0)
      BY <3>3, SoundEmpty DEF Rest
    <3>4. QED BY <3>1, <3>2, <3>3
  <2>5. QED BY <2>3, <2>4 DEF Taken, r
<1>3. ASSUME NEW p \in Producers
      PROVE  /\ K(p) \in Nat /\ S(p) \in Nat /\ S(p) <= K(p)
             /\ U(p) = {<<p, k>> : k \in S(p) + 1 .. K(p)}
             /\ \A k \in 1 .. S(p) : <<p, k>> \in Flowing
  <2>1. prod[p].open /\ p \notin reopened
    BY <1>1 DEF NothingClosed
  <2>2. \A k \in 1 .. S(p) : <<p, k>> \in Flowing
    BY <1>1, InvParts DEF Covered
  <2>3. QED BY <1>1, <2>1, <2>2, UnsentIs
<1>4. \A x \in Flowing : x \in Bytes /\ x[2] <= S(x[1])
  BY <1>1, InvParts, Pipe DEF FlowKept
<1> HIDE DEF K, S, U
<1>5. ASSUME NEW p \in Producers
      PROVE  B(p) = {<<p, k>> : k \in 1 .. K(p)}
  <2>1. K(p) \in Nat /\ 0 + 1 = 1 /\ 0 + K(p) = K(p)
    BY <1>3
  <2>2. QED BY <2>1, RunBytes
<1> HIDE DEF B
<1>6. ASSUME NEW x \in Flowing
      PROVE  \E p \in Producers : x \in B(p)
  <2>1. x = <<x[1], x[2]>> /\ x[1] \in Producers /\ x[2] \in Nat \ {0} /\ x[2] <= S(x[1])
    BY <1>4, BytesTyped
  <2>2. x[2] \in 1 .. K(x[1])
    BY <1>3, <2>1
  <2>3. x \in B(x[1])
    BY <1>5, <2>1, <2>2
  <2>4. QED BY <2>1, <2>3
<1>7. ASSUME NEW p \in Producers
      PROVE  U(p) \subseteq B(p) /\ B(p) \subseteq U(p) \cup Flowing
  <2>1. 1 .. K(p) = (1 .. S(p)) \cup (S(p) + 1 .. K(p))
    BY <1>3
  <2>2. QED BY <1>3, <1>5, <2>1
<1>8. UNION {B(p) : p \in Producers} = Flowing \cup (UNION {U(p) : p \in Producers})
  BY <1>6, <1>7
<1>9. UNION {Taken(cons[c]) : c \in Consumers}
        = UNION {InHand(c) \cup BytesOf(cons[c].popped) : c \in Consumers}
  BY <1>2
<1>10. UNION {B(p) : p \in Producers}
        = BytesOf(pipe) \cup (UNION {U(p) : p \in Producers})
            \cup (UNION {InHand(c) \cup BytesOf(cons[c].popped) : c \in Consumers})
  BY <1>8, <1>9 DEF Flowing
<1>11. QED BY <1>10 DEF B, U, K

\* Bytes that a write in flight was submitted with stay where they are in output.
THEOREM QueueInFlightIntact ==
  ASSUME WritesAreWhole
  PROVE  Spec => []InFlightIntact
BY InvInFlight, InvAlways, PTL

LEMMA NoneReopened ==
  ASSUME MaxReopens = 0, reopened = {}, [Next]_vars
  PROVE  reopened' = {}
<1>1. \A x : ~MayReopen(x)
  <2>1. Cardinality(reopened) = 0
    BY FS_EmptySet
  <2>2. QED BY <2>1 DEF MayReopen
<1>2. \A p : ~ProducerOpen(p)
  BY <1>1 DEF ProducerOpen
<1>3. \A c : ~ConsumerOpen(c)
  BY <1>1 DEF ConsumerOpen
<1>4. reopened' = reopened
  BY <1>2, <1>3 DEF Next, vars, ProducerApi, ConsumerApi, ProducerLoop, ConsumerLoop, Push,
     PushSync, ProducerClose, ProducerWrite, KernelWrite, KernelOrphanWrite, Pop, PopSync,
     ConsumerClose, ConsumerRead, Return, KernelRead, KernelOrphanRead, KernelInterrupt
<1>5. QED BY <1>4

\* Until a producer or a consumer is opened again: as long as none is closed, no byte
\* that was pushed is lost, while output and output_queued take turns and batches are
\* read and handed over, whatever the pipe takes of them; and what is written stays
\* as it was submitted.
THEOREM QueueNothingLost ==
  ASSUME WritesAreWhole
  PROVE  Spec => [](reopened = {} => BuffersSound)
<1>1. QueueInv => (reopened = {} => BuffersSound)
  BY InvInFlight, InvNothingLost DEF BuffersSound
<1>2. QED BY <1>1, InvAlways, PTL

\* The same without any condition, where nothing is opened again.
THEOREM QueueBuffersSound ==
  ASSUME WritesAreWhole, MaxReopens = 0
  PROVE  Spec => []BuffersSound
<1>1. Init => reopened = {}
  BY DEF Init
<1>2. reopened = {} /\ [Next]_vars => (reopened = {})'
  BY NoneReopened
<1>3. Spec => [](reopened = {})
  BY <1>1, <1>2, PTL DEF Spec
<1>4. QED BY <1>3, QueueNothingLost, PTL

\* After queue_consumer_close nothing is handed over, also when it was called in a
\* callback in the middle of a batch, until the consumer is opened again: the handler
\* that is running is told.  The flag of a handler that has returned is written only by
\* the close of a consumer that was opened again.
THEOREM QueueClosedIsSilent ==
  ASSUME WritesAreWhole
  PROVE  Spec => ClosedIsSilent
<1> DEFINE Told(c) ==
             /\ ~cons[c].open => cons'[c].popped = cons[c].popped
             /\ cons[c].open /\ ~cons'[c].open => (cons'[c].aborted <=> cons[c].at > 0)
           Silent ==
             \A c \in Consumers :
               /\ ~cons[c].open => cons'[c].popped = cons[c].popped
               /\ cons[c].open /\ ~cons'[c].open => (cons'[c].aborted <=> cons[c].at > 0)
               /\ cons'[c].wild => c \in reopened'
<1>1. QueueInv /\ [Next]_vars => [Silent]_vars
  <2> SUFFICES ASSUME QueueInv, [Next]_vars
               PROVE  Silent
    OBVIOUS
  <2>1. Steps /\ QueueInv' /\ cons \in [Consumers -> ConsumerStates]
    BY InvNext, Others
  <2>2. \A c \in Consumers : cons'[c].wild => c \in reopened'
    BY <2>1, InvPartsNext DEF ClosedOnly
  <2>3. CASE UNCHANGED <<prod, cons, pipe>> \/ \E p \in Producers : Sending(p)
    BY <2>2, <2>3 DEF Sending
  <2>4. ASSUME NEW d \in Consumers, Passed(d)
        PROVE  \A c \in Consumers : Told(c)
    <3>1. PICK x \in ConsumerStates :
            cons' = [cons EXCEPT ![d] = x] /\ Passes(d, cons[d], x)
      BY <2>4 DEF Passed
    <3>2. cons'[d] = x /\ \A c \in Consumers : c # d => cons'[c] = cons[c]
      BY <2>1, <3>1
    <3>3. Told(d)
      BY <3>1, <3>2 DEF Passes
    <3>4. QED BY <3>2, <3>3
  <2>5. QED BY <2>1, <2>2, <2>3, <2>4 DEF Steps
<1>2. QED BY <1>1, InvAlways, PTL DEF Spec, ClosedIsSilent

-----------------------------------------------------------------------------
(* One producer and one consumer. *)

LEMMA RunStart ==
  ASSUME NEW p \in Producers, NEW s \in Seq(Bytes), NEW t \in Seq(Bytes),
         s \o t = Run(p, 0, Len(s \o t))
  PROVE  s = Run(p, 0, Len(s))
<1> DEFINE n == Len(s)
           m == Len(s \o t)
           u == Run(p, 0, n)
<1>1. n \in Nat /\ DOMAIN s = 1 .. n /\ m \in Nat /\ n <= m
  <2>1. n \in Nat /\ Len(t) \in Nat /\ m = n + Len(t)
    BY Joined
  <2>2. QED BY <2>1, Members
<1>2. \A k \in 1 .. n : (s \o t)[k] = s[k]
  <2>1. \A k \in DOMAIN s : (s \o t)[k] = s[k]
    BY Joined
  <2>2. QED BY <1>1, <2>1
<1>3. \A k \in 1 .. n : (s \o t)[k] = <<p, 0 + k>>
  <2> HIDE DEF m
  <2>1. \A k \in 1 .. m : Run(p, 0, m)[k] = <<p, 0 + k>>
    BY <1>1, RunIs
  <2>2. \A k \in 1 .. n : Run(p, 0, m)[k] = <<p, 0 + k>>
    BY <1>1, <2>1
  <2>3. s \o t = Run(p, 0, m)
    BY DEF m
  <2>4. QED BY <2>2, <2>3, Zenon
<1>4. /\ u \in Seq(Bytes) /\ Len(u) = n /\ \A k \in 1 .. n : u[k] = <<p, 0 + k>>
  BY <1>1, RunIs, RunTyped
<1>5. \A k \in 1 .. n : s[k] = u[k]
  BY <1>2, <1>3, <1>4, Zenon
<1> HIDE DEF n, u
<1>6. s = u
  BY <1>1, <1>4, <1>5, SeqEqual DEF n
<1>7. QED BY <1>6 DEF u, n

\* A line of three parts, and a part that goes on with the next bytes of p.
Line(a, b, q) == a \o (b \o q)
Further(q, p, n, m) == q \o Run(p, n, m)

LEMMA LineGoesOn ==
  ASSUME NEW p \in Producers, NEW a \in Seq(Bytes), NEW b \in Seq(Bytes),
         NEW q \in Seq(Bytes), NEW m \in Nat, NEW n \in Nat,
         Line(a, b, q) = Run(p, 0, n)
  PROVE  Line(a, b, Further(q, p, n, m)) = Run(p, 0, n + m)
<1> DEFINE t == Run(p, n, m)
           u == b \o q
<1>1. /\ t \in Seq(Bytes) /\ u \in Seq(Bytes)
      /\ a \in Seq(Bytes) /\ b \in Seq(Bytes) /\ q \in Seq(Bytes)
  BY RunTyped, Joined
<1>2. a \o u = Run(p, 0, n)
  BY DEF Line
<1>3. Run(p, 0, n) \o t = Run(p, 0, n + m)
  <2>1. Run(p, 0, n) \o Run(p, 0 + n, m) = Run(p, 0, n + m)
    BY RunJoins
  <2>2. 0 + n = n
    OBVIOUS
  <2>3. QED BY <2>1, <2>2
<1> HIDE DEF t
<1>4. u \o t = b \o (q \o t)
  BY ONLY <1>1, LinesAssociate, Zenon
<1> HIDE DEF u
<1>5. (a \o u) \o t = a \o (u \o t)
  BY ONLY <1>1, LinesAssociate, Zenon
<1>6. a \o (b \o (q \o t)) = Run(p, 0, n + m)
  BY ONLY <1>2, <1>3, <1>4, <1>5, Zenon
<1>7. QED BY ONLY <1>6, Zenon DEF t, Line, Further

LEMMA InLineParts ==
  ASSUME NEW p \in Producers, NEW r, NEW s, NEW q, NEW n \in Nat,
         s.popped = Run(p, 0, Len(s.popped)),
         s.open => /\ s.popped \o (Rest(s) \o q) = Run(p, 0, n)
                   /\ r.open => n = Sent(r)
                   /\ \/ r.orphans = <<>>
                      \/ \E l \in Nat : r.orphans = <<Run(p, n, l)>>
  PROVE  InLine(p, r, s, q)
<1>1. Len(Run(p, 0, n)) = n
  BY RunIs
<1>2. ASSUME NEW l \in Nat, r.orphans = <<Run(p, n, l)>>
      PROVE  r.orphans = <<Run(p, n, Len(r.orphans[1]))>>
  <2> DEFINE h == Run(p, n, l)
  <2>1. Len(h) = l
    BY RunIs
  <2>2. r.orphans = <<h>>
    BY <1>2
  <2> HIDE DEF h
  <2>3. Len(r.orphans[1]) = l
    BY <2>1, <2>2
  <2>4. QED BY <2>2, <2>3, Zenon DEF h
<1>3. QED BY <1>1, <1>2 DEF InLine

\* A step of the producer, of which x comes and q becomes d.
LEMMA ProducerInLine ==
  ASSUME QueueInv, QueueInv', NEW p \in Producers, NEW c \in Consumers, reopened = {},
         reopened' = {}, Lined(p, c), Sending(p)
  PROVE  Lined(p, c)'
<1> DEFINE r == prod[p]
           s == cons[c]
           n == Len(s.popped \o (Rest(s) \o pipe))
<1>1. PICK x \in ProducerStates : prod' = [prod EXCEPT ![p] = x] /\ Sends(p, r, x)
  BY DEF Sending
<1>2. prod'[p] = x /\ cons' = cons
  BY <1>1, Others DEF Sending
<1>3. /\ r \in ProducerStates /\ s \in ConsumerStates /\ Reading(s)
      /\ s.popped \in Seq(Bytes) /\ Rest(s) \in Seq(Bytes) /\ pipe \in Seq(Bytes)
      /\ Sent(r) \in Nat /\ r.orphans \in Seq(Seq(Bytes)) /\ Len(r.chunk) \in Nat
      /\ r.open => r.orphans = <<>>
  BY Producer, Consumer, ConsumerFields, ProducerFields, RestIs, Pipe, Others
<1>4. n \in Nat
  <2> DEFINE a == s.popped
             b == Rest(s)
  <2>1. a \in Seq(Bytes) /\ b \in Seq(Bytes)
    BY <1>3
  <2> HIDE DEF a, b
  <2>2. b \o pipe \in Seq(Bytes)
    BY <1>3, <2>1, Joined
  <2>3. a \o (b \o pipe) \in Seq(Bytes)
    BY <2>1, <2>2, Joined
  <2>4. Len(a \o (b \o pipe)) \in Nat
    BY <2>3
  <2>5. QED BY <2>4, Zenon DEF a, b
<1>5. /\ s.popped = Run(p, 0, Len(s.popped))
      /\ s.open => /\ s.popped \o (Rest(s) \o pipe) = Run(p, 0, n)
                   /\ r.open => n = Sent(r)
                   /\ r.orphans # <<>> => r.orphans = <<Run(p, n, Len(r.orphans[1]))>>
  BY DEF Lined, InLine
<1> HIDE DEF r, s, n
<1> DEFINE t(m) == pipe \o Run(p, n, m)
<1>a. ASSUME NEW m \in Nat, s.open
      PROVE  s.popped \o (Rest(s) \o t(m)) = Run(p, 0, n + m) /\ n + m \in Nat
  <2>1. n + m \in Nat
    BY <1>4
  <2>2. s.popped \o (Rest(s) \o (pipe \o Run(p, n, m))) = Run(p, 0, n + m)
    <3> DEFINE a == s.popped
               b == Rest(s)
    <3>1. a \in Seq(Bytes) /\ b \in Seq(Bytes) /\ pipe \in Seq(Bytes)
      BY <1>3
    <3>2. a \o (b \o pipe) = Run(p, 0, n)
      BY <1>5, <1>a
    <3> HIDE DEF a, b
    <3>3. Line(a, b, pipe) = Run(p, 0, n)
      BY <3>2, Zenon DEF Line
    <3>4. Line(a, b, Further(pipe, p, n, m)) = Run(p, 0, n + m)
      BY <1>4, <1>a, <3>1, <3>3, LineGoesOn
    <3>5. QED BY <3>4, Zenon DEF a, b, Line, Further
  <2>3. QED BY <2>1, <2>2 DEF t
<1> HIDE DEF t
<1>6. CASE ~s.open
  <2>1. InLine(p, x, s, pipe')
    BY <1>4, <1>5, <1>6, InLineParts
  <2>2. QED BY <1>2, <2>1 DEF Lined, s
<1>7. ASSUME s.open, NEW m \in Nat, pipe' = pipe \o Run(p, n, m), r.open, x.open,
             Sent(x) = n + m, x.orphans = <<>>
      PROVE  Lined(p, c)'
  <2>0. pipe' = t(m)
    BY <1>7 DEF t
  <2>1. s.popped \o (Rest(s) \o pipe') = Run(p, 0, n + m) /\ n + m \in Nat
    BY <1>a, <1>7, <2>0, Zenon
  <2>2. InLine(p, x, s, pipe')
    BY <1>5, <1>7, <2>1, InLineParts
  <2>3. QED BY <1>2, <2>2 DEF Lined, s
<1>8. ASSUME s.open, ~x.open, pipe' = pipe,
             x.orphans = <<>> \/ \E l \in Nat : x.orphans = <<Run(p, n, l)>>
      PROVE  Lined(p, c)'
  <2>1. InLine(p, x, s, pipe')
    BY <1>4, <1>5, <1>8, InLineParts
  <2>2. QED BY <1>2, <2>1 DEF Lined, s
<1>9. ASSUME s.open, ~x.open, NEW m \in Nat, pipe' = pipe \o Run(p, n, m),
             x.orphans = <<>>
      PROVE  Lined(p, c)'
  <2>0. pipe' = t(m)
    BY <1>9 DEF t
  <2>1. s.popped \o (Rest(s) \o pipe') = Run(p, 0, n + m) /\ n + m \in Nat
    BY <1>a, <1>9, <2>0, Zenon
  <2>2. InLine(p, x, s, pipe')
    BY <1>5, <1>9, <2>1, InLineParts
  <2>3. QED BY <1>2, <2>2 DEF Lined, s
<1>10. ASSUME s.open, r.open, x.open, x.orphans = r.orphans, NEW m \in Nat,
              Sent(x) = Sent(r) + m, pipe' = pipe \o Run(p, Sent(r), m)
       PROVE  Lined(p, c)'
  BY <1>3, <1>5, <1>7, <1>10
<1>11. ASSUME s.open, r.open, ~x.open, pipe' = pipe,
              \/ x.orphans = r.orphans
              \/ x.orphans = Append(r.orphans, Run(p, Sent(r), Len(r.chunk)))
       PROVE  Lined(p, c)'
  <2>1. r.orphans = <<>> /\ Sent(r) = n
    BY <1>3, <1>5, <1>11
  <2>2. Append(<<>>, Run(p, n, Len(r.chunk))) = <<Run(p, n, Len(r.chunk))>>
    OBVIOUS
  <2>3. x.orphans = <<>> \/ x.orphans = <<Run(p, n, Len(r.chunk))>>
    BY <1>11, <2>1, <2>2
  <2>4. QED BY <1>3, <1>8, <1>11, <2>3
<1>12. ASSUME s.open, ~x.open, r.orphans # <<>>, x.orphans = Tail(r.orphans),
              NEW m \in 0 .. Len(Head(r.orphans)),
              pipe' = pipe \o SubSeq(Head(r.orphans), 1, m)
       PROVE  Lined(p, c)'
  <2> DEFINE h == r.orphans[1]
             l == Len(h)
  <2>1. r.orphans = <<Run(p, n, l)>>
    BY <1>5, <1>12
  <2>2. h \in Seq(Bytes) /\ l \in Nat
    <3>1. 1 \in DOMAIN r.orphans
      BY <2>1
    <3>2. QED BY <1>3, <3>1, Members
  <2> HIDE DEF h, l
  <2>3. Head(r.orphans) = Run(p, n, l) /\ Tail(r.orphans) = <<>>
    BY <2>1
  <2>4. Len(Run(p, n, l)) = l
    BY <1>4, <2>2, RunIs
  <2>5. m \in Nat /\ m <= l
    BY <1>12, <2>2, <2>3, <2>4
  <2>6. Part(Run(p, n, l), 0, m) = Run(p, n + 0, m - 0)
    BY <1>4, <2>2, <2>5, RunParts
  <2>7. n + 0 = n /\ m - 0 = m /\ 0 + 1 = 1
    BY <1>4, <2>5
  <2>8. SubSeq(Run(p, n, l), 1, m) = Run(p, n, m)
    BY <2>6, <2>7 DEF Part
  <2>9. pipe' = pipe \o Run(p, n, m) /\ x.orphans = <<>>
    BY <1>12, <2>3, <2>8
  <2>10. QED BY <1>9, <1>12, <2>5, <2>9
<1>13. CASE s.open
  <2>1. p \notin reopened'
    OBVIOUS
  <2>2. QED BY <1>1, <1>10, <1>11, <1>12, <1>13, <2>1 DEF Sends
<1>14. QED BY <1>6, <1>13

\* A step of the consumer, of which x comes.
LEMMA ConsumerInLine ==
  ASSUME QueueInv, QueueInv', NEW p \in Producers, NEW c \in Consumers, reopened = {},
         reopened' = {}, Lined(p, c), Passed(c)
  PROVE  Lined(p, c)'
<1> DEFINE r == prod[p]
           s == cons[c]
           n == Len(s.popped \o (Rest(s) \o pipe))
<1>1. PICK x \in ConsumerStates : cons' = [cons EXCEPT ![c] = x] /\ Passes(c, s, x)
  BY DEF Passed
<1>2. prod' = prod /\ cons'[c] = x
  BY <1>1, Others DEF Passed
<1>3. Reading(x) /\ pipe' \in Seq(Bytes)
  BY <1>2 DEF QueueInv, ConsumersKept, TypeOK
<1>4. /\ s \in ConsumerStates /\ Reading(s) /\ s.popped \in Seq(Bytes)
      /\ Rest(s) \in Seq(Bytes) /\ pipe \in Seq(Bytes)
      /\ x.popped \in Seq(Bytes) /\ Rest(x) \in Seq(Bytes)
      /\ r.orphans \in Seq(Seq(Bytes))
  BY <1>3, Producer, Consumer, ConsumerFields, ProducerFields, RestIs, Pipe
<1>5. n \in Nat
  <2> DEFINE a == s.popped
             b == Rest(s)
  <2>1. a \in Seq(Bytes) /\ b \in Seq(Bytes)
    BY <1>4
  <2> HIDE DEF a, b
  <2>2. b \o pipe \in Seq(Bytes)
    BY <1>4, <2>1, Joined
  <2>3. a \o (b \o pipe) \in Seq(Bytes)
    BY <2>1, <2>2, Joined
  <2>4. Len(a \o (b \o pipe)) \in Nat
    BY <2>3
  <2>5. QED BY <2>4, Zenon DEF a, b
<1>6. /\ s.popped = Run(p, 0, Len(s.popped))
      /\ s.open => /\ s.popped \o (Rest(s) \o pipe) = Run(p, 0, n)
                   /\ r.open => n = Sent(r)
                   /\ r.orphans # <<>> => r.orphans = <<Run(p, n, Len(r.orphans[1]))>>
  BY DEF Lined, InLine
<1>7. /\ ~s.open \/ ~x.open => x.popped = s.popped
      /\ x.open => s.open /\ x.popped \o (Rest(x) \o pipe') = s.popped \o (Rest(s) \o pipe)
  BY <1>1 DEF Passes
<1>8. Len(r.orphans[1]) \in Nat \/ r.orphans = <<>>
  <2>1. ASSUME r.orphans # <<>>
        PROVE  1 \in DOMAIN r.orphans
    BY <1>4, <2>1
  <2>2. QED BY <1>4, <2>1, Members
<1> HIDE DEF r, s, n
<1>9. CASE ~x.open
  <2>1. x.popped = s.popped
    BY <1>7, <1>9
  <2>2. x.popped = Run(p, 0, Len(x.popped))
    BY <1>6, <2>1, Zenon
  <2>3. InLine(p, r, x, pipe')
    BY <1>5, <1>9, <2>2, InLineParts
  <2>4. QED BY <1>2, <2>3 DEF Lined, r
<1>10. CASE x.open
  <2> DEFINE a == x.popped
             b == Rest(x)
  <2>1. s.open
    BY <1>7, <1>10
  <2>2. a \o (b \o pipe') = Run(p, 0, n)
    BY <1>6, <1>7, <1>10, <2>1, Zenon
  <2>3. a \in Seq(Bytes) /\ b \in Seq(Bytes)
    BY <1>4
  <2> HIDE DEF a, b
  <2>4. Len(Run(p, 0, n)) = n
    BY <1>5, RunIs
  <2>5. a \o (b \o pipe') = Run(p, 0, Len(a \o (b \o pipe')))
    BY <2>2, <2>4, Zenon
  <2>6. b \o pipe' \in Seq(Bytes)
    BY <1>3, <2>3, Joined
  <2>7. a = Run(p, 0, Len(a))
    BY <2>3, <2>5, <2>6, RunStart
  <2>8. r.orphans = <<>> \/ \E l \in Nat : r.orphans = <<Run(p, n, l)>>
    BY <1>6, <1>8, <2>1
  <2>9. x.popped = Run(p, 0, Len(x.popped))
    BY <2>7, Zenon DEF a
  <2>10. x.popped \o (Rest(x) \o pipe') = Run(p, 0, n)
    BY <2>2, Zenon DEF a, b
  <2>11. InLine(p, r, x, pipe')
    BY <1>5, <1>6, <2>1, <2>8, <2>9, <2>10, InLineParts
  <2>12. QED BY <1>2, <2>11 DEF Lined, r
<1>11. QED BY <1>9, <1>10

LEMMA LinedInit ==
  ASSUME Init, NEW p \in Producers, NEW c \in Consumers
  PROVE  Lined(p, c)
<1>1. /\ prod[p].orphans = <<>> /\ prod[p].write = None /\ prod[p].output = <<>>
      /\ prod[p].queued = <<>> /\ prod[p].pushed = 0
      /\ cons[c].popped = <<>> /\ cons[c].at = 0 /\ cons[c].read = None /\ pipe = <<>>
  BY DEF Init
<1>2. Run(p, 0, 0) = <<>> /\ Len(<<>>) = 0
  BY RunEmpty
<1>3. Rest(cons[c]) = <<>>
  BY <1>1 DEF Rest, None
<1>4. Sent(prod[p]) = 0
  BY <1>1, <1>2, Size DEF Sent, Base
<1>5. <<>> \o (<<>> \o <<>>) = <<>>
  OBVIOUS
<1>6. cons[c].popped \o (Rest(cons[c]) \o pipe) = Run(p, 0, 0)
  BY <1>1, <1>2, <1>3, <1>5
<1>7. cons[c].popped = Run(p, 0, Len(cons[c].popped))
  BY <1>1, <1>2
<1>8. QED BY <1>1, <1>4, <1>6, <1>7, InLineParts DEF Lined

\* What was handed over was pushed before.
LEMMA PoppedWasPushed ==
  ASSUME QueueInv, NEW p \in Producers, NEW c \in Consumers, Lined(p, c)
  PROVE  Len(cons[c].popped) <= prod[p].pushed * ElementSize
<1> DEFINE s == cons[c].popped
           r == prod[p]
           n == Len(s)
           most == r.pushed * ElementSize
<1>1. s \in Seq(Bytes) /\ n \in Nat /\ r \in ProducerStates /\ Filled(p, r) /\ Writing(r)
  BY Producer, Consumer, ConsumerFields
<1>2. Sent(r) \in Nat /\ Sent(r) <= most /\ most \in Nat
  <2>1. Base(r) + Len(r.output) <= most
    <3>1. Base(r) + Len(r.output) + Len(r.queued) = most /\ Base(r) \in Nat
      BY <1>1, BaseIs
    <3>2. Len(r.output) \in Nat /\ Len(r.queued) \in Nat /\ most \in Nat
      BY <1>1, ProducerFields
    <3> HIDE DEF most
    <3>3. QED BY <3>1, <3>2
  <2>2. Sent(r) <= Base(r) + Len(r.output) /\ Base(r) \in Nat /\ Sent(r) \in Nat
    BY <1>1, BaseIs, WritingIs
  <2>3. Len(r.output) \in Nat /\ most \in Nat
    BY <1>1, ProducerFields
  <2> HIDE DEF most
  <2>4. QED BY <2>1, <2>2, <2>3
<1>3. s = Run(p, 0, n)
  BY DEF Lined, InLine
<1> HIDE DEF most
<1>4. CASE n = 0
  BY <1>2, <1>4 DEF most
<1>5. CASE n # 0
  <2>1. n \in 1 .. n /\ n \in DOMAIN s
    BY <1>1, <1>5
  <2>2. Run(p, 0, n)[n] = <<p, 0 + n>>
    <3> HIDE DEF n
    <3>1. \A k \in 1 .. n : Run(p, 0, n)[k] = <<p, 0 + k>>
      BY <1>1, RunIs
    <3>2. QED BY <2>1, <3>1
  <2>3. <<p, n>> \in BytesOf(s)
    BY <1>1, <1>3, <2>1, <2>2 DEF BytesOf
  <2>4. <<p, n>> \in Flowing
    BY <2>3 DEF Flowing, Taken
  <2>5. \A x \in Flowing : x[2] <= Sent(prod[x[1]])
    BY DEF QueueInv, FlowKept
  <2>6. n <= Sent(r)
    BY <2>4, <2>5
  <2>7. QED BY <1>1, <1>2, <2>6 DEF most
<1>6. QED BY <1>4, <1>5

\* What the proof of the refinement needs of a state.
Between(p, c) ==
  /\ QueueInv /\ reopened = {} /\ Lined(p, c)
  /\ Len(cons[c].popped) <= prod[p].pushed * ElementSize

LEMMA LinedNext ==
  ASSUME MaxReopens = 0, NEW p, NEW c, Producers = {p}, Consumers = {c},
         QueueInv, QueueInv', reopened = {}, Lined(p, c), [Next]_vars, Steps
  PROVE  reopened' = {} /\ Lined(p, c)'
<1>1. p \in Producers /\ c \in Consumers
  OBVIOUS
<1>2. reopened' = {}
  BY NoneReopened
<1>3. CASE UNCHANGED <<prod, cons, pipe>>
  BY <1>2, <1>3 DEF Lined
<1>4. ASSUME NEW a \in Producers, Sending(a)
      PROVE  Lined(p, c)'
  <2>1. a = p /\ Sending(p)
    BY <1>4
  <2>2. QED BY <1>1, <1>2, <2>1, ProducerInLine
<1>5. ASSUME NEW a \in Consumers, Passed(a)
      PROVE  Lined(p, c)'
  <2>1. a = c /\ Passed(c)
    BY <1>5
  <2>2. QED BY <1>1, <1>2, <2>1, ConsumerInLine
<1>6. QED BY <1>2, <1>3, <1>4, <1>5 DEF Steps

LEMMA BetweenAlways ==
  ASSUME WritesAreWhole, MaxReopens = 0, NEW p, NEW c, Producers = {p}, Consumers = {c}
  PROVE  Spec => []Between(p, c)
<1> DEFINE I == QueueInv
           L == reopened = {} /\ Lined(p, c)
           W == Len(cons[c].popped) <= prod[p].pushed * ElementSize
<1>1. p \in Producers /\ c \in Consumers
  OBVIOUS
<1>2. Init => L
  BY <1>1, LinedInit DEF Init
<1>3. I /\ I' /\ L /\ [Next]_vars => L'
  BY InvNext, LinedNext
<1>4. I /\ L => W
  BY <1>1, PoppedWasPushed
<1>5. I /\ L /\ W => Between(p, c)
  BY DEF Between
<1>6. Spec => []I
  BY InvAlways
<1> HIDE DEF I, L, W
<1>7. Spec => []L
  BY <1>2, <1>3, <1>6, PTL DEF Spec
<1>8. QED BY <1>4, <1>5, <1>6, <1>7, PTL

LEMMA NumbersOfRun ==
  ASSUME NEW p \in Producers, NEW n \in Nat
  PROVE  LET s == Run(p, 0, n) IN [k \in DOMAIN s |-> s[k][2]] = Alone!Numbers(0, n)
<1> DEFINE s == Run(p, 0, n)
<1>1. DOMAIN s = 1 .. n /\ \A k \in 1 .. n : s[k] = <<p, 0 + k>>
  BY RunIs
<1>2. \A k \in 1 .. n : s[k][2] = 0 + k
  BY <1>1
<1>3. QED BY <1>1, <1>2 DEF Alone!Numbers

LEMMA NumbersJoin ==
  ASSUME NEW a \in Nat, NEW n \in Nat
  PROVE  /\ Alone!Numbers(0, a + n) = Alone!Numbers(0, a) \o Alone!Numbers(a, n)
         /\ Len(Alone!Numbers(0, a)) = a
<1> DEFINE s == Alone!Numbers(0, a)
           t == Alone!Numbers(a, n)
           u == Alone!Numbers(0, a + n)
<1>1. /\ s \in Seq(Nat) /\ Len(s) = a /\ \A k \in 1 .. a : s[k] = k
      /\ t \in Seq(Nat) /\ Len(t) = n /\ \A k \in 1 .. n : t[k] = a + k
      /\ u \in Seq(Nat) /\ Len(u) = a + n /\ \A k \in 1 .. a + n : u[k] = k
  BY DEF Alone!Numbers
<1> HIDE DEF s, t, u
<1>2. s \o t \in Seq(Nat) /\ Len(s \o t) = a + n
  BY <1>1
<1>3. \A k \in 1 .. a + n : (s \o t)[k] = IF k <= a THEN s[k] ELSE t[k - a]
  BY <1>1
<1>4. \A k \in 1 .. a + n : (s \o t)[k] = k
  BY <1>1, <1>3
<1>5. u = s \o t
  BY <1>1, <1>2, <1>4, SeqEqual
<1>6. QED BY <1>1, <1>5 DEF s, t, u

\* A producer and a consumer that have the pipe to themselves, and are not opened
\* again, implement a FIFO channel: what is handed over are the bytes that were
\* pushed, in their order, without a gap and each once, however the pipe cuts what
\* is written and read, and also when one of them is closed.
THEOREM QueueImplementsChannel ==
  ASSUME WritesAreWhole, MaxReopens = 0, NEW p, NEW c, Producers = {p}, Consumers = {c}
  PROVE  Spec => ImplementsChannel
<1>1. /\ BytesPushed = prod[p].pushed * ElementSize
      /\ BytesPopped = [k \in DOMAIN cons[c].popped |-> cons[c].popped[k][2]]
      /\ BytesPushed' = prod'[p].pushed * ElementSize
      /\ BytesPopped' = [k \in DOMAIN cons'[c].popped |-> cons'[c].popped[k][2]]
  BY DEF BytesPushed, BytesPopped
<1>2. Init => Alone!Init
  <2> SUFFICES ASSUME Init
               PROVE  BytesPushed = 0 /\ BytesPopped = <<>>
    BY DEF Alone!Init
  <2>1. prod[p].pushed = 0 /\ cons[c].popped = <<>>
    BY DEF Init
  <2>2. DOMAIN cons[c].popped = {}
    BY <2>1
  <2>3. BytesPopped = <<>>
    BY <1>1, <2>2
  <2>4. QED BY <1>1, <2>1, <2>3, Size
<1>3. Between(p, c) /\ Between(p, c)' /\ [Next]_vars
        => [Alone!Next]_<<BytesPushed, BytesPopped>>
  <2> SUFFICES ASSUME Between(p, c), Between(p, c)', [Next]_vars
               PROVE  Alone!Next \/ UNCHANGED <<BytesPushed, BytesPopped>>
    OBVIOUS
  <2>1. /\ QueueInv /\ p \in Producers /\ c \in Consumers /\ Steps
        /\ prod[p].pushed \in Nat
    <3>1. QueueInv /\ p \in Producers /\ c \in Consumers
      BY DEF Between
    <3>2. QED BY <3>1, InvNext, Producer, ProducerFields
  <2>2. CASE UNCHANGED <<prod, cons, pipe>>
    BY <1>1, <2>2
  <2>3. CASE Sending(p)
    <3> DEFINE n == prod[p].pushed
    <3>1. cons' = cons /\ prod'[p].pushed \in {n, n + 1}
      BY <2>1, <2>3, Others DEF Sending
    <3>2. CASE prod'[p].pushed = n
      BY <1>1, <3>1, <3>2
    <3>3. CASE prod'[p].pushed = n + 1
      <4>1. (n + 1) * ElementSize = n * ElementSize + ElementSize
        BY <2>1, Size
      <4>2. BytesPushed' = BytesPushed + ElementSize /\ BytesPopped' = BytesPopped
        BY <1>1, <3>1, <3>3, <4>1
      <4>3. Alone!Put(ElementSize)
        BY <4>2, Size DEF Alone!Put
      <4>4. BytesPushed \in Nat
        BY <1>1, <2>1, ProducerFields, Multiples
      <4>5. BytesPushed' - BytesPushed = ElementSize
        BY <4>2, <4>4, Size
      <4>6. ElementSize \in 1 .. BytesPushed' - BytesPushed
        BY <4>5, Size
      <4>7. QED BY <4>3, <4>6 DEF Alone!Next
    <3>4. QED BY <3>1, <3>2, <3>3
  <2>4. CASE Passed(c)
    <3> DEFINE a == Len(cons[c].popped)
               b == Len(cons'[c].popped)
               n == b - a
               most == BytesPushed
    <3>1. PICK x \in ConsumerStates :
            cons' = [cons EXCEPT ![c] = x] /\ Passes(c, cons[c], x)
      BY <2>4 DEF Passed
    <3>2. cons'[c] = x /\ prod' = prod
      BY <2>1, <2>4, <3>1, Others DEF Passed
    <3>3. a \in Nat /\ b \in Nat /\ a <= b
      <4>1. a \in Nat /\ b \in Nat
        BY <2>1, <3>2, Consumer, ConsumerFields
      <4>2. x.popped = cons[c].popped \/ Len(cons[c].popped) <= Len(x.popped)
        BY <3>1 DEF Passes, Between
      <4>3. QED BY <3>2, <4>1, <4>2
    <3>4. BytesPushed' = most /\ most \in Nat /\ b <= most
      <4>1. BytesPushed' = most
        BY <1>1, <3>2
      <4>2. most \in Nat
        BY <1>1, <2>1, Multiples
      <4>3. QED BY <1>1, <3>2, <4>1, <4>2 DEF Between
    <3>5. cons[c].popped = Run(p, 0, a) /\ cons'[c].popped = Run(p, 0, b)
      BY DEF Between, Lined, InLine
    <3>6. BytesPopped = Alone!Numbers(0, a) /\ BytesPopped' = Alone!Numbers(0, b)
      BY <1>1, <2>1, <3>3, <3>5, NumbersOfRun
    <3> HIDE DEF a, b, most
    <3>7. CASE a = b
      BY <3>4, <3>6, <3>7 DEF most
    <3>8. CASE a # b
      <4>1. n \in Nat /\ a + n = b /\ n \in 1 .. most - a
        BY <3>3, <3>4, <3>8
      <4>2. BytesPopped' = BytesPopped \o Alone!Numbers(a, n) /\ Len(BytesPopped) = a
        BY <3>3, <3>6, <4>1, NumbersJoin
      <4>3. Alone!Get(n)
        BY <3>4, <4>1, <4>2 DEF Alone!Get, most
      <4>4. QED BY <4>1, <4>2, <4>3 DEF Alone!Next, most
    <3>9. QED BY <3>7, <3>8
  <2>5. QED BY <2>1, <2>2, <2>3, <2>4 DEF Steps
<1>4. QED BY <1>2, <1>3, BetweenAlways, PTL DEF Spec, ImplementsChannel, Alone!Spec
==============================================================================
