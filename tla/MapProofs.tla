------------------------------ MODULE MapProofs ------------------------------
(* Proofs about Map, for any keys, hashes and sizes: every element is found  *)
(* from its hash after any insertion, deletion and growth, and the map is a  *)
(* finite function.                                                          *)
EXTENDS Map, FiniteSetTheorems, WellFoundedInduction, TLAPS

-----------------------------------------------------------------------------
(* Powers of two.  What holds of all numbers is shown by the least one of    *)
(* which it would not hold.                                                  *)

LEMMA LeastOf ==
  ASSUME NEW T \in SUBSET Nat, T # {}
  PROVE  \E x \in T : \A y \in T : ~(y < x)
<1>1. \E x \in T : \A y \in T : <<y, x>> \notin OpToRel(<, Nat)
  BY NatLessThanWellFounded, WFMin
<1>2. QED BY <1>1 DEF OpToRel

LEMMA DivisorOfDouble ==
  ASSUME NEW c \in Nat \ {0}, NEW d \in Nat, d > 1, (2 * c) % d = 0, d % 2 # 0
  PROVE  c % d = 0 /\ d <= c
<1>1. PICK a \in Nat : d = 2 * a + 1
  <2>1. d = 2 * (d \div 2) + 1 /\ d \div 2 \in Nat
    OBVIOUS
  <2>2. QED BY <2>1
<1>2. PICK k \in Nat : 2 * c = d * k
  <2>1. 2 * c \in Nat \ {0} /\ d \in Nat \ {0}
    OBVIOUS
  <2>2. 2 * c = d * ((2 * c) \div d) /\ (2 * c) \div d \in Nat
    BY <2>1
  <2>3. QED BY <2>2
<1> DEFINE m == c - a * k
<1>3. a * k \in Nat /\ m \in Int
  BY <1>1, <1>2
<1>4. k = 2 * m
  <2>1. d * k = 2 * (a * k) + k
    BY <1>1, <1>2
  <2>2. QED BY <1>2, <1>3, <2>1
<1> HIDE DEF m
<1>5. c = d * m
  <2>1. d * k = 2 * (d * m)
    BY <1>3, <1>4
  <2>2. d * m \in Int
    BY <1>3
  <2>3. QED BY <1>2, <2>1, <2>2
<1>6. m \in Nat \ {0}
  BY <1>2, <1>3, <1>4, <1>5
<1>7. c % d = 0
  BY <1>5, <1>6
<1>8. d <= c
  BY <1>5, <1>6
<1>9. QED BY <1>7, <1>8

LEMMA DoubleIsPower ==
  ASSUME NEW c \in Nat \ {0}, IsPowerOfTwo(c)
  PROVE  IsPowerOfTwo(2 * c)
<1>1. ASSUME NEW d \in 2 .. 2 * c, (2 * c) % d = 0, d % 2 # 0
      PROVE  FALSE
  <2>1. d \in Nat /\ d > 1
    OBVIOUS
  <2>2. c % d = 0 /\ d <= c
    BY <1>1, <2>1, DivisorOfDouble
  <2>3. d \in 2 .. c
    BY <2>1, <2>2
  <2>4. QED BY <1>1, <2>2, <2>3 DEF IsPowerOfTwo
<1>2. 2 * c > 0
  OBVIOUS
<1>3. QED BY <1>1, <1>2 DEF IsPowerOfTwo

LEMMA OneIsPower == IsPowerOfTwo(1)
  BY DEF IsPowerOfTwo

\* Between a number and its double there is a power of two.
LEMMA PowerAbove ==
  ASSUME NEW s \in Nat \ {0}
  PROVE  \E c \in s .. 2 * s - 1 : IsPowerOfTwo(c)
<1> DEFINE P(x) == \E c \in x .. 2 * x - 1 : IsPowerOfTwo(c)
           T == {x \in Nat \ {0} : ~P(x)}
<1>1. SUFFICES ASSUME T # {} PROVE FALSE
  OBVIOUS
<1>2. PICK x \in T : \A y \in T : ~(y < x)
  <2>1. T \in SUBSET Nat
    OBVIOUS
  <2> HIDE DEF T
  <2>2. QED BY <1>1, <2>1, LeastOf
<1>3. x \in Nat \ {0} /\ ~P(x)
  OBVIOUS
<1>4. P(1)
  <2>1. 1 \in 1 .. 2 * 1 - 1
    OBVIOUS
  <2>2. QED BY <2>1, OneIsPower
<1>5. x - 1 \in Nat \ {0}
  BY <1>3, <1>4
<1>6. P(x - 1)
  <2>1. x - 1 < x
    BY <1>3
  <2>2. x - 1 \notin T
    BY <1>2, <1>3, <2>1
  <2> HIDE DEF P
  <2>3. QED BY <1>5, <2>2
<1>7. PICK c \in (x - 1) .. 2 * (x - 1) - 1 : IsPowerOfTwo(c)
  BY <1>6
<1>8. c \in Nat \ {0}
  BY <1>5
<1>9. CASE c >= x
  <2>1. c \in x .. 2 * x - 1
    BY <1>3, <1>9
  <2>2. QED BY <1>3, <1>7, <2>1
<1>10. CASE c = x - 1
  <2>1. 2 * c \in x .. 2 * x - 1
    BY <1>3, <1>5, <1>10
  <2>2. IsPowerOfTwo(2 * c)
    BY <1>7, <1>8, DoubleIsPower
  <2>3. QED BY <1>3, <2>1, <2>2
<1>11. QED BY <1>3, <1>7, <1>9, <1>10

\* map_roundup
LEMMA RoundUpIs ==
  ASSUME NEW s \in Nat \ {0}
  PROVE  /\ RoundUp(s) \in Nat \ {0} /\ s <= RoundUp(s) /\ RoundUp(s) < 2 * s
         /\ IsPowerOfTwo(RoundUp(s))
<1>1. \E c \in s .. 2 * s - 1 : IsPowerOfTwo(c)
  BY PowerAbove
<1>2. RoundUp(s) \in s .. 2 * s - 1 /\ IsPowerOfTwo(RoundUp(s))
  BY <1>1 DEF RoundUp
<1>3. QED BY <1>2

-----------------------------------------------------------------------------
(* Positions and the way from a home to a position, round the end of the     *)
(* table.                                                                    *)

LEMMA NextIs ==
  ASSUME NEW c \in Nat \ {0}, NEW p \in Positions(c)
  PROVE  /\ (p + 1) % c = IF p + 1 = c THEN 0 ELSE p + 1
         /\ (p + 1) % c \in Positions(c)
  BY DEF Positions

LEMMA HomeIs ==
  ASSUME NEW c \in Nat \ {0}, NEW h \in Nat
  PROVE  h % c \in Positions(c)
  BY DEF Positions

LEMMA BetweenIs ==
  ASSUME NEW c \in Nat \ {0}, NEW h \in Positions(c), NEW p \in Positions(c)
  PROVE  /\ Between(h, p, c) \subseteq Positions(c)
         /\ \A q \in Positions(c) :
              q \in Between(h, p, c) <=>
                IF h <= p THEN h <= q /\ q <= p ELSE q <= p \/ h <= q
  BY DEF Positions, Between

LEMMA BetweenSelf ==
  ASSUME NEW c \in Nat \ {0}, NEW p \in Positions(c)
  PROVE  Between(p, p, c) = {p}
  BY DEF Positions, Between

\* One position further: the same and the next, unless the way is round the table.
LEMMA BetweenGrows ==
  ASSUME NEW c \in Nat \ {0}, NEW h \in Positions(c), NEW p \in Positions(c)
  PROVE  /\ (p + 1) % c # h =>
              Between(h, (p + 1) % c, c) = Between(h, p, c) \cup {(p + 1) % c}
         /\ (p + 1) % c = h => Between(h, p, c) = Positions(c)
<1> DEFINE nx == (p + 1) % c
<1>1. nx = (IF p + 1 = c THEN 0 ELSE p + 1) /\ nx \in Positions(c)
  BY NextIs
<1> HIDE DEF nx
<1>2. ASSUME nx # h
      PROVE  Between(h, nx, c) = Between(h, p, c) \cup {nx}
  <2>1. ASSUME NEW q \in Positions(c)
        PROVE  q \in Between(h, nx, c) <=> (q \in Between(h, p, c) \/ q = nx)
    <3>1. q \in Between(h, nx, c) <=>
            IF h <= nx THEN h <= q /\ q <= nx ELSE q <= nx \/ h <= q
      BY <1>1, BetweenIs
    <3>2. q \in Between(h, p, c) <=>
            IF h <= p THEN h <= q /\ q <= p ELSE q <= p \/ h <= q
      BY BetweenIs
    <3>3. QED BY <1>1, <1>2, <3>1, <3>2 DEF Positions
  <2>2. Between(h, nx, c) \subseteq Positions(c) /\ Between(h, p, c) \subseteq Positions(c)
    BY <1>1, BetweenIs
  <2>3. QED BY <1>1, <2>1, <2>2
<1>3. ASSUME nx = h
      PROVE  Between(h, p, c) = Positions(c)
  <2>1. ASSUME NEW q \in Positions(c)
        PROVE  q \in Between(h, p, c)
    BY <1>1, <1>3, BetweenIs DEF Positions
  <2>2. QED BY <2>1, BetweenIs
<1>4. QED BY <1>2, <1>3 DEF nx

\* Of two ways from one home that part, each end is not on the other's way.
LEMMA BetweenOrder ==
  ASSUME NEW c \in Nat \ {0}, NEW h \in Positions(c), NEW p \in Positions(c),
         NEW q \in Positions(c), q \notin Between(h, p, c)
  PROVE  p \in Between(h, q, c) \ {q}
  BY BetweenIs DEF Positions

\* A way over a position on it is shorter from the same home.
LEMMA BetweenShorter ==
  ASSUME NEW c \in Nat \ {0}, NEW h \in Positions(c), NEW p \in Positions(c),
         NEW q \in Between(h, p, c)
  PROVE  Between(h, q, c) \subseteq Between(h, p, c)
<1>1. q \in Positions(c)
  BY BetweenIs
<1>2. ASSUME NEW r \in Positions(c), r \in Between(h, q, c)
      PROVE  r \in Between(h, p, c)
  BY <1>1, <1>2, BetweenIs DEF Positions
<1>3. QED BY <1>1, <1>2, BetweenIs

\* A way over i that ends beyond i and r goes over what follows r.
LEMMA BetweenBeyond ==
  ASSUME NEW c \in Nat \ {0}, NEW h \in Positions(c), NEW p \in Positions(c),
         NEW q \in Positions(c), NEW r \in Positions(c),
         q \in Between(h, p, c), p \notin Between(q, r, c)
  PROVE  (r + 1) % c \in Between(h, p, c)
<1>1. /\ (r + 1) % c = (IF r + 1 = c THEN 0 ELSE r + 1)
      /\ (r + 1) % c \in Positions(c)
  BY NextIs
<1>2. IF h <= p THEN h <= q /\ q <= p ELSE q <= p \/ h <= q
  BY BetweenIs
<1>3. ~(IF q <= r THEN q <= p /\ p <= r ELSE p <= r \/ q <= p)
  BY BetweenIs
<1> DEFINE nx == (r + 1) % c
<1> HIDE DEF nx
<1>4. IF h <= p THEN h <= nx /\ nx <= p ELSE nx <= p \/ h <= nx
  BY <1>1, <1>2, <1>3 DEF Positions, nx
<1>5. QED BY <1>1, <1>4, BetweenIs DEF nx

\* The comparisons of map_erase.
LEMMA MovesIs ==
  ASSUME i \in Positions(capacity), capacity \in Nat \ {0},
         NEW k \in Positions(capacity), NEW to \in Positions(capacity), to # i
  PROVE  Moves(k, to) <=> i \in Between(k, to, capacity)
  BY BetweenIs DEF Moves, Positions

-----------------------------------------------------------------------------
(* Tables. *)

HashOK == hash \in [Keys -> Hashes]

LEMMA TakenIs ==
  ASSUME NEW c, NEW t \in Tables(c), NEW p \in Positions(c)
  PROVE  /\ p \in Taken(t, c) => t[p] \in Element /\ t[p].key \in Keys
         /\ p \notin Taken(t, c) => t[p] = NoElement
         /\ p \in Taken(t, c) <=> ~IsEmpty(t[p])
<1>1. t[p] \in Element \cup {NoElement}
  BY DEF Tables
<1>2. \A e \in Element : e.key \in Keys /\ ~IsEmpty(e)
  BY KeysAssumption DEF Element, IsEmpty
<1>3. IsEmpty(NoElement)
  BY DEF NoElement, IsEmpty
<1>4. p \in Taken(t, c) <=> ~IsEmpty(t[p])
  BY DEF Taken
<1>5. QED BY <1>1, <1>2, <1>3, <1>4

LEMMA HomeOfKey ==
  ASSUME HashOK, NEW c \in Nat \ {0}, NEW k \in Keys
  PROVE  hash[k] % c \in Positions(c)
<1>1. hash[k] \in Nat
  BY HashesAssumption DEF HashOK
<1>2. QED BY <1>1, HomeIs

\* A search starts at the home of its key, and has passed nothing.
LEMMA PassedStarts ==
  ASSUME HashOK, NEW c \in Nat \ {0}, NEW t, NEW k \in Keys
  PROVE  Passed(t, c, k, hash[k] % c)
<1>1. hash[k] % c \in Positions(c)
  BY HomeOfKey
<1>2. Between(hash[k] % c, hash[k] % c, c) = {hash[k] % c}
  BY <1>1, BetweenSelf
<1>3. QED BY <1>2 DEF Passed

\* It passes an element with another key; it does not come round to its start, as
\* an element is empty.
LEMMA PassedNext ==
  ASSUME HashOK, NEW c \in Nat \ {0}, NEW t, NEW k \in Keys, NEW p \in Positions(c),
         Passed(t, c, k, p), ~IsEmpty(t[p]), ~IsSame(t[p], k),
         Taken(t, c) # Positions(c)
  PROVE  Passed(t, c, k, (p + 1) % c)
<1> DEFINE h == hash[k] % c
           nx == (p + 1) % c
<1>1. h \in Positions(c)
  BY HomeOfKey
<1>2. /\ nx # h => Between(h, nx, c) = Between(h, p, c) \cup {nx}
      /\ nx = h => Between(h, p, c) = Positions(c)
  BY <1>1, BetweenGrows
<1>3. \A q \in Between(h, p, c) \ {p} : ~IsEmpty(t[q]) /\ ~IsSame(t[q], k)
  BY DEF Passed
<1> HIDE DEF h, nx
<1>4. \A q \in Between(h, p, c) : ~IsEmpty(t[q]) /\ ~IsSame(t[q], k)
  BY <1>3
<1>5. nx # h
  <2>1. ASSUME nx = h PROVE FALSE
    <3>1. \A q \in Positions(c) : ~IsEmpty(t[q])
      BY <1>2, <1>4, <2>1
    <3>2. Taken(t, c) = Positions(c)
      BY <3>1 DEF Taken
    <3>3. QED BY <3>2
  <2>2. QED BY <2>1
<1>6. \A q \in Between(h, nx, c) \ {nx} : ~IsEmpty(t[q]) /\ ~IsSame(t[q], k)
  BY <1>2, <1>4, <1>5
<1>7. QED BY <1>6 DEF Passed, h, nx

\* A search that ends at an empty element: its key is not in the table.
LEMMA AbsentAtEmpty ==
  ASSUME HashOK, NEW c \in Nat \ {0}, NEW t \in Tables(c), NEW k \in Keys,
         NEW p \in Positions(c), Reachable(t, c, {}),
         Passed(t, c, k, p), IsEmpty(t[p]),
         NEW q \in Taken(t, c)
  PROVE  t[q].key # k
<1> DEFINE h == hash[k] % c
<1>1. SUFFICES ASSUME t[q].key = k PROVE FALSE
  OBVIOUS
<1>2. h \in Positions(c) /\ q \in Positions(c)
  BY HomeOfKey DEF Taken
<1>3. Between(h, q, c) \subseteq Taken(t, c)
  BY <1>1 DEF Reachable
<1>4. p \notin Taken(t, c)
  BY DEF Taken
<1> HIDE DEF h
<1>5. q \in Between(h, p, c) \ {p}
  BY <1>2, <1>3, <1>4, BetweenOrder
<1>6. ~IsSame(t[q], k)
  BY <1>5 DEF Passed, h
<1>7. QED BY <1>1, <1>6 DEF IsSame

\* A search that ends at an element with its key: that is the only one.
LEMMA OneAtKey ==
  ASSUME NEW c, NEW t, NEW k, NEW p \in Taken(t, c), OneEach(t, c, {}),
         IsSame(t[p], k), NEW q \in Taken(t, c), t[q].key = k
  PROVE  q = p
  BY DEF OneEach, IsSame

LEMMA TakenFinite ==
  ASSUME NEW c \in Nat, NEW t
  PROVE  /\ IsFiniteSet(Taken(t, c)) /\ Cardinality(Taken(t, c)) \in Nat
         /\ IsFiniteSet(Positions(c)) /\ Cardinality(Positions(c)) = c
<1>1. IsFiniteSet(0 .. c - 1) /\ Cardinality(0 .. c - 1) = c
  BY FS_Interval
<1>2. IsFiniteSet(Positions(c)) /\ Cardinality(Positions(c)) = c
  BY <1>1 DEF Positions
<1>3. Taken(t, c) \subseteq Positions(c)
  BY DEF Taken
<1>4. IsFiniteSet(Taken(t, c))
  BY <1>2, <1>3, FS_Subset
<1>5. QED BY <1>2, <1>4, FS_CardinalityType

\* A table that is at most half full has an empty element.
LEMMA HalfEmpty ==
  ASSUME NEW c \in Nat \ {0}, NEW t, 2 * Cardinality(Taken(t, c)) <= c
  PROVE  Taken(t, c) # Positions(c)
<1>1. Cardinality(Taken(t, c)) \in Nat /\ Cardinality(Positions(c)) = c
  BY TakenFinite
<1>2. Cardinality(Taken(t, c)) # c
  BY <1>1
<1>3. QED BY <1>1, <1>2

-----------------------------------------------------------------------------
(* An element set at the empty place that its search found. *)

Put(t, p, e) == [t EXCEPT ![p] = e]

LEMMA PutIs ==
  ASSUME NEW c, NEW t \in Tables(c), NEW p \in Positions(c),
         NEW e \in Element \cup {NoElement}
  PROVE  /\ Put(t, p, e) \in Tables(c)
         /\ Put(t, p, e)[p] = e
         /\ \A q \in Positions(c) : q # p => Put(t, p, e)[q] = t[q]
  BY DEF Tables, Put

LEMMA PutTaken ==
  ASSUME NEW c, NEW t \in Tables(c), NEW p \in Positions(c), NEW e \in Element
  PROVE  Taken(Put(t, p, e), c) = Taken(t, c) \cup {p}
<1> DEFINE u == Put(t, p, e)
<1>1. u[p] = e /\ \A q \in Positions(c) : q # p => u[q] = t[q]
  BY PutIs
<1>2. ~IsEmpty(e)
  BY KeysAssumption DEF Element, IsEmpty
<1> HIDE DEF u
<1>3. \A q \in Positions(c) : ~IsEmpty(u[q]) <=> (q = p \/ ~IsEmpty(t[q]))
  BY <1>1, <1>2
<1>4. Taken(u, c) = Taken(t, c) \cup {p}
  BY <1>3 DEF Taken
<1>5. QED BY <1>4 DEF u

LEMMA FillKeeps ==
  ASSUME HashOK, NEW c \in Nat \ {0}, NEW t \in Tables(c), NEW p \in Positions(c),
         NEW e \in Element, IsEmpty(t[p]), Passed(t, c, e.key, p),
         Reachable(t, c, {}), OneEach(t, c, {})
  PROVE  /\ Reachable(Put(t, p, e), c, {}) /\ OneEach(Put(t, p, e), c, {})
         /\ Taken(Put(t, p, e), c) = Taken(t, c) \cup {p} /\ p \notin Taken(t, c)
         /\ Cardinality(Taken(Put(t, p, e), c)) = Cardinality(Taken(t, c)) + 1
         /\ Entries(Put(t, p, e), Taken(Put(t, p, e), c)) =
              Entries(t, Taken(t, c)) \cup {Pair(e)}
<1> DEFINE u == Put(t, p, e)
<1>1. /\ u[p] = e /\ \A q \in Positions(c) : q # p => u[q] = t[q]
      /\ Taken(u, c) = Taken(t, c) \cup {p}
  BY PutIs, PutTaken
<1>2. p \notin Taken(t, c) /\ Taken(t, c) \subseteq Positions(c)
  BY DEF Taken
<1>3. e.key \in Keys
  BY DEF Element
<1>4. \A q \in Taken(t, c) : t[q].key # e.key
  BY <1>3, AbsentAtEmpty
<1>5. \A q \in Taken(t, c) : u[q] = t[q]
  BY <1>1, <1>2
<1> HIDE DEF u
<1>6. Reachable(u, c, {})
  <2> DEFINE h == hash[e.key] % c
  <2>1. h \in Positions(c)
    BY <1>3, HomeOfKey
  <2>2. Between(h, p, c) \subseteq Taken(u, c)
    <3>1. \A q \in Between(h, p, c) \ {p} : ~IsEmpty(t[q])
      BY DEF Passed
    <3> HIDE DEF h
    <3>2. Between(h, p, c) \subseteq Positions(c)
      BY <2>1, BetweenIs
    <3>3. \A q \in Between(h, p, c) \ {p} : q \in Taken(t, c)
      BY <3>1, <3>2 DEF Taken
    <3>4. QED BY <1>1, <3>3
  <2>3. ASSUME NEW q \in Taken(t, c)
        PROVE  Between(hash[t[q].key] % c, q, c) \subseteq Taken(t, c)
    BY DEF Reachable
  <2>4. ASSUME NEW q \in Taken(u, c) \ {}
        PROVE  Between(hash[u[q].key] % c, q, c) \subseteq Taken(u, c)
    <3>1. CASE q = p
      BY <1>1, <2>2, <3>1
    <3>2. CASE q \in Taken(t, c)
      <4>1. Between(hash[t[q].key] % c, q, c) \subseteq Taken(t, c)
        BY <2>3, <3>2
      <4>2. QED BY <1>1, <1>5, <3>2, <4>1
    <3>3. QED BY <1>1, <3>1, <3>2
  <2>5. QED BY <2>4 DEF Reachable
<1>7. OneEach(u, c, {})
  <2>1. ASSUME NEW q \in Taken(u, c), NEW r \in Taken(u, c), u[q].key = u[r].key
        PROVE  q = r
    <3>1. CASE q \in Taken(t, c) /\ r \in Taken(t, c)
      BY <1>5, <2>1, <3>1 DEF OneEach
    <3>2. QED BY <1>1, <1>4, <1>5, <2>1, <3>1
  <2>2. QED BY <2>1 DEF OneEach
<1>8. Cardinality(Taken(u, c)) = Cardinality(Taken(t, c)) + 1
  BY <1>1, <1>2, TakenFinite, FS_AddElement
<1>9. Entries(u, Taken(u, c)) = Entries(t, Taken(t, c)) \cup {Pair(e)}
  BY <1>1, <1>5 DEF Entries
<1>10. QED BY <1>1, <1>2, <1>6, <1>7, <1>8, <1>9 DEF u

-----------------------------------------------------------------------------
(* The second loop of map_erase. *)

\* ShiftFits, of a hole at p and a shift that has come to q.
HoleFits(t, c, p, q) ==
  /\ p \in Taken(t, c)
  /\ \A r \in Between(p, q, c) \ {p} :
       ~IsEmpty(t[r]) /\ p \notin Between(hash[t[r].key] % c, r, c)

\* The hole is not the element that follows.
LEMMA HoleIsBehind ==
  ASSUME NEW c \in Nat \ {0}, NEW t, NEW p \in Positions(c), NEW q \in Positions(c),
         HoleFits(t, c, p, q), Taken(t, c) # Positions(c)
  PROVE  (q + 1) % c # p
<1>1. SUFFICES ASSUME (q + 1) % c = p PROVE FALSE
  OBVIOUS
<1>2. Between(p, q, c) = Positions(c)
  BY <1>1, BetweenGrows
<1>3. \A r \in Positions(c) : r \in Taken(t, c)
  BY <1>2 DEF HoleFits, Taken
<1>4. QED BY <1>3 DEF Taken

\* The next element is empty: no element has to pass the hole, which is emptied.
LEMMA ShiftEnds ==
  ASSUME HashOK, NEW c \in Nat \ {0}, NEW t \in Tables(c),
         NEW p \in Positions(c), NEW q \in Positions(c),
         HoleFits(t, c, p, q), IsEmpty(t[(q + 1) % c]),
         Reachable(t, c, {p}), OneEach(t, c, {p})
  PROVE  /\ Put(t, p, NoElement) \in Tables(c)
         /\ Taken(Put(t, p, NoElement), c) = Taken(t, c) \ {p}
         /\ Reachable(Put(t, p, NoElement), c, {}) /\ OneEach(Put(t, p, NoElement), c, {})
         /\ Entries(Put(t, p, NoElement), Taken(t, c) \ {p}) =
              Entries(t, Taken(t, c) \ {p})
<1> DEFINE u == Put(t, p, NoElement)
           T == Taken(t, c) \ {p}
<1>1. /\ u \in Tables(c)
      /\ u[p] = NoElement /\ \A r \in Positions(c) : r # p => u[r] = t[r]
  BY PutIs
<1>2. T \subseteq Positions(c) /\ \A r \in T : u[r] = t[r]
  BY <1>1 DEF Taken
<1>3. Taken(u, c) = T
  <2>1. IsEmpty(NoElement)
    BY DEF IsEmpty, NoElement
  <2> HIDE DEF u
  <2>2. \A r \in Positions(c) : ~IsEmpty(u[r]) <=> (r # p /\ ~IsEmpty(t[r]))
    BY <1>1, <2>1
  <2>3. QED BY <2>2 DEF Taken
<1> HIDE DEF u
<1>4. Reachable(u, c, {})
  <2>1. ASSUME NEW r \in T
        PROVE  Between(hash[t[r].key] % c, r, c) \subseteq T
    <3> DEFINE h == hash[t[r].key] % c
    <3>1. r \in Positions(c) /\ r # p /\ t[r].key \in Keys
      BY <1>2, TakenIs
    <3>2. h \in Positions(c)
      BY <3>1, HomeOfKey
    <3>3. Between(h, r, c) \subseteq Taken(t, c)
      BY <2>1 DEF Reachable
    <3>4. \A s \in Between(p, q, c) \ {p} :
            p \notin Between(hash[t[s].key] % c, s, c)
      BY DEF HoleFits
    <3>5. (q + 1) % c \notin Taken(t, c)
      BY DEF Taken
    <3>6. p \notin Between(h, r, c)
      <4>1. SUFFICES ASSUME p \in Between(h, r, c) PROVE FALSE
        OBVIOUS
      <4>2. r \notin Between(p, q, c)
        BY <3>1, <3>4, <4>1
      <4> HIDE DEF h
      <4>3. (q + 1) % c \in Between(h, r, c)
        BY <3>1, <3>2, <4>1, <4>2, BetweenBeyond
      <4>4. QED BY <3>3, <3>5, <4>3
    <3> HIDE DEF h
    <3>7. Between(h, r, c) \subseteq T
      BY <3>3, <3>6
    <3>8. QED BY <3>7 DEF h
  <2> HIDE DEF T
  <2>2. \A r \in Taken(u, c) \ {} : Between(hash[u[r].key] % c, r, c) \subseteq Taken(u, c)
    BY <1>2, <1>3, <2>1
  <2>3. QED BY <2>2 DEF Reachable
<1>5. OneEach(u, c, {})
  BY <1>2, <1>3 DEF OneEach
<1>6. Entries(u, T) = Entries(t, T)
  BY <1>2 DEF Entries
<1>7. QED BY <1>1, <1>3, <1>4, <1>5, <1>6 DEF u

\* The next element stays, as its way does not go over the hole.
LEMMA ShiftStays ==
  ASSUME NEW c \in Nat \ {0}, NEW t, NEW p \in Positions(c), NEW q \in Positions(c),
         HoleFits(t, c, p, q), ~IsEmpty(t[(q + 1) % c]), Taken(t, c) # Positions(c),
         p \notin Between(hash[t[(q + 1) % c].key] % c, (q + 1) % c, c)
  PROVE  HoleFits(t, c, p, (q + 1) % c)
<1> DEFINE nx == (q + 1) % c
<1>1. nx # p
  BY HoleIsBehind
<1>2. Between(p, nx, c) = Between(p, q, c) \cup {nx}
  BY <1>1, BetweenGrows
<1>3. ~IsEmpty(t[nx]) /\ p \notin Between(hash[t[nx].key] % c, nx, c)
  OBVIOUS
<1> HIDE DEF nx
<1>4. \A r \in Between(p, nx, c) \ {p} :
        ~IsEmpty(t[r]) /\ p \notin Between(hash[t[r].key] % c, r, c)
  BY <1>2, <1>3 DEF HoleFits
<1>5. HoleFits(t, c, p, nx)
  BY <1>4 DEF HoleFits
<1>6. QED BY <1>5 DEF nx

\* The next element moves into the hole, and its place is the hole.
LEMMA ShiftMoves ==
  ASSUME HashOK, NEW c \in Nat \ {0}, NEW t \in Tables(c),
         NEW p \in Positions(c), NEW q \in Positions(c),
         HoleFits(t, c, p, q), ~IsEmpty(t[(q + 1) % c]), Taken(t, c) # Positions(c),
         p \in Between(hash[t[(q + 1) % c].key] % c, (q + 1) % c, c),
         Reachable(t, c, {p}), OneEach(t, c, {p})
  PROVE  LET u == Put(t, p, t[(q + 1) % c])
             nx == (q + 1) % c IN
         /\ u \in Tables(c) /\ Taken(u, c) = Taken(t, c)
         /\ Reachable(u, c, {nx}) /\ OneEach(u, c, {nx})
         /\ Cardinality(Taken(t, c) \ {nx}) = Cardinality(Taken(t, c) \ {p})
         /\ Entries(u, Taken(t, c) \ {nx}) = Entries(t, Taken(t, c) \ {p})
         /\ HoleFits(u, c, nx, nx)
<1> DEFINE nx == (q + 1) % c
           u == Put(t, p, t[nx])
           h == hash[t[nx].key] % c
<1>1. nx # p /\ nx \in Positions(c)
  BY HoleIsBehind, NextIs
<1>2. nx \in Taken(t, c) /\ p \in Taken(t, c)
  BY <1>1 DEF Taken, HoleFits
<1>3. t[nx] \in Element /\ t[nx].key \in Keys
  BY <1>1, <1>2, TakenIs
<1>4. h \in Positions(c)
  BY <1>3, HomeOfKey
<1>5. p \in Between(h, nx, c) /\ Between(h, nx, c) \subseteq Taken(t, c)
  BY <1>1, <1>2 DEF Reachable
<1> HIDE DEF nx, h
<1>6. /\ u \in Tables(c)
      /\ u[p] = t[nx] /\ \A r \in Positions(c) : r # p => u[r] = t[r]
      /\ Taken(u, c) = Taken(t, c)
  <2>1. /\ u \in Tables(c)
        /\ u[p] = t[nx] /\ \A r \in Positions(c) : r # p => u[r] = t[r]
    BY <1>3, PutIs
  <2>2. Taken(u, c) = Taken(t, c) \cup {p}
    BY <1>3, PutTaken
  <2> HIDE DEF u
  <2>3. QED BY <1>2, <2>1, <2>2
<1> HIDE DEF u
<1>7. \A r \in Taken(t, c) : r # p => u[r] = t[r]
  BY <1>6 DEF Taken
<1>8. Reachable(u, c, {nx})
  <2>1. Between(h, p, c) \subseteq Taken(t, c)
    BY <1>1, <1>4, <1>5, BetweenShorter
  <2>2. ASSUME NEW r \in Taken(t, c) \ {p}
        PROVE  Between(hash[t[r].key] % c, r, c) \subseteq Taken(t, c)
    BY DEF Reachable
  <2>3. ASSUME NEW r \in Taken(u, c) \ {nx}
        PROVE  Between(hash[u[r].key] % c, r, c) \subseteq Taken(u, c)
    <3>1. CASE r = p
      BY <1>6, <2>1, <3>1 DEF h
    <3>2. CASE r # p
      <4>1. r \in Taken(t, c) \ {p} /\ u[r] = t[r]
        BY <1>6, <1>7, <3>2
      <4>2. QED BY <1>6, <2>2, <4>1
    <3>3. QED BY <3>1, <3>2
  <2>4. QED BY <2>3 DEF Reachable
<1>9. OneEach(u, c, {nx})
  <2>1. \A r, s \in Taken(t, c) \ {p} : t[r].key = t[s].key => r = s
    BY DEF OneEach
  <2>2. ASSUME NEW r \in Taken(t, c) \ {nx}, NEW s \in Taken(t, c) \ {nx},
               u[r].key = u[s].key
        PROVE  r = s
    <3>1. CASE r # p /\ s # p
      BY <1>7, <2>1, <2>2, <3>1
    <3>2. CASE r = p /\ s # p
      BY <1>1, <1>2, <1>6, <1>7, <2>1, <2>2, <3>2
    <3>3. CASE r # p /\ s = p
      BY <1>1, <1>2, <1>6, <1>7, <2>1, <2>2, <3>3
    <3>4. QED BY <3>1, <3>2, <3>3
  <2>3. QED BY <1>6, <2>2 DEF OneEach
<1>10. Cardinality(Taken(t, c) \ {nx}) = Cardinality(Taken(t, c) \ {p})
  <2>1. IsFiniteSet(Taken(t, c))
    BY TakenFinite
  <2>2. \A x \in Taken(t, c) :
          Cardinality(Taken(t, c) \ {x}) = Cardinality(Taken(t, c)) - 1
    BY ONLY <2>1, FS_RemoveElement
  <2>3. QED BY <1>2, <2>2
<1>11. Entries(u, Taken(t, c) \ {nx}) = Entries(t, Taken(t, c) \ {p})
  <2>1. ASSUME NEW x \in Entries(u, Taken(t, c) \ {nx})
        PROVE  x \in Entries(t, Taken(t, c) \ {p})
    <3>1. PICK r \in Taken(t, c) \ {nx} : x = Pair(u[r])
      BY DEF Entries
    <3>2. \/ r = p /\ x = Pair(t[nx])
          \/ r # p /\ x = Pair(t[r])
      BY <1>6, <1>7, <3>1
    <3>3. QED BY <1>1, <1>2, <3>1, <3>2 DEF Entries
  <2>2. ASSUME NEW x \in Entries(t, Taken(t, c) \ {p})
        PROVE  x \in Entries(u, Taken(t, c) \ {nx})
    <3>1. PICK r \in Taken(t, c) \ {p} : x = Pair(t[r])
      BY DEF Entries
    <3>2. \/ r = nx /\ x = Pair(u[p])
          \/ r # nx /\ x = Pair(u[r])
      BY <1>6, <1>7, <3>1
    <3>3. QED BY <1>1, <1>2, <3>1, <3>2 DEF Entries
  <2>3. QED BY <2>1, <2>2
<1>12. HoleFits(u, c, nx, nx)
  BY <1>1, <1>2, <1>6, BetweenSelf DEF HoleFits
<1>13. QED
  BY <1>6, <1>8, <1>9, <1>10, <1>11, <1>12 DEF u, nx

-----------------------------------------------------------------------------
(* The invariant by its parts. *)

OldSound ==
  /\ Reachable(table, capacity, Hole) /\ OneEach(table, capacity, Hole)
  /\ count = Cardinality(Taken(table, capacity) \ Hole)
  /\ 2 * count <= capacity /\ Taken(table, capacity) # Positions(capacity)

NewSound ==
  pc \in {"rehash", "place"} =>
    /\ Reachable(fresh.elements, fresh.capacity, {})
    /\ OneEach(fresh.elements, fresh.capacity, {})
    /\ fresh.count = Cardinality(Taken(fresh.elements, fresh.capacity))
    /\ 2 * count <= fresh.capacity
    /\ call.what = "insert" => 2 * (count + 1) <= fresh.capacity

Powers ==
  /\ IsPowerOfTwo(capacity)
  /\ pc \in {"rehash", "place"} => IsPowerOfTwo(fresh.capacity)

\* What the map has for its user.
Contents == Entries(table, Taken(table, capacity) \ Hole)

LEMMA Parts ==
  /\ MapInv <=> /\ TypeOK /\ OldSound /\ NewSound /\ Powers
                /\ CallFits /\ RehashFits /\ ShiftFits
  /\ TypeOK => HashOK /\ capacity \in Nat \ {0} /\ table \in Tables(capacity)
                /\ count \in Nat
<1>1. TableSound <=> OldSound /\ NewSound
  BY DEF TableSound, OldSound, NewSound
<1>2. MapInv <=> /\ TypeOK /\ TableSound /\ Powers
                 /\ CallFits /\ RehashFits /\ ShiftFits
  BY DEF MapInv, MapSound, Powers
<1>3. TypeOK => HashOK /\ capacity \in Nat \ {0} /\ table \in Tables(capacity)
                /\ count \in Nat
  BY DEF TypeOK, HashOK
<1>4. QED BY <1>1, <1>2, <1>3

LEMMA PartsNext ==
  MapInv' <=> /\ TypeOK' /\ OldSound' /\ NewSound' /\ Powers'
              /\ CallFits' /\ RehashFits' /\ ShiftFits'
  BY Parts, PTL

\* Steps that leave the table alone.
LEMMA OldKept ==
  ASSUME UNCHANGED <<hash, table, capacity, count>>, Hole' = Hole
  PROVE  (OldSound => OldSound') /\ Contents' = Contents
  BY DEF OldSound, Reachable, Contents

\* A search begins.
LEMMA SearchSound ==
  ASSUME MapInv, NEW k \in Keys, Search(k, capacity), pc = "idle",
         UNCHANGED <<hash, table, capacity, count, fresh>>,
         call'.key = k, call'.value \in Values \cup {NoKey},
         call'.what \in {"at", "insert", "erase"},
         call'.what = "insert" =>
           call'.value \in Values /\ 2 * (count + 1) <= capacity
  PROVE  MapInv' /\ Contents' = Contents
<1>1. /\ TypeOK /\ OldSound /\ NewSound /\ Powers /\ CallFits /\ RehashFits /\ ShiftFits
      /\ HashOK /\ capacity \in Nat \ {0} /\ table \in Tables(capacity)
  BY Parts
<1>2. pc' = "search" /\ i' = hash[k] % capacity /\ i' \in Positions(capacity)
  BY <1>1, HomeOfKey DEF Search
<1>3. TypeOK'
  BY <1>1, <1>2 DEF TypeOK
<1>4. Hole' = Hole
  BY <1>2 DEF Hole
<1>5. OldSound' /\ Contents' = Contents
  BY <1>1, <1>4, OldKept
<1>6. NewSound' /\ RehashFits' /\ ShiftFits'
  BY <1>2 DEF NewSound, RehashFits, ShiftFits
<1>7. Powers'
  BY <1>1, <1>2 DEF Powers
<1>8. CallFits'
  <2>1. Passed(table, capacity, k, i')
    BY <1>1, <1>2, PassedStarts
  <2>2. Passed(table, capacity, call.key, i)'
    BY <2>1 DEF Passed
  <2>3. QED BY <1>2, <2>2 DEF CallFits
<1>9. QED BY <1>3, <1>5, <1>6, <1>7, <1>8, PartsNext

\* A rehash begins.
LEMMA RehashSound ==
  ASSUME MapInv, NEW size \in Nat \ {0}, Rehash(size), pc = "idle",
         UNCHANGED <<hash, table, capacity, count>>,
         call'.key \in Keys \cup {NoKey}, call'.value \in Values \cup {NoKey},
         call'.what \in {"insert", "reserve"}, 2 * count <= size,
         call'.what = "insert" =>
           call'.key \in Keys /\ call'.value \in Values /\ 2 * (count + 1) <= size
  PROVE  MapInv' /\ Contents' = Contents
<1>1. /\ TypeOK /\ OldSound /\ NewSound /\ Powers /\ CallFits /\ RehashFits /\ ShiftFits
      /\ HashOK /\ capacity \in Nat \ {0} /\ table \in Tables(capacity)
      /\ count \in Nat
  BY Parts
<1> DEFINE c == RoundUp(size)
<1>2. c \in Nat \ {0} /\ size <= c /\ IsPowerOfTwo(c)
  BY RoundUpIs
<1>3. /\ pc' = "rehash" /\ n' = 0
      /\ fresh' = [elements |-> EmptyTable(c), capacity |-> c, count |-> 0]
  BY DEF Rehash
<1> HIDE DEF c
<1>4. /\ fresh'.elements = EmptyTable(c) /\ fresh'.capacity = c /\ fresh'.count = 0
      /\ EmptyTable(c) \in Tables(c)
  BY <1>3 DEF EmptyTable, Tables
<1>5. Taken(EmptyTable(c), c) = {}
  BY DEF Taken, EmptyTable, IsEmpty, NoElement
<1>6. TypeOK'
  BY <1>1, <1>2, <1>3, <1>4 DEF TypeOK
<1>7. Hole' = Hole
  BY <1>3 DEF Hole
<1>8. OldSound' /\ Contents' = Contents
  BY <1>1, <1>7, OldKept
<1>9. NewSound'
  <2>1. /\ Reachable(fresh.elements, fresh.capacity, {})'
        /\ OneEach(fresh.elements, fresh.capacity, {})'
    BY <1>4, <1>5 DEF Reachable, OneEach
  <2>2. fresh'.count = Cardinality(Taken(fresh'.elements, fresh'.capacity))
    BY <1>4, <1>5, FS_EmptySet
  <2>3. /\ 2 * count <= fresh'.capacity
        /\ call'.what = "insert" => 2 * (count + 1) <= fresh'.capacity
    BY <1>1, <1>2, <1>4
  <2>4. QED BY <2>1, <2>2, <2>3 DEF NewSound
<1>10. Powers'
  BY <1>1, <1>2, <1>4 DEF Powers
<1>11. CallFits' /\ ShiftFits'
  BY <1>3 DEF CallFits, ShiftFits
<1>12. RehashFits'
  <2>1. Copied' = {}
    BY <1>3 DEF Copied, Taken, Positions
  <2>2. /\ Entries(fresh'.elements, Taken(fresh'.elements, fresh'.capacity)) = {}
        /\ Entries(table', Copied') = {}
    BY <1>4, <1>5, <2>1 DEF Entries
  <2>3. fresh'.count = Cardinality(Copied')
    BY <1>4, <2>1, FS_EmptySet
  <2>4. QED BY <1>3, <2>2, <2>3 DEF RehashFits
<1>13. QED BY <1>6, <1>8, <1>9, <1>10, <1>11, <1>12, PartsNext

-----------------------------------------------------------------------------
(* map_rehash *)

LEMMA RehashNextSound ==
  ASSUME MapInv, RehashNext
  PROVE  MapInv' /\ Contents' = Contents
<1>1. /\ TypeOK /\ OldSound /\ NewSound /\ Powers /\ CallFits /\ RehashFits /\ ShiftFits
      /\ HashOK /\ capacity \in Nat \ {0} /\ table \in Tables(capacity)
  BY Parts
<1>2. /\ pc = "rehash" /\ n < capacity /\ pc' \in {"rehash", "place"}
      /\ UNCHANGED <<hash, table, capacity, count, fresh, call, j, answer>>
  BY <1>1 DEF RehashNext
<1>3. n \in Positions(capacity) /\ fresh.capacity \in Nat
  BY <1>1, <1>2 DEF TypeOK, Positions
<1>4. OldSound' /\ Contents' = Contents
  <2>1. Hole' = Hole
    BY <1>2 DEF Hole
  <2>2. QED BY <1>1, <1>2, <2>1, OldKept
<1>5. NewSound'
  BY <1>1, <1>2 DEF NewSound, Reachable
<1>6. Powers' /\ ShiftFits'
  BY <1>1, <1>2 DEF Powers, ShiftFits
<1>7. CallFits'
  BY <1>1, <1>2 DEF CallFits
<1>8. CASE IsEmpty(table[n])
  <2>1. n' = n + 1 /\ pc' = "rehash" /\ i' = i
    BY <1>2, <1>8 DEF RehashNext
  <2>2. TypeOK'
    BY <1>1, <1>2, <1>3, <2>1 DEF TypeOK, Positions
  <2>3. Copied' = Copied
    <3>1. \A p \in Taken(table, capacity) : p < n + 1 <=> p < n
      BY <1>3, <1>8 DEF Taken, Positions
    <3>2. QED BY <1>2, <2>1, <3>1 DEF Copied
  <2>4. RehashFits'
    BY <1>1, <1>2, <2>1, <2>3 DEF RehashFits
  <2>5. QED BY <1>4, <1>5, <1>6, <1>7, <2>2, <2>4, PartsNext
<1>9. CASE ~IsEmpty(table[n])
  <2>1. /\ n' = n /\ pc' = "place"
        /\ i' = hash[table[n].key] % fresh.capacity
    BY <1>2, <1>9 DEF RehashNext
  <2>2. n \in Taken(table, capacity) /\ table[n].key \in Keys
    BY <1>1, <1>3, <1>9, TakenIs
  <2>3. fresh.capacity \in Nat \ {0}
    BY <1>1, <1>2, <1>3 DEF Powers, IsPowerOfTwo
  <2>4. i' \in Positions(fresh.capacity)
    BY <1>1, <2>1, <2>2, <2>3, HomeOfKey
  <2>5. TypeOK'
    BY <1>1, <1>2, <1>3, <2>1, <2>4 DEF TypeOK
  <2>6. RehashFits'
    <3>1. Copied' = Copied
      BY <1>2, <2>1 DEF Copied
    <3>2. Passed(fresh.elements, fresh.capacity, table[n].key, i')
      BY <1>1, <2>1, <2>2, <2>3, PassedStarts
    <3>3. Passed(fresh.elements, fresh.capacity, table[n].key, i)'
      BY <1>2, <2>1, <3>2 DEF Passed
    <3>4. QED BY <1>1, <1>2, <2>1, <2>2, <3>1, <3>3 DEF RehashFits
  <2>7. QED BY <1>4, <1>5, <1>6, <1>7, <2>5, <2>6, PartsNext
<1>10. QED BY <1>8, <1>9

\* The old table is sound and has an element at n: it is not in the new one, where
\* there is room for it.
LEMMA PlaceHasRoom ==
  ASSUME MapInv, pc = "place"
  PROVE  /\ fresh.capacity \in Nat \ {0} /\ fresh.elements \in Tables(fresh.capacity)
         /\ fresh.count \in Nat
         /\ i \in Positions(fresh.capacity) /\ n \in Taken(table, capacity)
         /\ table[n] \in Element /\ table[n].key \in Keys
         /\ Taken(fresh.elements, fresh.capacity) # Positions(fresh.capacity)
         /\ ~IsEmpty(fresh.elements[i]) => ~IsSame(fresh.elements[i], table[n].key)
<1> DEFINE t == fresh.elements
           c == fresh.capacity
<1>1. /\ TypeOK /\ OldSound /\ NewSound /\ Powers /\ CallFits /\ RehashFits /\ ShiftFits
      /\ HashOK /\ capacity \in Nat \ {0} /\ table \in Tables(capacity)
      /\ count \in Nat
  BY Parts
<1>2. /\ c \in Nat \ {0} /\ t \in Tables(c) /\ fresh.count \in Nat
      /\ i \in Positions(c) /\ n \in Positions(capacity) /\ n \in Taken(table, capacity)
  BY <1>1 DEF TypeOK, Powers, IsPowerOfTwo, RehashFits
<1>3. table[n] \in Element /\ table[n].key \in Keys
  BY <1>1, <1>2, TakenIs
<1>4. Hole = {}
  BY DEF Hole
<1>5. /\ fresh.count = Cardinality(Copied) /\ fresh.count = Cardinality(Taken(t, c))
      /\ Entries(t, Taken(t, c)) = Entries(table, Copied)
      /\ 2 * count <= c /\ count = Cardinality(Taken(table, capacity))
      /\ OneEach(table, capacity, {})
  BY <1>1, <1>4 DEF RehashFits, NewSound, OldSound
<1>6. fresh.count <= count
  <2>1. IsFiniteSet(Taken(table, capacity))
    BY <1>1, TakenFinite
  <2>2. Copied \in SUBSET Taken(table, capacity)
    BY DEF Copied
  <2>3. Cardinality(Copied) <= Cardinality(Taken(table, capacity))
    BY <2>1, <2>2, FS_Subset
  <2>4. QED BY <1>5, <2>3
<1> HIDE DEF t, c
<1>7. Taken(t, c) # Positions(c)
  <2>1. 2 * fresh.count <= c
    BY <1>1, <1>2, <1>5, <1>6
  <2>2. QED BY <1>2, <1>5, <2>1, HalfEmpty
<1>8. ASSUME ~IsEmpty(t[i]), IsSame(t[i], table[n].key)
      PROVE  FALSE
  <2>1. i \in Taken(t, c)
    BY <1>2, <1>8 DEF Taken
  <2>2. Pair(t[i]) \in Entries(table, Copied)
    BY <1>5, <2>1 DEF Entries
  <2>3. PICK p \in Copied : Pair(t[i]) = Pair(table[p])
    BY <2>2 DEF Entries
  <2>4. table[p].key = table[n].key
    BY <1>8, <2>3 DEF Pair, IsSame
  <2>5. p \in Taken(table, capacity) /\ p < n
    BY <2>3 DEF Copied
  <2>6. p = n
    BY <1>2, <1>5, <2>4, <2>5 DEF OneEach
  <2>7. QED BY <1>2, <2>5, <2>6 DEF Positions
<1>9. QED BY <1>2, <1>3, <1>7, <1>8 DEF t, c

LEMMA PlaceSound ==
  ASSUME MapInv, Place
  PROVE  MapInv' /\ Contents' = Contents
<1> DEFINE t == fresh.elements
           c == fresh.capacity
           k == table[n].key
<1>1. /\ TypeOK /\ OldSound /\ NewSound /\ Powers /\ CallFits /\ RehashFits /\ ShiftFits
      /\ HashOK /\ capacity \in Nat \ {0} /\ table \in Tables(capacity)
  BY Parts
<1>2. /\ pc = "place" /\ pc' \in {"rehash", "place"}
      /\ UNCHANGED <<hash, table, capacity, count, call, j, answer>>
  BY DEF Place
<1>3. /\ c \in Nat \ {0} /\ t \in Tables(c) /\ fresh.count \in Nat
      /\ i \in Positions(c) /\ n \in Taken(table, capacity) /\ n \in Positions(capacity)
      /\ table[n] \in Element /\ k \in Keys /\ Taken(t, c) # Positions(c)
      /\ ~IsEmpty(t[i]) => ~IsSame(t[i], k)
  BY <1>2, PlaceHasRoom DEF Taken
<1>4. Passed(t, c, k, i)
  BY <1>1, <1>2 DEF RehashFits
<1>5. OldSound' /\ Contents' = Contents
  <2>1. Hole' = Hole
    BY <1>2 DEF Hole
  <2>2. QED BY <1>1, <1>2, <2>1, OldKept
<1>6. ShiftFits' /\ CallFits'
  BY <1>1, <1>2 DEF ShiftFits, CallFits
<1>7. CASE IsEmpty(t[i])
  <2>1. /\ pc' = "rehash" /\ n' = n + 1 /\ i' = i
        /\ fresh'.elements = Put(t, i, table[n])
        /\ fresh'.capacity = c /\ fresh'.count = fresh.count + 1
    BY <1>7 DEF Place, Put
  <2>2. Put(t, i, table[n]) \in Tables(c)
    BY <1>3, PutIs
  <2> DEFINE u == Put(t, i, table[n])
  <2>3. /\ Reachable(t, c, {}) /\ OneEach(t, c, {})
        /\ fresh.count = Cardinality(Taken(t, c))
        /\ 2 * count <= c /\ (call.what = "insert" => 2 * (count + 1) <= c)
    BY <1>1, <1>2 DEF NewSound
  <2>4. /\ Reachable(u, c, {}) /\ OneEach(u, c, {})
        /\ Cardinality(Taken(u, c)) = Cardinality(Taken(t, c)) + 1
        /\ Entries(u, Taken(u, c)) = Entries(t, Taken(t, c)) \cup {Pair(table[n])}
    BY <1>1, <1>3, <1>4, <1>7, <2>3, FillKeeps
  <2> HIDE DEF t, c, k, u
  <2>5. TypeOK'
    <3>1. n' \in 0 .. capacity
      BY <1>1, <1>3, <2>1 DEF Positions
    <3>2. fresh'.elements \in Tables(fresh'.capacity)
      BY <2>1, <2>2
    <3>3. fresh'.capacity \in Nat /\ fresh'.count \in Nat
      BY <1>3, <2>1
    <3>4. QED BY <1>1, <1>2, <2>1, <3>1, <3>2, <3>3 DEF TypeOK
  <2>6. NewSound'
    <3>1. Reachable(fresh.elements, fresh.capacity, {})'
      BY <1>2, <2>1, <2>4 DEF Reachable, u
    <3>2. QED BY <1>2, <2>1, <2>3, <2>4, <3>1 DEF NewSound, u
  <2>7. Powers'
    BY <1>1, <1>2, <2>1 DEF Powers, c
  <2>8. RehashFits'
    <3>1. Copied' = Copied \cup {n} /\ n \notin Copied
      <4>1. \A p \in Taken(table, capacity) : p < n + 1 <=> (p < n \/ p = n)
        BY <1>3 DEF Taken, Positions
      <4>2. ~(n < n)
        BY <1>3 DEF Positions
      <4>3. QED BY <1>2, <1>3, <2>1, <4>1, <4>2 DEF Copied
    <3>2. /\ fresh.count = Cardinality(Copied)
          /\ Entries(t, Taken(t, c)) = Entries(table, Copied)
      BY <1>1, <1>2 DEF RehashFits, t, c
    <3>3. Cardinality(Copied \cup {n}) = Cardinality(Copied) + 1
      <4>1. IsFiniteSet(Taken(table, capacity))
        BY <1>1, TakenFinite
      <4>2. Copied \in SUBSET Taken(table, capacity)
        BY DEF Copied
      <4>3. IsFiniteSet(Copied)
        BY <4>1, <4>2, FS_Subset
      <4>4. QED BY <3>1, <4>3, FS_AddElement
    <3>4. Entries(table, Copied \cup {n}) = Entries(table, Copied) \cup {Pair(table[n])}
      BY DEF Entries
    <3>5. fresh'.count = Cardinality(Copied')
      BY <2>1, <3>1, <3>2, <3>3
    <3>6. Entries(fresh'.elements, Taken(fresh'.elements, fresh'.capacity))
            = Entries(table', Copied')
      BY <1>2, <2>1, <2>4, <3>1, <3>2, <3>4 DEF u
    <3>7. call'.what \in {"insert", "reserve"}
      BY <1>1, <1>2 DEF RehashFits
    <3>8. QED BY <2>1, <3>5, <3>6, <3>7 DEF RehashFits
  <2>9. QED BY <1>5, <1>6, <2>5, <2>6, <2>7, <2>8, PartsNext
<1>8. CASE ~IsEmpty(t[i])
  <2>1. ~IsSame(t[i], k)
    BY <1>3, <1>8
  <2>2. /\ i' = (i + 1) % c /\ pc' = pc /\ n' = n /\ fresh' = fresh
    BY <1>8, <2>1 DEF Place
  <2>3. i' \in Positions(c) /\ Passed(t, c, k, i')
    BY <1>1, <1>3, <1>4, <1>8, <2>1, <2>2, NextIs, PassedNext
  <2>4. TypeOK'
    BY <1>1, <1>2, <2>2, <2>3 DEF TypeOK
  <2>5. NewSound' /\ Powers'
    BY <1>1, <1>2, <2>2 DEF NewSound, Reachable, Powers
  <2>6. RehashFits'
    <3>1. Passed(fresh.elements, fresh.capacity, table[n].key, i)'
      BY <1>2, <2>2, <2>3 DEF Passed
    <3>2. Copied' = Copied
      BY <1>2, <2>2 DEF Copied
    <3>3. QED BY <1>1, <1>2, <2>2, <3>1, <3>2 DEF RehashFits
  <2>7. QED BY <1>5, <1>6, <2>4, <2>5, <2>6, PartsNext
<1>9. QED BY <1>7, <1>8

LEMMA RehashEndsSound ==
  ASSUME MapInv, RehashEnds
  PROVE  MapInv' /\ Contents' = Contents
<1>1. /\ TypeOK /\ OldSound /\ NewSound /\ Powers /\ CallFits /\ RehashFits /\ ShiftFits
      /\ HashOK /\ capacity \in Nat \ {0} /\ table \in Tables(capacity)
      /\ count \in Nat
  BY Parts
<1>2. /\ pc = "rehash" /\ n = capacity
      /\ table' = fresh.elements /\ capacity' = fresh.capacity /\ count' = fresh.count
      /\ fresh' = NoTable /\ pc' \in {"search", "idle"}
      /\ UNCHANGED <<hash, j, answer>>
  BY DEF RehashEnds, Search
<1>3. /\ capacity' \in Nat \ {0} /\ table' \in Tables(capacity') /\ count' \in Nat
      /\ IsPowerOfTwo(capacity')
  BY <1>1, <1>2 DEF TypeOK, Powers, IsPowerOfTwo
<1>4. Hole = {} /\ Hole' = {}
  BY <1>2 DEF Hole
<1>5. Copied = Taken(table, capacity)
  <2>1. \A p \in Taken(table, capacity) : p < n
    BY <1>1, <1>2 DEF Taken, Positions
  <2>2. QED BY <2>1 DEF Copied
<1>6. /\ count' = count
      /\ Entries(table', Taken(table', capacity')) = Entries(table, Taken(table, capacity))
  BY <1>1, <1>2, <1>4, <1>5 DEF RehashFits, OldSound
<1>7. /\ Reachable(table', capacity', {}) /\ OneEach(table', capacity', {})
      /\ count' = Cardinality(Taken(table', capacity')) /\ 2 * count' <= capacity'
      /\ call.what = "insert" => 2 * (count' + 1) <= capacity'
  BY <1>1, <1>2, <1>6 DEF NewSound
<1>8. Taken(table', capacity') # Positions(capacity')
  BY <1>3, <1>7, HalfEmpty
<1>9. OldSound' /\ Contents' = Contents
  <2>1. Reachable(table, capacity, {})'
    BY <1>2, <1>7 DEF Reachable
  <2>2. QED BY <1>4, <1>6, <1>7, <1>8, <2>1 DEF OldSound, Contents
<1>10. NewSound' /\ Powers' /\ RehashFits' /\ ShiftFits'
  BY <1>2, <1>3 DEF NewSound, Powers, RehashFits, ShiftFits
<1>11. /\ fresh'.capacity \in Nat /\ fresh'.count \in Nat
       /\ fresh'.elements \in Tables(fresh'.capacity)
  BY <1>2 DEF NoTable, EmptyTable, Tables
<1>12. CASE call.what = "insert"
  <2>1. pc' = "search" /\ i' = hash[call.key] % capacity' /\ call' = call
    BY <1>2, <1>12 DEF RehashEnds, Search
  <2>2. call.key \in Keys /\ call.value \in Values
    BY <1>1, <1>12 DEF CallFits
  <2>3. i' \in Positions(capacity') /\ Passed(table', capacity', call.key, i')
    BY <1>1, <1>3, <2>1, <2>2, HomeOfKey, PassedStarts
  <2>4. TypeOK'
    BY <1>1, <1>2, <1>3, <1>11, <2>1, <2>2, <2>3 DEF TypeOK
  <2>5. CallFits'
    <3>1. Passed(table, capacity, call.key, i)'
      BY <1>2, <2>1, <2>3 DEF Passed
    <3>2. QED BY <1>7, <1>12, <2>1, <2>2, <3>1 DEF CallFits
  <2>6. QED BY <1>9, <1>10, <2>4, <2>5, PartsNext
<1>13. CASE call.what # "insert"
  <2>1. pc' = "idle" /\ call' = NoCall
    BY <1>13 DEF RehashEnds
  <2>2. TypeOK'
    BY <1>1, <1>2, <1>3, <1>11, <2>1 DEF TypeOK, NoCall
  <2>3. CallFits'
    BY <2>1 DEF CallFits, NoCall
  <2>4. QED BY <1>9, <1>10, <2>2, <2>3, PartsNext
<1>14. QED BY <1>12, <1>13

-----------------------------------------------------------------------------
(* map_at and what follows it *)

LEMMA SearchNextSound ==
  ASSUME MapInv, SearchNext
  PROVE  MapInv' /\ Contents' = Contents
<1>1. /\ TypeOK /\ OldSound /\ NewSound /\ Powers /\ CallFits /\ RehashFits /\ ShiftFits
      /\ HashOK /\ capacity \in Nat \ {0} /\ table \in Tables(capacity)
  BY Parts
<1>2. /\ pc = "search" /\ pc' = "search" /\ i' = (i + 1) % capacity
      /\ ~IsEmpty(table[i]) /\ ~IsSame(table[i], call.key)
      /\ UNCHANGED <<hash, table, capacity, count, fresh, call, j, n, answer>>
  BY DEF SearchNext, Stops
<1>3. /\ i \in Positions(capacity) /\ call.key \in Keys
      /\ Passed(table, capacity, call.key, i)
      /\ Taken(table, capacity) # Positions(capacity)
  BY <1>1, <1>2 DEF TypeOK, CallFits, OldSound
<1>4. i' \in Positions(capacity) /\ Passed(table, capacity, call.key, i')
  BY <1>1, <1>2, <1>3, NextIs, PassedNext
<1>5. TypeOK'
  BY <1>1, <1>2, <1>4 DEF TypeOK
<1>6. OldSound' /\ Contents' = Contents
  <2>1. Hole' = Hole
    BY <1>2 DEF Hole
  <2>2. QED BY <1>1, <1>2, <2>1, OldKept
<1>7. NewSound' /\ RehashFits' /\ ShiftFits' /\ Powers'
  BY <1>1, <1>2 DEF NewSound, RehashFits, ShiftFits, Powers
<1>8. CallFits'
  <2>1. Passed(table, capacity, call.key, i)'
    BY <1>2, <1>4 DEF Passed
  <2>2. QED BY <1>1, <1>2, <2>1 DEF CallFits
<1>9. QED BY <1>5, <1>6, <1>7, <1>8, PartsNext

\* The map is idle, with the table as it was.
LEMMA IdleSound ==
  ASSUME MapInv, pc' = "idle" \/ pc' = "gone", call' = NoCall \/ call' = call,
         call'.what \in {"none", "at", "insert", "erase", "reserve"},
         hash' = hash, fresh' = fresh, OldSound', capacity' = capacity,
         table' \in Tables(capacity), count' \in Nat
  PROVE  MapInv'
<1>1. TypeOK /\ Powers /\ CallFits
  BY Parts
<1>2. TypeOK'
  BY <1>1 DEF TypeOK, NoCall
<1>3. NewSound' /\ RehashFits' /\ ShiftFits' /\ Powers' /\ CallFits'
  BY <1>1 DEF NewSound, RehashFits, ShiftFits, Powers, CallFits, NoCall
<1>4. QED BY <1>2, <1>3, PartsNext

\* A search that finds its key, or nothing.
LEMMA FoundIs ==
  ASSUME MapInv, pc = "search"
  PROVE  /\ i \in Positions(capacity) /\ call.key \in Keys
         /\ IsEmpty(table[i]) => \A e \in Contents : e[1] # call.key
         /\ (~IsEmpty(table[i]) /\ IsSame(table[i], call.key)) =>
              /\ i \in Taken(table, capacity)
              /\ Pair(table[i])[1] = call.key
              /\ \A p \in Taken(table, capacity) : table[p].key = call.key => p = i
              /\ {e \in Contents : e[1] = call.key} = {Pair(table[i])}
<1>1. /\ TypeOK /\ OldSound /\ CallFits
      /\ HashOK /\ capacity \in Nat \ {0} /\ table \in Tables(capacity)
  BY Parts
<1>2. Hole = {} /\ Contents = Entries(table, Taken(table, capacity))
  BY DEF Hole, Contents
<1>3. /\ i \in Positions(capacity) /\ call.key \in Keys
      /\ Passed(table, capacity, call.key, i)
      /\ Reachable(table, capacity, {}) /\ OneEach(table, capacity, {})
  BY <1>1, <1>2 DEF TypeOK, CallFits, OldSound
<1>4. ASSUME IsEmpty(table[i]), NEW e \in Contents
      PROVE  e[1] # call.key
  <2>1. PICK p \in Taken(table, capacity) : e = Pair(table[p])
    BY <1>2, <1>4 DEF Entries
  <2>2. table[p].key # call.key
    BY <1>1, <1>3, <1>4, <2>1, AbsentAtEmpty
  <2>3. QED BY <2>1, <2>2 DEF Pair
<1>5. ASSUME ~IsEmpty(table[i]), IsSame(table[i], call.key)
      PROVE  /\ i \in Taken(table, capacity)
             /\ Pair(table[i])[1] = call.key
             /\ \A p \in Taken(table, capacity) : table[p].key = call.key => p = i
             /\ {e \in Contents : e[1] = call.key} = {Pair(table[i])}
  <2>1. i \in Taken(table, capacity) /\ Pair(table[i])[1] = call.key
    BY <1>3, <1>5 DEF Taken, IsSame, Pair
  <2>2. \A p \in Taken(table, capacity) : table[p].key = call.key => p = i
    BY <1>3, <1>5, <2>1, OneAtKey
  <2>3. ASSUME NEW e \in Contents, e[1] = call.key
        PROVE  e = Pair(table[i])
    <3>1. PICK p \in Taken(table, capacity) : e = Pair(table[p])
      BY <1>2, <2>3 DEF Entries
    <3>2. table[p].key = call.key
      BY <2>3, <3>1 DEF Pair
    <3>3. QED BY <2>2, <3>1, <3>2
  <2>4. Pair(table[i]) \in Contents
    BY <1>2, <2>1 DEF Entries
  <2>5. QED BY <2>1, <2>2, <2>3, <2>4
<1>6. QED BY <1>3, <1>4, <1>5

\* The calls that end with the table as it was.
LEMMA KeepsSound ==
  ASSUME MapInv, pc = "search", pc' = "idle", call' = NoCall,
         UNCHANGED <<hash, table, capacity, count, fresh>>
  PROVE  MapInv' /\ Contents' = Contents
<1>1. /\ TypeOK /\ OldSound /\ table \in Tables(capacity) /\ count \in Nat
  BY Parts
<1>2. Hole' = Hole
  BY DEF Hole
<1>3. OldSound' /\ Contents' = Contents
  BY <1>1, <1>2, OldKept
<1>4. call'.what \in {"none", "at", "insert", "erase", "reserve"}
  BY DEF NoCall
<1>5. MapInv'
  BY <1>1, <1>3, <1>4, IdleSound
<1>6. QED BY <1>3, <1>5

\* The end of map_insert, at an empty element.
LEMMA InsertEndsSound ==
  ASSUME MapInv, InsertEnds, IsEmpty(table[i])
  PROVE  /\ MapInv'
         /\ Contents' = Contents \cup {<<call.key, call.value>>}
<1> DEFINE e == [key |-> call.key, value |-> call.value]
<1>1. /\ TypeOK /\ OldSound /\ CallFits
      /\ HashOK /\ capacity \in Nat \ {0} /\ table \in Tables(capacity)
      /\ count \in Nat
  BY Parts
<1>2. /\ pc = "search" /\ call.what = "insert" /\ pc' = "idle" /\ call' = NoCall
      /\ table' = Put(table, i, e) /\ count' = count + 1
      /\ UNCHANGED <<hash, capacity, fresh>>
  BY DEF InsertEnds, Finish, Put
<1>3. Hole = {} /\ Hole' = {}
  BY <1>2 DEF Hole
<1>4. /\ i \in Positions(capacity) /\ call.key \in Keys /\ call.value \in Values
      /\ Passed(table, capacity, call.key, i) /\ 2 * (count + 1) <= capacity
      /\ Reachable(table, capacity, {}) /\ OneEach(table, capacity, {})
      /\ count = Cardinality(Taken(table, capacity))
  BY <1>1, <1>2, <1>3 DEF TypeOK, CallFits, OldSound
<1>5. e \in Element /\ e.key = call.key /\ Pair(e) = <<call.key, call.value>>
  BY <1>4 DEF Element, Pair
<1> HIDE DEF e
<1>6. table' \in Tables(capacity)
  BY <1>1, <1>2, <1>4, <1>5, PutIs
<1>7. /\ Reachable(table', capacity, {}) /\ OneEach(table', capacity, {})
      /\ Cardinality(Taken(table', capacity)) = Cardinality(Taken(table, capacity)) + 1
      /\ Entries(table', Taken(table', capacity)) =
           Entries(table, Taken(table, capacity)) \cup {Pair(e)}
  BY <1>1, <1>2, <1>4, <1>5, FillKeeps
<1>8. 2 * count' <= capacity /\ count' \in Nat
  BY <1>1, <1>2, <1>4
<1>9. Taken(table', capacity) # Positions(capacity)
  BY <1>1, <1>2, <1>4, <1>7, <1>8, HalfEmpty
<1>10. OldSound'
  <2>1. Reachable(table, capacity, {})'
    BY <1>2, <1>7 DEF Reachable
  <2>2. QED BY <1>2, <1>3, <1>4, <1>7, <1>8, <1>9, <2>1 DEF OldSound
<1>11. Contents' = Contents \cup {<<call.key, call.value>>}
  BY <1>2, <1>3, <1>5, <1>7 DEF Contents
<1>12. call'.what \in {"none", "at", "insert", "erase", "reserve"}
  BY <1>2 DEF NoCall
<1>13. QED BY <1>2, <1>6, <1>8, <1>10, <1>11, <1>12, IdleSound

LEMMA CountWithout ==
  ASSUME NEW c \in Nat, NEW t, NEW p \in Taken(t, c)
  PROVE  /\ Cardinality(Taken(t, c) \ {p}) = Cardinality(Taken(t, c)) - 1
         /\ Cardinality(Taken(t, c) \ {p}) \in Nat
<1>1. IsFiniteSet(Taken(t, c))
  BY TakenFinite
<1>2. /\ IsFiniteSet(Taken(t, c) \ {p})
      /\ Cardinality(Taken(t, c) \ {p}) = Cardinality(Taken(t, c)) - 1
  BY <1>1, FS_RemoveElement
<1>3. Cardinality(Taken(t, c) \ {p}) \in Nat
  BY <1>2, FS_CardinalityType
<1>4. QED BY <1>2, <1>3

\* map_erase: the element that was found is the hole.
LEMMA EraseHitsSound ==
  ASSUME MapInv, EraseHits
  PROVE  /\ MapInv'
         /\ Contents' = Contents \ {e \in Contents : e[1] = call.key}
         /\ {e \in Contents : e[1] = call.key} = {Pair(table[i])}
<1>1. /\ TypeOK /\ OldSound /\ NewSound /\ Powers /\ CallFits
      /\ HashOK /\ capacity \in Nat \ {0} /\ table \in Tables(capacity)
      /\ count \in Nat
  BY Parts
<1>2. /\ pc = "search" /\ ~IsEmpty(table[i]) /\ IsSame(table[i], call.key)
      /\ call.what = "erase"
      /\ pc' = "shift" /\ j' = i /\ i' = i /\ count' = count - 1
      /\ UNCHANGED <<hash, table, capacity, fresh, call, n>>
  BY DEF EraseHits, Stops
<1>3. /\ i \in Positions(capacity) /\ call.key \in Keys /\ i \in Taken(table, capacity)
      /\ Pair(table[i])[1] = call.key
      /\ \A p \in Taken(table, capacity) : table[p].key = call.key => p = i
      /\ {e \in Contents : e[1] = call.key} = {Pair(table[i])}
  BY <1>2, FoundIs
<1>4. Hole = {} /\ Hole' = {i}
  BY <1>2 DEF Hole
<1>5. /\ Reachable(table, capacity, {}) /\ OneEach(table, capacity, {})
      /\ count = Cardinality(Taken(table, capacity)) /\ 2 * count <= capacity
      /\ Taken(table, capacity) # Positions(capacity)
  BY <1>1, <1>4 DEF OldSound
<1>6. /\ count' = Cardinality(Taken(table, capacity) \ {i}) /\ count' \in Nat
      /\ 2 * count' <= capacity
  <2>1. /\ Cardinality(Taken(table, capacity) \ {i}) = Cardinality(Taken(table, capacity)) - 1
        /\ Cardinality(Taken(table, capacity) \ {i}) \in Nat
    BY <1>1, <1>3, CountWithout
  <2>2. QED BY <1>1, <1>2, <1>5, <2>1
<1>7. TypeOK'
  BY <1>1, <1>2, <1>3, <1>6 DEF TypeOK
<1>8. OldSound'
  <2>1. Reachable(table, capacity, {i})'
    BY <1>2, <1>5 DEF Reachable
  <2>2. OneEach(table, capacity, {i})
    BY <1>5 DEF OneEach
  <2>3. QED BY <1>2, <1>4, <1>5, <1>6, <2>1, <2>2 DEF OldSound
<1>9. NewSound' /\ RehashFits' /\ Powers' /\ CallFits'
  BY <1>1, <1>2 DEF NewSound, RehashFits, Powers, CallFits
<1>10. ShiftFits'
  <2>1. Between(i, i, capacity) \ {i} = {}
    BY <1>1, <1>3, BetweenSelf
  <2>2. QED BY <1>2, <1>3, <2>1 DEF ShiftFits
<1>11. Contents' = Contents \ {Pair(table[i])}
  <2>1. /\ Contents = Entries(table, Taken(table, capacity))
        /\ Contents' = Entries(table, Taken(table, capacity) \ {i})
    BY <1>2, <1>4 DEF Contents
  <2>2. \A p \in Taken(table, capacity) : p # i => Pair(table[p]) # Pair(table[i])
    <3>1. ASSUME NEW p \in Taken(table, capacity), Pair(table[p]) = Pair(table[i])
          PROVE  p = i
      <4>1. table[p].key = call.key
        BY <1>2, <3>1 DEF Pair, IsSame
      <4>2. QED BY <1>3, <4>1
    <3>2. QED BY <3>1
  <2>3. QED BY <1>3, <2>1, <2>2 DEF Entries
<1>12. QED BY <1>3, <1>7, <1>8, <1>9, <1>10, <1>11, PartsNext

LEMMA ShiftSound ==
  ASSUME MapInv, Shift
  PROVE  MapInv' /\ Contents' = Contents
<1> DEFINE to == (j + 1) % capacity
           k == hash[table[to].key] % capacity
<1>1. /\ TypeOK /\ OldSound /\ NewSound /\ Powers /\ CallFits /\ ShiftFits
      /\ HashOK /\ capacity \in Nat \ {0} /\ table \in Tables(capacity)
      /\ count \in Nat
  BY Parts
<1>2. /\ pc = "shift" /\ pc' \in {"shift", "idle"}
      /\ UNCHANGED <<hash, capacity, count, fresh, n, answer>>
  BY <1>1 DEF Shift
<1>3. i \in Positions(capacity) /\ j \in Positions(capacity) /\ to \in Positions(capacity)
  BY <1>1, <1>2, NextIs DEF TypeOK
<1>4. Hole = {i}
  BY <1>2 DEF Hole
<1>5. /\ Reachable(table, capacity, {i}) /\ OneEach(table, capacity, {i})
      /\ count = Cardinality(Taken(table, capacity) \ {i}) /\ 2 * count <= capacity
      /\ Taken(table, capacity) # Positions(capacity)
      /\ Contents = Entries(table, Taken(table, capacity) \ {i})
  BY <1>1, <1>4 DEF OldSound, Contents
<1>6. HoleFits(table, capacity, i, j)
  BY <1>1, <1>2 DEF ShiftFits, HoleFits
<1>7. CASE IsEmpty(table[to])
  <2>1. /\ table' = Put(table, i, NoElement) /\ pc' = "idle" /\ call' = NoCall
    BY <1>7 DEF Shift, Put
  <2> DEFINE u == Put(table, i, NoElement)
  <2>2. /\ u \in Tables(capacity)
        /\ Taken(u, capacity) = Taken(table, capacity) \ {i}
        /\ Reachable(u, capacity, {}) /\ OneEach(u, capacity, {})
        /\ Entries(u, Taken(table, capacity) \ {i}) = Contents
    BY <1>1, <1>3, <1>5, <1>6, <1>7, ShiftEnds
  <2> HIDE DEF u
  <2>3. Hole' = {}
    BY <2>1 DEF Hole
  <2>4. OldSound'
    <3>1. Reachable(table, capacity, {})'
      BY <1>2, <2>1, <2>2 DEF Reachable, u
    <3>2. i \notin Taken(u, capacity)
      BY <2>2
    <3>3. QED BY <1>2, <1>3, <1>5, <2>1, <2>2, <2>3, <3>1, <3>2 DEF OldSound, u
  <2>5. Contents' = Contents
    BY <1>2, <2>1, <2>2, <2>3 DEF Contents, u
  <2>6. call'.what \in {"none", "at", "insert", "erase", "reserve"}
    BY <2>1 DEF NoCall
  <2>7. table' \in Tables(capacity) /\ count' \in Nat
    BY <1>1, <1>2, <2>1, <2>2 DEF u
  <2>8. MapInv'
    BY <1>2, <2>1, <2>4, <2>6, <2>7, IdleSound
  <2>9. QED BY <2>5, <2>8
<1>8. ASSUME ~IsEmpty(table[to])
      PROVE  /\ to \in Taken(table, capacity) /\ to # i
             /\ Moves(k, to) <=> i \in Between(k, to, capacity)
  <2>1. to # i
    BY <1>1, <1>3, <1>5, <1>6, HoleIsBehind
  <2>2. to \in Taken(table, capacity) /\ table[to].key \in Keys
    BY <1>1, <1>3, <1>8, TakenIs
  <2>3. k \in Positions(capacity)
    BY <1>1, <2>2, HomeOfKey
  <2> HIDE DEF to, k
  <2>4. Moves(k, to) <=> i \in Between(k, to, capacity)
    BY <1>1, <1>3, <2>1, <2>3, MovesIs
  <2>5. QED BY <2>1, <2>2, <2>4
<1>9. CASE ~IsEmpty(table[to]) /\ ~Moves(k, to)
  <2>1. /\ table' = table /\ i' = i /\ j' = to /\ pc' = pc /\ call' = call
    BY <1>9 DEF Shift
  <2>2. HoleFits(table, capacity, i, to)
    BY <1>1, <1>3, <1>5, <1>6, <1>8, <1>9, ShiftStays
  <2> HIDE DEF to, k
  <2>3. TypeOK'
    BY <1>1, <1>2, <1>3, <2>1 DEF TypeOK
  <2>4. OldSound' /\ Contents' = Contents
    <3>1. Hole' = Hole
      BY <2>1 DEF Hole
    <3>2. QED BY <1>1, <1>2, <2>1, <3>1, OldKept
  <2>5. NewSound' /\ RehashFits' /\ Powers' /\ CallFits'
    BY <1>1, <1>2, <2>1 DEF NewSound, RehashFits, Powers, CallFits
  <2>6. ShiftFits'
    BY <1>2, <2>1, <2>2 DEF ShiftFits, HoleFits
  <2>7. QED BY <2>3, <2>4, <2>5, <2>6, PartsNext
<1>10. CASE ~IsEmpty(table[to]) /\ Moves(k, to)
  <2> DEFINE u == Put(table, i, table[to])
  <2>1. /\ table' = u /\ i' = to /\ j' = to /\ pc' = pc /\ call' = call
    BY <1>10 DEF Shift, Put
  <2>2. i \in Between(k, to, capacity)
    BY <1>8, <1>10
  <2>3. /\ u \in Tables(capacity) /\ Taken(u, capacity) = Taken(table, capacity)
        /\ Reachable(u, capacity, {to}) /\ OneEach(u, capacity, {to})
        /\ Cardinality(Taken(table, capacity) \ {to})
             = Cardinality(Taken(table, capacity) \ {i})
        /\ Entries(u, Taken(table, capacity) \ {to})
             = Entries(table, Taken(table, capacity) \ {i})
        /\ HoleFits(u, capacity, to, to)
    BY <1>1, <1>3, <1>5, <1>6, <1>10, <2>2, ShiftMoves
  <2> HIDE DEF u, to, k
  <2>4. TypeOK'
    BY <1>1, <1>2, <1>3, <2>1, <2>3 DEF TypeOK
  <2>5. Hole' = {to}
    BY <1>2, <2>1 DEF Hole
  <2>6. OldSound'
    <3>1. Reachable(table, capacity, Hole)'
      BY <1>2, <2>1, <2>3, <2>5 DEF Reachable
    <3>2. QED BY <1>2, <1>5, <2>1, <2>3, <2>5, <3>1 DEF OldSound
  <2>7. Contents' = Contents
    BY <1>2, <1>5, <2>1, <2>3, <2>5 DEF Contents
  <2>8. NewSound' /\ RehashFits' /\ Powers' /\ CallFits'
    BY <1>1, <1>2, <2>1 DEF NewSound, RehashFits, Powers, CallFits
  <2>9. ShiftFits'
    BY <1>2, <2>1, <2>3 DEF ShiftFits, HoleFits
  <2>10. QED BY <2>4, <2>6, <2>7, <2>8, <2>9, PartsNext
<1>11. QED BY <1>7, <1>9, <1>10

-----------------------------------------------------------------------------
(* Construction, map_clear and map_destruct *)

LEMMA EmptyIs ==
  ASSUME NEW c \in Nat \ {0}
  PROVE  /\ EmptyTable(c) \in Tables(c) /\ Taken(EmptyTable(c), c) = {}
         /\ Taken(EmptyTable(c), c) # Positions(c)
<1>1. EmptyTable(c) \in Tables(c)
  BY DEF EmptyTable, Tables
<1>2. Taken(EmptyTable(c), c) = {}
  BY DEF Taken, EmptyTable, IsEmpty, NoElement
<1>3. 0 \in Positions(c)
  BY DEF Positions
<1>4. QED BY <1>1, <1>2, <1>3

LEMMA InitSound ==
  ASSUME Init
  PROVE  MapInv /\ Contents = {}
<1>1. /\ hash \in [Keys -> Hashes]
      /\ capacity = MinCapacity /\ table = EmptyTable(MinCapacity) /\ count = 0
      /\ fresh = NoTable /\ pc = "idle" /\ call = NoCall
  BY DEF Init
<1>2. MinCapacity \in Nat \ {0}
  BY CapacityAssumption DEF IsPowerOfTwo
<1>3. /\ table \in Tables(capacity) /\ Taken(table, capacity) = {}
      /\ Taken(table, capacity) # Positions(capacity)
  BY <1>1, <1>2, EmptyIs
<1>4. TypeOK
  <2>1. fresh.capacity = 0 /\ fresh.count = 0 /\ fresh.elements \in Tables(fresh.capacity)
    BY <1>1 DEF NoTable, EmptyTable, Tables
  <2>2. QED BY <1>1, <1>2, <1>3, <2>1 DEF TypeOK, NoCall
<1>5. OldSound
  <2>1. Reachable(table, capacity, Hole) /\ OneEach(table, capacity, Hole)
    BY <1>3 DEF Reachable, OneEach
  <2>2. Taken(table, capacity) \ Hole = {}
    BY <1>3
  <2>3. count = Cardinality(Taken(table, capacity) \ Hole)
    BY <1>1, <2>2, FS_EmptySet
  <2>4. 2 * count <= capacity
    BY <1>1, <1>2
  <2>5. QED BY <1>3, <2>1, <2>3, <2>4 DEF OldSound
<1>6. Powers
  BY <1>1, CapacityAssumption DEF Powers
<1>7. NewSound /\ CallFits /\ RehashFits /\ ShiftFits
  BY <1>1 DEF NewSound, CallFits, RehashFits, ShiftFits, NoCall
<1>8. Contents = {}
  BY <1>3 DEF Contents, Entries
<1>9. QED BY <1>4, <1>5, <1>6, <1>7, <1>8, Parts

LEMMA EmptiesSound ==
  ASSUME MapInv, Clear \/ Destruct
  PROVE  /\ MapInv' /\ Contents' = {} /\ answer' = <<"released", Contents>>
<1>1. /\ TypeOK /\ Powers /\ CallFits /\ capacity \in Nat \ {0}
  BY Parts
<1>2. /\ pc = "idle" /\ pc' \in {"idle", "gone"}
      /\ capacity' \in {MinCapacity, capacity}
      /\ table' = EmptyTable(capacity') /\ count' = 0
      /\ answer' = <<"released", Released>>
      /\ UNCHANGED <<hash, fresh, call>>
  BY DEF Clear, Destruct
<1>3. capacity' \in Nat \ {0} /\ IsPowerOfTwo(capacity')
  <2>1. MinCapacity \in Nat \ {0}
    BY CapacityAssumption DEF IsPowerOfTwo
  <2>2. IsPowerOfTwo(capacity)
    BY <1>1 DEF Powers
  <2>3. CASE capacity' = MinCapacity
    BY <2>1, <2>3, CapacityAssumption
  <2>4. CASE capacity' = capacity
    BY <1>1, <2>2, <2>4
  <2>5. QED BY <1>2, <2>3, <2>4
<1>4. /\ table' \in Tables(capacity') /\ Taken(table', capacity') = {}
      /\ Taken(table', capacity') # Positions(capacity')
  BY <1>2, <1>3, EmptyIs
<1>5. TypeOK'
  BY <1>1, <1>2, <1>3, <1>4 DEF TypeOK
<1>6. OldSound'
  <2>1. Reachable(table, capacity, Hole)' /\ OneEach(table, capacity, Hole)'
    BY <1>4 DEF Reachable, OneEach
  <2>2. Taken(table', capacity') \ Hole' = {}
    BY <1>4
  <2>3. count' = Cardinality(Taken(table', capacity') \ Hole')
    BY <1>2, <2>2, FS_EmptySet
  <2>4. 2 * count' <= capacity'
    BY <1>2, <1>3
  <2>5. QED BY <1>4, <2>1, <2>3, <2>4 DEF OldSound
<1>7. Powers'
  BY <1>2, <1>3 DEF Powers
<1>8. NewSound' /\ CallFits' /\ RehashFits' /\ ShiftFits'
  BY <1>1, <1>2 DEF NewSound, CallFits, RehashFits, ShiftFits
<1>9. Contents' = {}
  BY <1>4 DEF Contents, Entries
<1>10. Released = Contents
  BY <1>2 DEF Released, Contents, Entries, Taken, Hole
<1>11. QED BY <1>2, <1>5, <1>6, <1>7, <1>8, <1>9, <1>10, PartsNext

-----------------------------------------------------------------------------
(* The calls *)

LEMMA CallsSound ==
  ASSUME MapInv,
         \/ \E k \in Keys : At(k) \/ Erase(k)
         \/ \E k \in Keys, v \in Values : Insert(k, v)
         \/ \E size \in 0 .. MaxReserve : Reserve(size)
  PROVE  MapInv' /\ Contents' = Contents /\ answer' = NoAnswer
<1>1. /\ OldSound /\ capacity \in Nat \ {0} /\ count \in Nat
      /\ 2 * count <= capacity
  BY Parts DEF OldSound
<1>2. ASSUME NEW k \in Keys, At(k) \/ Erase(k)
      PROVE  MapInv' /\ Contents' = Contents /\ answer' = NoAnswer
  <2>1. /\ Search(k, capacity) /\ pc = "idle"
        /\ UNCHANGED <<hash, table, capacity, count, fresh>>
        /\ call'.key = k /\ call'.value = NoKey /\ call'.what \in {"at", "erase"}
        /\ answer' = NoAnswer
    BY <1>2 DEF At, Erase, Call
  <2>2. QED BY <2>1, SearchSound
<1>3. ASSUME NEW k \in Keys, NEW v \in Values, Insert(k, v)
      PROVE  MapInv' /\ Contents' = Contents /\ answer' = NoAnswer
  <2>1. /\ pc = "idle" /\ UNCHANGED <<hash, table, capacity, count>>
        /\ call'.key = k /\ call'.value = v /\ call'.what = "insert"
        /\ answer' = NoAnswer
    BY <1>3 DEF Insert, Call
  <2>2. CASE NeedsRehash(count + 1)
    <3>1. Rehash(2 * (count + 1))
      BY <1>3, <2>2 DEF Insert
    <3>2. 2 * (count + 1) \in Nat \ {0} /\ 2 * count <= 2 * (count + 1)
      BY <1>1
    <3>3. 2 * (count + 1) <= 2 * (count + 1)
      BY <1>1
    <3>4. QED BY <2>1, <3>1, <3>2, <3>3, RehashSound
  <2>3. CASE ~NeedsRehash(count + 1)
    <3>1. Search(k, capacity) /\ fresh' = fresh
      BY <1>3, <2>3 DEF Insert
    <3>2. 2 * (count + 1) <= capacity
      BY <1>1, <2>3 DEF NeedsRehash
    <3>3. QED BY <2>1, <3>1, <3>2, SearchSound
  <2>4. QED BY <2>2, <2>3
<1>4. ASSUME NEW size \in 0 .. MaxReserve, Reserve(size)
      PROVE  MapInv' /\ Contents' = Contents /\ answer' = NoAnswer
  <2>1. /\ pc = "idle" /\ UNCHANGED <<hash, table, capacity, count>>
        /\ call'.key = NoKey /\ call'.value = NoKey /\ call'.what = "reserve"
        /\ answer' = NoAnswer /\ Rehash(2 * size) /\ 2 * size > capacity
    BY <1>4 DEF Reserve, Call, NeedsRehash
  <2>2. 2 * size \in Nat \ {0} /\ 2 * count <= 2 * size
    BY <1>1, <2>1
  <2>3. QED BY <2>1, <2>2, RehashSound
<1>5. QED BY <1>2, <1>3, <1>4

-----------------------------------------------------------------------------
(* The theorems *)

NextIsACall ==
  \/ \E k \in Keys : At(k) \/ Erase(k)
  \/ \E k \in Keys, v \in Values : Insert(k, v)
  \/ \E size \in 0 .. MaxReserve : Reserve(size)

LEMMA EndsSound ==
  ASSUME MapInv, AtEnds \/ EraseMisses \/ (InsertEnds /\ ~IsEmpty(table[i]))
  PROVE  MapInv' /\ Contents' = Contents
<1>1. /\ pc = "search" /\ pc' = "idle" /\ call' = NoCall
      /\ UNCHANGED <<hash, table, capacity, count, fresh>>
  BY DEF AtEnds, EraseMisses, InsertEnds, Finish
<1>2. QED BY <1>1, KeepsSound

LEMMA StutterSound ==
  ASSUME MapInv, UNCHANGED vars
  PROVE  MapInv' /\ Contents' = Contents
<1>1. Hole' = Hole
  BY DEF Hole, vars
<1>2. OldSound' /\ Contents' = Contents
  BY <1>1, Parts, OldKept DEF vars
<1>3. TypeOK' /\ NewSound' /\ Powers' /\ CallFits' /\ RehashFits' /\ ShiftFits'
  BY Parts DEF vars, TypeOK, NewSound, Powers, CallFits, RehashFits, ShiftFits,
               Reachable, Passed, Copied
<1>4. QED BY <1>2, <1>3, PartsNext

LEMMA NextSound ==
  ASSUME MapInv, [Next]_vars
  PROVE  MapInv'
<1>1. CASE NextIsACall
  BY <1>1, CallsSound DEF NextIsACall
<1>2. CASE InsertEnds
  BY <1>2, InsertEndsSound, EndsSound
<1>3. QED
  BY <1>1, <1>2, EmptiesSound, RehashNextSound, PlaceSound, RehashEndsSound,
     SearchNextSound, EndsSound, EraseHitsSound, ShiftSound, StutterSound
  DEF Next, Step, NextIsACall

\* The inductive invariant: besides the property below, that the capacities are
\* powers of two, so that & (capacity - 1) of map.c is the remainder, what a search
\* and a rehash have passed, and that no element before the position of the shift
\* has to pass the hole.
THEOREM MapCorrect == Spec => []MapInv
<1>1. Init => MapInv
  BY InitSound
<1>2. MapInv /\ [Next]_vars => MapInv'
  BY NextSound
<1>3. QED BY <1>1, <1>2, PTL DEF Spec

\* In every step of every loop each element is found from its hash, once, the counts
\* are right, and an element is empty, so that a search ends.
THEOREM MapSoundAlways == Spec => []MapSound
<1>1. MapInv => MapSound
  BY DEF MapInv
<1>2. QED BY <1>1, MapCorrect, PTL

-----------------------------------------------------------------------------
(* A map is a dictionary, of its contents. *)

LEMMA AtEndsStep ==
  ASSUME MapInv, AtEnds
  PROVE  Abstract!Next
<1>1. /\ pc = "search" /\ Contents' = Contents
      /\ answer' = <<"found", IF IsEmpty(table[i]) THEN {} ELSE {Pair(table[i])}>>
      /\ IsEmpty(table[i]) \/ IsSame(table[i], call.key)
  BY EndsSound DEF AtEnds, Finish, Stops
<1>2. call.key \in Keys
  BY <1>1, FoundIs
<1>3. (IF IsEmpty(table[i]) THEN {} ELSE {Pair(table[i])}) =
        {e \in Contents : e[1] = call.key}
  BY <1>1, FoundIs
<1>4. Abstract!At(call.key)
  BY <1>1, <1>3 DEF Abstract!At, Abstract!Of, Contents, Entries
<1>5. QED BY <1>2, <1>4 DEF Abstract!Next

LEMMA InsertEndsStep ==
  ASSUME MapInv, InsertEnds
  PROVE  Abstract!Next
<1>1. /\ pc = "search" /\ call.what = "insert"
      /\ IsEmpty(table[i]) \/ IsSame(table[i], call.key)
  BY DEF InsertEnds, Stops
<1>2. call.key \in Keys /\ call.value \in Values
  BY <1>1, Parts DEF CallFits
<1> DEFINE Of == {e \in Contents : e[1] = call.key}
<1>3. CASE IsEmpty(table[i])
  <2>1. Contents' = Contents \cup {<<call.key, call.value>>}
    BY <1>3, InsertEndsSound
  <2>2. Of = {}
    BY <1>1, <1>3, FoundIs
  <2>3. answer' = <<"released", {}>>
    BY <1>3 DEF InsertEnds, Finish
  <2>4. Abstract!Insert(call.key, call.value)
    BY <2>1, <2>2, <2>3 DEF Abstract!Insert, Abstract!Of, Contents, Entries
  <2>5. QED BY <1>2, <2>4 DEF Abstract!Next
<1>4. CASE ~IsEmpty(table[i])
  <2>1. Contents' = Contents
    BY <1>4, EndsSound
  <2>2. Of # {}
    BY <1>1, <1>4, FoundIs
  <2>3. answer' = <<"released", {<<call.key, call.value>>}>>
    BY <1>4 DEF InsertEnds, Finish
  <2>4. Abstract!Insert(call.key, call.value)
    BY <2>1, <2>2, <2>3 DEF Abstract!Insert, Abstract!Of, Contents, Entries
  <2>5. QED BY <1>2, <2>4 DEF Abstract!Next
<1>5. QED BY <1>3, <1>4

LEMMA EraseStep ==
  ASSUME MapInv, EraseMisses \/ EraseHits
  PROVE  Abstract!Next
<1>1. pc = "search"
  BY DEF EraseMisses, EraseHits
<1>2. call.key \in Keys
  BY <1>1, FoundIs
<1> DEFINE Of == {e \in Contents : e[1] = call.key}
<1>3. Contents' = Contents \ Of /\ answer' = <<"released", Of>>
  <2>1. CASE EraseMisses
    <3>1. Contents' = Contents /\ answer' = <<"released", {}>> /\ IsEmpty(table[i])
      BY <2>1, EndsSound DEF EraseMisses, Finish
    <3>2. Of = {}
      BY <1>1, <3>1, FoundIs
    <3>3. QED BY <3>1, <3>2
  <2>2. CASE EraseHits
    <3>1. answer' = <<"released", {Pair(table[i])}>>
      BY <2>2 DEF EraseHits
    <3>2. QED BY <2>2, <3>1, EraseHitsSound
  <2>3. QED BY <2>1, <2>2
<1>4. Abstract!Erase(call.key)
  BY <1>3 DEF Abstract!Erase, Abstract!Of, Contents, Entries
<1>5. QED BY <1>2, <1>4 DEF Abstract!Next

LEMMA StepImplements ==
  ASSUME MapInv, [Next]_vars
  PROVE  [Abstract!Next]_<<Contents, answer>>
<1>1. CASE NextIsACall
  <2>1. Contents' = Contents /\ answer' = NoAnswer
    BY <1>1, CallsSound DEF NextIsACall
  <2>2. Abstract!Begin
    BY <2>1 DEF Abstract!Begin, Abstract!NoAnswer, NoAnswer, Contents, Entries
  <2>3. QED BY <2>2 DEF Abstract!Next
<1>2. CASE Clear \/ Destruct
  <2>1. Contents' = {} /\ answer' = <<"released", Contents>>
    BY <1>2, EmptiesSound
  <2>2. Abstract!Clear
    BY <2>1 DEF Abstract!Clear, Contents, Entries
  <2>3. QED BY <2>2 DEF Abstract!Next
<1>3. CASE RehashNext \/ Place \/ RehashEnds \/ SearchNext \/ Shift \/ UNCHANGED vars
  <2>1. Contents' = Contents
    BY <1>3, RehashNextSound, PlaceSound, RehashEndsSound, SearchNextSound, ShiftSound,
       StutterSound
  <2>2. answer' = answer
    BY <1>3 DEF RehashNext, Place, RehashEnds, SearchNext, Shift, vars
  <2>3. QED BY <2>1, <2>2
<1>4. QED
  BY <1>1, <1>2, <1>3, AtEndsStep, InsertEndsStep, EraseStep
  DEF Next, Step, NextIsACall

\* A map behaves as a finite function that keeps the first value of a key and
\* releases every entry once, whatever the hashes: no element that a deletion or
\* growth moves is lost or doubled.
THEOREM ImplementsDictionaryAlways == Spec => ImplementsDictionary
<1> DEFINE C == {Pair(table[p]) : p \in Taken(table, capacity) \ Hole}
<1>1. Init => Abstract!Init
  BY InitSound DEF Init, Abstract!Init, Contents, Entries, Abstract!NoAnswer, NoAnswer
<1>2. MapInv /\ [Next]_vars => [Abstract!Next]_<<C, answer>>
  BY StepImplements DEF Contents, Entries
<1>3. QED
  BY <1>1, <1>2, MapCorrect, PTL DEF Spec, ImplementsDictionary, Abstract!Spec
=============================================================================
