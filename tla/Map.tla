--------------------------------- MODULE Map ---------------------------------
(****************************************************************************)
(* map.c with mapi.c on top: an open-addressing table with linear probing,   *)
(* backward-shift deletion and growth.  Every iteration of a loop is a step, *)
(* so that what a loop keeps is an invariant and that it ends is a property. *)
(*                                                                           *)
(* The hash of a key is any number; capacities are powers of two, so that    *)
(* & (capacity - 1) is the remainder.  The key 0, which mapi.c uses for an   *)
(* empty element, is not among the keys: the library does not use it.        *)
(****************************************************************************)
EXTENDS Integers, FiniteSets

CONSTANTS
  Keys, Values,
  Hashes,        \* values of hash_uint64 that occur
  MinCapacity,   \* MAP_ELEMENTS_CAPACITY_MIN
  MaxReserve     \* bound: sizes given to mapi_reserve

NoKey == "0"
NoElement == [key |-> NoKey, value |-> NoKey]
Element == [key : Keys, value : Values]

\* No odd number but 1 divides it.
IsPowerOfTwo(c) == c > 0 /\ \A d \in 2 .. c : c % d = 0 => d % 2 = 0

ASSUME KeysAssumption == NoKey \notin Keys
ASSUME HashesAssumption == Hashes \subseteq Nat
ASSUME CapacityAssumption == MinCapacity \in Nat /\ IsPowerOfTwo(MinCapacity)
ASSUME ReserveAssumption == MaxReserve \in Nat

VARIABLES
  hash,                     \* hash_uint64
  table, capacity, count,   \* m->elements, elements_capacity, elements_count
  fresh,                    \* new in map_rehash: elements, capacity and count
  pc,                       \* the loop that runs
  call,                     \* the call it runs for
  i, j, n,                  \* positions of the loops
  answer                    \* what the last call returned or released

vars == <<hash, table, capacity, count, fresh, pc, call, i, j, n, answer>>

Positions(c) == 0 .. c - 1
EmptyTable(c) == [p \in Positions(c) |-> NoElement]
NoTable == [elements |-> EmptyTable(0), capacity |-> 0, count |-> 0]
NoAnswer == <<"none", {}>>
NoCall == [what |-> "none", key |-> NoKey, value |-> NoKey]
Call(what, k, v) == [what |-> what, key |-> k, value |-> v]

\* set(element, NULL), equal(element, NULL), equal(element, element) of mapi.c
IsEmpty(e) == e.key = NoKey
IsSame(e, k) == e.key = k
Pair(e) == <<e.key, e.value>>

\* map_roundup: the power of two at or above s, for s > 0.
RoundUp(s) == CHOOSE c \in s .. 2 * s - 1 : IsPowerOfTwo(c)

Tables(c) == [Positions(c) -> Element \cup {NoElement}]

TypeOK ==
  /\ hash \in [Keys -> Hashes]
  /\ capacity \in Nat \ {0} /\ table \in Tables(capacity) /\ count \in Nat
  /\ fresh.capacity \in Nat /\ fresh.count \in Nat
  /\ fresh.elements \in Tables(fresh.capacity)
  /\ pc \in {"idle", "rehash", "place", "search", "shift", "gone"}
  /\ call.what \in {"none", "at", "insert", "erase", "reserve"}
  /\ call.key \in Keys \cup {NoKey} /\ call.value \in Values \cup {NoKey}
  /\ pc \in {"search", "shift"} => i \in Positions(capacity) /\ call.key \in Keys
  /\ pc = "shift" => j \in Positions(capacity)
  /\ pc = "place" => i \in Positions(fresh.capacity) /\ n \in Positions(capacity)
  /\ pc = "rehash" => n \in 0 .. capacity

\* mapi_construct: a table of the least capacity.
Init ==
  /\ hash \in [Keys -> Hashes]
  /\ capacity = MinCapacity /\ table = EmptyTable(MinCapacity) /\ count = 0
  /\ fresh = NoTable
  /\ pc = "idle" /\ call = NoCall /\ i = 0 /\ j = 0 /\ n = 0
  /\ answer = NoAnswer

-----------------------------------------------------------------------------
(* Calls *)

Search(k, c) == pc' = "search" /\ i' = hash[k] % c

Rehash(size) ==
  LET c == RoundUp(size)
  IN  /\ pc' = "rehash" /\ n' = 0
      /\ fresh' = [elements |-> EmptyTable(c), capacity |-> c, count |-> 0]

NeedsSingle(size) == size > capacity                                \* mutant

\* map_reserve: the table is at most half full.
NeedsRehash(size) == 2 * size > capacity

At(k) ==
  /\ pc = "idle"
  /\ answer' = NoAnswer
  /\ call' = Call("at", k, NoKey)
  /\ Search(k, capacity)
  /\ UNCHANGED <<hash, table, capacity, count, fresh, j, n>>

\* map_insert: room for one more first.
Insert(k, v) ==
  /\ pc = "idle"
  /\ answer' = NoAnswer
  /\ call' = Call("insert", k, v)
  /\ IF NeedsRehash(count + 1)
     THEN Rehash(2 * (count + 1)) /\ UNCHANGED i
     ELSE Search(k, capacity) /\ UNCHANGED <<fresh, n>>
  /\ UNCHANGED <<hash, table, capacity, count, j>>

Erase(k) ==
  /\ pc = "idle"
  /\ answer' = NoAnswer
  /\ call' = Call("erase", k, NoKey)
  /\ Search(k, capacity)
  /\ UNCHANGED <<hash, table, capacity, count, fresh, j, n>>

Reserve(size) ==
  /\ pc = "idle" /\ NeedsRehash(size)
  /\ answer' = NoAnswer
  /\ call' = Call("reserve", NoKey, NoKey)
  /\ Rehash(2 * size)
  /\ UNCHANGED <<hash, table, capacity, count, i, j>>

Released == {Pair(table[p]) : p \in {q \in Positions(capacity) : ~IsEmpty(table[q])}}

\* map_clear: every element is released, and the table is as it was constructed.
Clear ==
  /\ pc = "idle"
  /\ answer' = <<"released", Released>>
  /\ capacity' = MinCapacity /\ table' = EmptyTable(MinCapacity) /\ count' = 0
  /\ UNCHANGED <<hash, fresh, pc, call, i, j, n>>

\* map_destruct
Destruct ==
  /\ pc = "idle" /\ pc' = "gone"
  /\ answer' = <<"released", Released>>
  /\ table' = EmptyTable(capacity) /\ count' = 0
  /\ UNCHANGED <<hash, capacity, fresh, call, i, j, n>>

-----------------------------------------------------------------------------
(* map_rehash *)

\* The next element of the old table is inserted into the new one, where room for
\* all of them was made.
RehashNext ==
  /\ pc = "rehash" /\ n < capacity
  /\ IF IsEmpty(table[n])
     THEN n' = n + 1 /\ UNCHANGED <<pc, i>>
     ELSE pc' = "place" /\ i' = hash[table[n].key] % fresh.capacity /\ UNCHANGED n
  /\ UNCHANGED <<hash, table, capacity, count, fresh, call, j, answer>>

\* map_at and the end of map_insert on the new table.
Place ==
  /\ pc = "place"
  /\ LET e == fresh.elements[i] IN
     IF IsEmpty(e) \/ IsSame(e, table[n].key)
     THEN /\ pc' = "rehash" /\ n' = n + 1
          /\ fresh' = IF IsEmpty(e)
                      THEN [elements |-> [fresh.elements EXCEPT ![i] = table[n]],
                            capacity |-> fresh.capacity, count |-> fresh.count + 1]
                      ELSE fresh
          /\ UNCHANGED i
     ELSE i' = (i + 1) % fresh.capacity /\ UNCHANGED <<pc, n, fresh>>
  /\ UNCHANGED <<hash, table, capacity, count, call, j, answer>>

\* The new table takes the place of the old; map_insert goes on.
RehashEnds ==
  /\ pc = "rehash" /\ n = capacity
  /\ table' = fresh.elements /\ capacity' = fresh.capacity /\ count' = fresh.count
  /\ fresh' = NoTable /\ n' = 0
  /\ IF call.what = "insert" THEN Search(call.key, fresh.capacity) /\ UNCHANGED call
     ELSE pc' = "idle" /\ call' = NoCall /\ UNCHANGED i
  /\ UNCHANGED <<hash, j, answer>>

-----------------------------------------------------------------------------
(* Search and what follows it *)

Stops == IsEmpty(table[i]) \/ IsSame(table[i], call.key)

\* map_at, and the first loop of map_erase: the next element.
SearchNext ==
  /\ pc = "search" /\ ~Stops
  /\ i' = (i + 1) % capacity
  /\ UNCHANGED <<hash, table, capacity, count, fresh, pc, call, j, n, answer>>

Finish(a) == pc' = "idle" /\ call' = NoCall /\ i' = 0 /\ answer' = a

AtEnds ==
  /\ pc = "search" /\ Stops /\ call.what = "at"
  /\ Finish(<<"found", IF IsEmpty(table[i]) THEN {} ELSE {Pair(table[i])}>>)
  /\ UNCHANGED <<hash, table, capacity, count, fresh, j, n>>

\* The end of map_insert: an element that is there stays.
InsertEnds ==
  /\ pc = "search" /\ Stops /\ call.what = "insert"
  /\ IF IsEmpty(table[i])
     THEN /\ table' = [table EXCEPT ![i] = [key |-> call.key, value |-> call.value]]
          /\ count' = count + 1
          /\ Finish(<<"released", {}>>)
     ELSE /\ Finish(<<"released", {<<call.key, call.value>>}>>)
          /\ UNCHANGED <<table, count>>
  /\ UNCHANGED <<hash, capacity, fresh, j, n>>

EraseMisses ==
  /\ pc = "search" /\ IsEmpty(table[i]) /\ call.what = "erase"
  /\ Finish(<<"released", {}>>)
  /\ UNCHANGED <<hash, table, capacity, count, fresh, j, n>>

EraseLeavesHole ==                                                  \* mutant
  /\ pc = "search" /\ ~IsEmpty(table[i]) /\ Stops /\ call.what = "erase"
  /\ table' = [table EXCEPT ![i] = NoElement]
  /\ count' = count - 1
  /\ Finish(<<"released", {Pair(table[i])}>>)
  /\ UNCHANGED <<hash, capacity, fresh, j, n>>

\* map_erase has found the element: it is released, and its place is a hole.
EraseHits ==
  /\ pc = "search" /\ ~IsEmpty(table[i]) /\ Stops /\ call.what = "erase"
  /\ pc' = "shift" /\ j' = i
  /\ count' = count - 1
  /\ answer' = <<"released", {Pair(table[i])}>>
  /\ UNCHANGED <<hash, table, capacity, fresh, call, i, n>>

MovesLinear(k, to) == k <= i                                        \* mutant

\* An element whose home is at k may move from to the hole at i unless its home is
\* between them, going round the end of the table.
Moves(k, to) ==
  \/ i < to /\ (k <= i \/ k > to)
  \/ i > to /\ k <= i /\ k > to

\* The second loop of map_erase: the next element, if it moves, leaves its place as
\* the hole; an empty one ends the loop.
Shift ==
  /\ pc = "shift"
  /\ LET to == (j + 1) % capacity IN
     IF IsEmpty(table[to])
     THEN /\ table' = [table EXCEPT ![i] = NoElement]
          /\ pc' = "idle" /\ call' = NoCall /\ i' = 0 /\ j' = 0
     ELSE /\ j' = to
          /\ IF Moves(hash[table[to].key] % capacity, to)
             THEN table' = [table EXCEPT ![i] = table[to]] /\ i' = to
             ELSE UNCHANGED <<table, i>>
          /\ UNCHANGED <<pc, call>>
  /\ UNCHANGED <<hash, capacity, count, fresh, n, answer>>

-----------------------------------------------------------------------------

Step ==
  \/ RehashNext \/ Place \/ RehashEnds
  \/ SearchNext \/ AtEnds \/ InsertEnds \/ EraseMisses \/ EraseHits \/ Shift

Next ==
  \/ \E k \in Keys : At(k) \/ Erase(k)
  \/ \E k \in Keys, v \in Values : Insert(k, v)
  \/ \E size \in 0 .. MaxReserve : Reserve(size)
  \/ Clear \/ Destruct
  \/ Step

Spec == Init /\ [][Next]_vars

FairSpec == Spec /\ WF_vars(Step)

-----------------------------------------------------------------------------
(* Properties *)

Hole == IF pc = "shift" THEN {i} ELSE {}
Taken(t, c) == {p \in Positions(c) : ~IsEmpty(t[p])}

\* From the home of an element to the element, in the direction of the search.
Between(home, p, c) ==
  IF home <= p THEN home .. p ELSE Positions(c) \ (p + 1 .. home - 1)

\* Every element is found from its hash: nothing on the way is empty.
Reachable(t, c, hole) ==
  \A p \in Taken(t, c) \ hole :
    Between(hash[t[p].key] % c, p, c) \subseteq Taken(t, c)

\* No key is twice in the table.
OneEach(t, c, hole) ==
  \A p, q \in Taken(t, c) \ hole : t[p].key = t[q].key => p = q

\* The table and the one a rehash fills: every element is found from its hash, once;
\* the counts are the numbers of elements; at least half is empty, also while the
\* old elements are inserted, so that the insertions do not grow it once more.
TableSound ==
  /\ Reachable(table, capacity, Hole) /\ OneEach(table, capacity, Hole)
  /\ count = Cardinality(Taken(table, capacity) \ Hole)
  /\ 2 * count <= capacity /\ Taken(table, capacity) # Positions(capacity)
  /\ pc \in {"rehash", "place"} =>
       /\ Reachable(fresh.elements, fresh.capacity, {})
       /\ OneEach(fresh.elements, fresh.capacity, {})
       /\ fresh.count = Cardinality(Taken(fresh.elements, fresh.capacity))
       /\ 2 * count <= fresh.capacity
       /\ call.what = "insert" => 2 * (count + 1) <= fresh.capacity

\* The table in every step of every loop.
MapSound == TypeOK /\ TableSound

\* What the searches have passed: from the home of k up to the position p in t, of
\* capacity c, every element is there, and none is k.
Passed(t, c, k, p) ==
  \A q \in Between(hash[k] % c, p, c) \ {p} : ~IsEmpty(t[q]) /\ ~IsSame(t[q], k)

\* A call has its key, and its value if it inserts one, for which there is room.
CallFits ==
  /\ call.what \in {"at", "insert", "erase"} => call.key \in Keys
  /\ call.what = "insert" => call.value \in Values
  /\ pc = "search" =>
       /\ call.what \in {"at", "insert", "erase"}
       /\ Passed(table, capacity, call.key, i)
       /\ call.what = "insert" => 2 * (count + 1) <= capacity

Entries(t, places) == {Pair(t[p]) : p \in places}

\* The new table has the elements of the old one that were passed.
Copied == {p \in Taken(table, capacity) : p < n}
RehashFits ==
  pc \in {"rehash", "place"} =>
    /\ call.what \in {"insert", "reserve"}
    /\ Entries(fresh.elements, Taken(fresh.elements, fresh.capacity))
         = Entries(table, Copied)
    /\ fresh.count = Cardinality(Copied)
    /\ pc = "place" =>
         n \in Taken(table, capacity)
           /\ Passed(fresh.elements, fresh.capacity, table[n].key, i)

\* No element between the hole and the position of the shift has to pass the hole.
ShiftFits ==
  pc = "shift" =>
    /\ i \in Taken(table, capacity)
    /\ \A q \in Between(i, j, capacity) \ {i} :
         ~IsEmpty(table[q]) /\ i \notin Between(hash[table[q].key] % capacity, q, capacity)

\* The inductive invariant of the loops; & (capacity - 1) is the remainder.
MapInv ==
  /\ MapSound /\ IsPowerOfTwo(capacity)
  /\ pc \in {"rehash", "place"} => IsPowerOfTwo(fresh.capacity)
  /\ CallFits /\ RehashFits /\ ShiftFits

\* A map behaves as a finite function, whatever the hashes: an element moved by a
\* deletion or by growth is neither lost nor doubled, and each is released once.
Abstract ==
  INSTANCE Dictionary WITH
    entries <- {Pair(table[p]) : p \in Taken(table, capacity) \ Hole}
ImplementsDictionary == Abstract!Spec

\* Every call ends: each loop meets an empty element.
CallsEnd == pc \notin {"idle", "gone"} ~> pc = "idle"
==============================================================================
