-------------------------------- MODULE Pool --------------------------------
(****************************************************************************)
(* list.c and pool.c in one heap: doubly linked rings whose first node is    *)
(* the list itself, and a pool of objects of one size that come in chunks,   *)
(* which are the items of a list, and wait in a vector when they are free.   *)
(* Next to the pool's the application has lists of its own, as the server    *)
(* (requests) and the notifier (entries) have.                               *)
(****************************************************************************)
EXTENDS Integers, FiniteSets, SequencesExt

CONSTANTS
  Items,       \* addresses malloc may return for an item
  AppLists,    \* lists of the application
  Chunks,      \* pool->chunks
  ChunkSize,   \* POOL_CHUNK_SIZE
  MaxChunks,   \* bound: chunks of the pool
  Junk         \* what memory holds that was never written

ASSUME NodesAssumption ==
  /\ IsFiniteSet(Items) /\ Items \cap AppLists = {}
  /\ Chunks \notin Items \cup AppLists
ASSUME SizesAssumption == ChunkSize \in Nat \ {0} /\ MaxChunks \in Nat

Lists == AppLists \cup {Chunks}
Nodes == Lists \cup Items
Objects == Items \X (1 .. ChunkSize)

VARIABLES
  links,      \* next and previous of the lists and items
  live,       \* items that malloc has returned and nobody has freed
  clearing,   \* the list in list_clear, or none
  free,       \* pool->free, a vector of objects
  allocated,  \* pool->allocated
  rows,       \* history: the items of each list, as the calls should leave them
  chunks,     \* history: the items that are chunks of the pool
  used        \* history: objects that were handed out and not freed

vars == <<links, live, clearing, free, allocated, rows, chunks, used>>

NoList == "none"

Vector == INSTANCE Buffer

\* list_construct of every list
EmptyRings == [next |-> [x \in Nodes |-> x], previous |-> [x \in Nodes |-> x]]

\* pool_construct
Init ==
  /\ links = EmptyRings
  /\ live = {} /\ clearing = NoList
  /\ free = Vector!EmptyBuffer /\ allocated = 0
  /\ rows = [l \in Lists |-> <<>>] /\ chunks = {} /\ used = {}

-----------------------------------------------------------------------------
(* list.c *)

\* The neighbours of an item are linked to each other.
Unlinked(h, x) ==
  [h EXCEPT !.next[h.previous[x]] = h.next[x], !.previous[h.next[x]] = h.previous[x]]

LinkedAfter(h, x, to) ==                                            \* mutant
  [h EXCEPT !.next[x] = h.next[to], !.previous[x] = to,
            !.previous[h.next[to]] = x, !.next[to] = x]

\* An item is linked in before a node, which is the list itself for the end.
LinkedBefore(h, x, to) ==
  [h EXCEPT !.previous[x] = h.previous[to], !.next[x] = to,
            !.next[h.previous[to]] = x, !.previous[to] = x]

Idle == clearing = NoList

\* What a call is to do to the lists: an item leaves, an item comes before a node.
Without(x) == [l \in Lists |-> SelectSeq(rows[l], LAMBDA y : y # x)]
WithBefore(r, x, to) ==
  [l \in Lists |->
     IF to = l THEN Append(r[l], x)
     ELSE IF to \notin ToSet(r[l]) THEN r[l]
     ELSE InsertAt(r[l], CHOOSE p \in DOMAIN r[l] : r[l][p] = to, x)]

\* The nodes a call of the application may name.
AppNodes == AppLists \cup (live \ chunks)

\* list_item_new takes memory that is nobody's.
Unused == Items \ live

\* list_insert, and list_push_front and list_push_back, which name the first item
\* and the list.
Insert(x, to) ==
  /\ Idle /\ x \in Unused /\ to \in AppNodes
  /\ live' = live \cup {x}
  /\ links' = LinkedBefore(links, x, to)
  /\ rows' = WithBefore(rows, x, to)
  /\ UNCHANGED <<clearing, free, allocated, chunks, used>>

\* list_splice: one item, before another or to the end of a list.
Splice(to, from) ==
  /\ Idle /\ to \in AppNodes /\ from \in AppNodes \ AppLists
  /\ IF to = from THEN UNCHANGED <<links, rows>>
     ELSE /\ links' = LinkedBefore(Unlinked(links, from), from, to)
          /\ rows' = WithBefore(Without(from), from, to)
  /\ UNCHANGED <<live, clearing, free, allocated, chunks, used>>

\* list_erase
Erase(x) ==
  /\ Idle /\ x \in AppNodes \ AppLists
  /\ links' = Unlinked(links, x) /\ rows' = Without(x)
  /\ live' = live \ {x}
  /\ UNCHANGED <<clearing, free, allocated, chunks, used>>

\* list_clear: the first item is erased as long as there is one.
Clear(l) ==
  /\ Idle /\ l \in AppLists
  /\ clearing' = l
  /\ UNCHANGED <<links, live, free, allocated, rows, chunks, used>>

ClearNext ==
  /\ ~Idle
  /\ LET x == links.next[clearing] IN
     IF x = clearing THEN clearing' = NoList /\ UNCHANGED <<links, live, rows, chunks>>
     ELSE /\ links' = Unlinked(links, x) /\ rows' = Without(x)
          /\ live' = live \ {x} /\ chunks' = chunks \ {x}
          /\ UNCHANGED clearing
  /\ UNCHANGED <<free, allocated, used>>

-----------------------------------------------------------------------------
(* pool.c *)

ObjectsOf(x) == [k \in 1 .. ChunkSize |-> <<x, k>>]

Take(v) ==
  /\ used' = used \cup {Vector!Back(v)}
  /\ free' = Vector!PoppedBack(v)
  /\ allocated' = allocated + 1

\* pool_malloc with a free object
Malloc ==
  /\ Idle /\ free.size > 0
  /\ Take(free)
  /\ UNCHANGED <<links, live, clearing, rows, chunks>>

\* pool_malloc without: a new chunk is the last of the list, and its objects are
\* free.
MallocChunk(x) ==
  /\ Idle /\ free.size = 0
  /\ x \in Unused /\ Cardinality(chunks) < MaxChunks
  /\ live' = live \cup {x} /\ chunks' = chunks \cup {x}
  /\ links' = LinkedBefore(links, x, Chunks)
  /\ rows' = WithBefore(rows, x, Chunks)
  /\ Take(Vector!Inserted(free, free.size, ObjectsOf(x)))
  /\ UNCHANGED clearing

FreeUncounted(o) ==                                                 \* mutant
  /\ Idle /\ o \in used
  /\ used' = used \ {o}
  /\ free' = Vector!PushedBack(free, o)
  /\ UNCHANGED <<links, live, clearing, allocated, rows, chunks>>

\* pool_free, for an object that is in use
Free(o) ==
  /\ Idle /\ o \in used
  /\ used' = used \ {o}
  /\ free' = Vector!PushedBack(free, o)
  /\ allocated' = allocated - 1
  /\ UNCHANGED <<links, live, clearing, rows, chunks>>

\* pool_destruct, and pool_construct again, as reactor_destruct and
\* reactor_construct do: the chunks are erased, what is in use with them.
Destruct ==
  /\ Idle /\ clearing' = Chunks
  /\ free' = Vector!EmptyBuffer /\ allocated' = 0 /\ used' = {}
  /\ UNCHANGED <<links, live, rows, chunks>>

-----------------------------------------------------------------------------

Next ==
  \/ \E x \in Items, to \in Nodes : Insert(x, to)
  \/ \E to, from \in Nodes : Splice(to, from)
  \/ \E x \in Items : Erase(x) \/ MallocChunk(x)
  \/ \E l \in AppLists : Clear(l)
  \/ ClearNext
  \/ Malloc \/ Destruct
  \/ \E o \in Objects : Free(o)

Spec == Init /\ [][Next]_vars

-----------------------------------------------------------------------------
(* Properties *)

TypeOK ==
  /\ links \in [next : [Nodes -> Nodes], previous : [Nodes -> Nodes]]
  /\ live \subseteq Items /\ chunks \subseteq live
  /\ rows \in [Lists -> Seq(Items)]
  /\ clearing \in Lists \cup {NoList}
  /\ free.memory \in Seq(Objects \cup {Junk}) /\ free.size \in 0 .. Len(free.memory)
  /\ allocated \in Nat /\ used \subseteq Objects

Ring(l) == <<l>> \o rows[l] \o <<l>>

\* The rings are what the calls should have made: in both directions, a list is the
\* sequence of its items; every item in memory is in one place of one list, chunks
\* in the pool's.
RingsSound ==
  /\ \A l \in Lists : \A p \in 1 .. Len(Ring(l)) - 1 :
       /\ links.next[Ring(l)[p]] = Ring(l)[p + 1]
       /\ links.previous[Ring(l)[p + 1]] = Ring(l)[p]
  /\ live = UNION {ToSet(rows[l]) : l \in Lists}
  /\ ToSet(rows[Chunks]) = chunks
  /\ \A l \in Lists : Cardinality(ToSet(rows[l])) = Len(rows[l])
  /\ \A k, l \in Lists : k # l => ToSet(rows[k]) \cap ToSet(rows[l]) = {}

Waiting == ToSet(Vector!Contents(free))

\* Every object of the chunks is in use or waits in the vector, once; the count is
\* the number of those in use; all of it is in chunks that are in memory.
ObjectsSound ==
  clearing # Chunks =>
    /\ Waiting \cap used = {} /\ Cardinality(Waiting) = free.size
    /\ Waiting \cup used = chunks \X (1 .. ChunkSize)
    /\ allocated = Cardinality(used)

\* The heap, whatever calls are made on the lists and the pool in whatever order.
HeapSound == TypeOK /\ RingsSound /\ ObjectsSound

\* The pool hands out what is in nobody's hands, and pool_size, which ends the loop,
\* is the number of objects handed out.
AllSlots == INSTANCE Slots WITH size <- allocated
ImplementsSlots == AllSlots!Spec
==============================================================================
