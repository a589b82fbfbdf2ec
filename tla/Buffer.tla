------------------------------- MODULE Buffer -------------------------------
(****************************************************************************)
(* buffer.c, and vector.c on top of it: memory that grows by powers of two.  *)
(* A buffer is its memory, of as many cells as its capacity, and the number  *)
(* of cells in use; a cell that was never written holds Junk.  Positions     *)
(* count from 0 as in the code.  The cell is a byte or, for a vector, an     *)
(* object: vector.c multiplies everything by the size of one.                *)
(****************************************************************************)
EXTENDS Integers, Sequences

CONSTANT Junk

Capacity(b) == Len(b.memory)
Contents(b) == SubSeq(b.memory, 1, b.size)

\* buffer_construct
EmptyBuffer == [memory |-> <<>>, size |-> 0]

\* buffer_roundup: the power of two at or above n, for n > 0.
GrownTo(n) == CHOOSE c \in {2 ^ e : e \in 0 .. n} : c >= n /\ c < 2 * n

\* buffer_reserve: realloc keeps what there is.
Reserved(b, capacity) ==
  IF capacity <= Capacity(b) THEN b
  ELSE [b EXCEPT !.memory = [p \in 1 .. GrownTo(capacity) |->
                               IF p <= Capacity(b) THEN b.memory[p] ELSE Junk]]

\* memcpy into the memory of a buffer
Written(b, at, cells) ==
  [b EXCEPT !.memory = [p \in DOMAIN @ |->
     IF p \in at + 1 .. at + Len(cells) THEN cells[p - at] ELSE @[p]]]

\* buffer_insert: the memory is grown, what follows is moved, the cells are copied.
Inserted(b, at, cells) ==
  LET r == Reserved(b, b.size + Len(cells))
      tail == SubSeq(b.memory, at + 1, b.size)
  IN  [Written(Written(r, at + Len(cells), tail), at, cells)
         EXCEPT !.size = @ + Len(cells)]

\* buffer_erase: what follows is moved over the cells that go.
Erased(b, at, size) ==
  [Written(b, at, SubSeq(b.memory, at + size + 1, b.size)) EXCEPT !.size = @ - size]

\* vector_push_back, vector_back, vector_erase, vector_pop_back
PushedBack(v, x) == Inserted(v, v.size, <<x>>)
Back(v) == v.memory[v.size]
Without(v, at) == Erased(v, at, 1)
PoppedBack(v) == Without(v, v.size - 1)
==============================================================================
