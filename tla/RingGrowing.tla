---------------------------- MODULE RingGrowing ----------------------------
(***************************************************************************)
(* buffer.RingGrowing (client-go/util/buffer/ring_growing.go): a ring      *)
(* buffer that doubles when it is full.  A ring is a record; ReadOne and   *)
(* WriteOne give the ring that the method leaves behind.                   *)
(***************************************************************************)
EXTENDS Integers

CONSTANT Nil   \* a slot of data that holds no element

\* make([]interface{}, n) and NewRingGrowing.
NewData(n) == [i \in 0 .. n - 1 |-> Nil]
NewRingGrowing(initialSize) == [data |-> NewData(initialSize), n |-> initialSize, beg |-> 0, readable |-> 0]

\* The indices are inside the array.
RingOK(r, Elements) ==
  /\ r.n \in Nat \ {0} /\ r.beg \in 0 .. r.n - 1 /\ r.readable \in 0 .. r.n
  /\ r.data \in [0 .. r.n - 1 -> Elements \cup {Nil}]

\* Mutant: the index does not wrap.
ReadOneOn(r) ==
  [data |-> [r.data EXCEPT ![r.beg] = Nil], n |-> r.n,
   beg |-> r.beg + 1, readable |-> r.readable - 1]

\* ReadOne when readable > 0: the element, and the ring without it.
Element(r) == r.data[r.beg]

ReadOne(r) ==
  [data |-> [r.data EXCEPT ![r.beg] = Nil], n |-> r.n,
   beg |-> IF r.beg = r.n - 1 THEN 0 ELSE r.beg + 1, readable |-> r.readable - 1]

\* WriteOne of a full ring first copies the elements to the front of an array
\* of twice the size: those from beg to the end, then those before beg.
Grow(r) ==
  [data |-> [i \in 0 .. 2 * r.n - 1 |->
               IF i < r.n - r.beg THEN r.data[r.beg + i]
               ELSE IF i < r.readable THEN r.data[i - (r.n - r.beg)]
               ELSE Nil],
   n |-> 2 * r.n, beg |-> 0, readable |-> r.readable]

Put(r, x) ==
  [data |-> [r.data EXCEPT ![(r.readable + r.beg) % r.n] = x], n |-> r.n,
   beg |-> r.beg, readable |-> r.readable + 1]

WriteOne(r, x) == Put(IF r.readable = r.n THEN Grow(r) ELSE r, x)

\* The element that will be read after i others, 0 <= i < readable.
At(r, i) == r.data[(r.beg + i) % r.n]
=============================================================================
