------------------------------- MODULE MCHeap -------------------------------
(* The instance of Heap for TLC: a page of four objects, with the offsets of *)
(* slab_t: the header ends inside object 1.                                  *)
EXTENDS Heap

CONSTANTS c1, c2, s1, s2, h1, h2

\* The pool is cleared RAM; the kernel's pages below it hold arbitrary words.
MCRam == [p \in 0 .. Top - 1 |-> IF p < PoolStart THEN (p + 3) % Top ELSE 0]
============================================================================
