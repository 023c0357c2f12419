------------------------------ MODULE MCBuddy ------------------------------
(* Instances of Buddy for TLC.  PtrsPerPage * (PtrsPerPage + 1) is at least *)
(* PoolPages, as 512 * 513 is at least the 16384 pages of mm_init.          *)
EXTENDS Buddy, TLC

CONSTANTS c1, c2, c3

\* The pool is cleared RAM; the kernel's pages below it hold arbitrary words.
MCRam == [p \in 0 .. Top - 1 |-> IF p < PoolStart THEN (p + 3) % Top ELSE 0]

Symmetry == Permutations(Clients)
============================================================================
