--------------------------- MODULE PageAllocator ---------------------------
(***************************************************************************)
(* What a page allocator promises its callers: a block that is handed out  *)
(* is a run of pages nobody else holds, and a block stays with its holder  *)
(* until the holder gives it back.                                         *)
(***************************************************************************)
EXTENDS Integers

CONSTANTS Clients, Addresses

VARIABLE held  \* held[c]: the pages client c holds

AInit == held = [c \in Clients |-> {}]

\* A run of at least one page, disjoint from what everybody holds.
Grant(c) ==
  /\ held[c] = {}
  /\ \E first, last \in Addresses :
       /\ first <= last
       /\ \A d \in Clients : held[d] \cap (first .. last) = {}
       /\ held' = [held EXCEPT ![c] = first .. last]

Release(c) ==
  /\ held[c] # {}
  /\ held' = [held EXCEPT ![c] = {}]

ANext == \E c \in Clients : Grant(c) \/ Release(c)

ASpec == AInit /\ [][ANext]_held
============================================================================
