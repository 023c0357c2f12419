------------------------------- MODULE Buddy -------------------------------
(***************************************************************************)
(* The page allocator of lib/mm.c: mm_init, alloc_pages, free_pages and    *)
(* the wrappers phys_alloc, phys_free, page_alloc, page_free, stack_alloc  *)
(* and stack_free, called by clients one at a time (the kernel is single   *)
(* threaded and takes no interrupt while it runs C code).                  *)
(*                                                                         *)
(* Addresses are counted in pages, so a block is named by its first page   *)
(* and address 0 is both page 0 and the NULL pointer, as in the code.  Of  *)
(* the contents of memory only the first word of each page is kept: it is  *)
(* where buddy_free_list_t.next lies.  Every iteration of a loop of the    *)
(* code is a step of its own; pc is the loop the running call is in.       *)
(***************************************************************************)
EXTENDS Integers, FiniteSets

CONSTANTS
  MaxOrder,       \* MAX_ORDER_BITS: orders are 0 .. MaxOrder-1
  PoolStart,      \* buddy.pool_start, in pages
  PoolPages,      \* buddy.pool_pages
  PtrsPerPage,    \* free-list nodes that fit in one page (PAGE_SIZE / 8)
  BitmapBits,     \* 64 * buddy.bitmap_words
  Top,            \* number of pages of physical memory
  AddrPages,      \* pages of the 64-bit address space
  Ram,            \* Ram[p]: first word of page p before mm_init
  SizeMod,        \* 2^width of size_t
  Clients,        \* callers; each holds at most one block
  ClientWords,    \* what clients store in the first word of a page they hold
  MaxCalls,       \* bound on the calls of a behaviour
  None            \* "holds no block"

ASSUME BuddyConstants ==
  /\ MaxOrder \in Nat \ {0}
  /\ PoolPages \in Nat \ {0}
  /\ PtrsPerPage \in Nat \ {0}
  /\ BitmapBits \in Nat
  /\ Top \in Nat
  /\ AddrPages \in Nat /\ Top + BitmapBits <= AddrPages
  /\ PoolStart \in Nat \ {0}
  /\ PoolStart % 2^(MaxOrder - 1) = 0
  /\ PoolStart + PoolPages <= Top
  /\ SizeMod \in Nat /\ PoolPages < SizeMod
  /\ Ram \in [0 .. Top - 1 -> 0 .. Top - 1]
  /\ ClientWords \subseteq 0 .. Top - 1
  /\ MaxCalls \in Nat

\* The address space is so large that an index below the pool, wrapped, is far
\* outside the bitmap at every order.
ASSUME AddressSpaceLarge ==
  /\ AddrPages % 2^MaxOrder = 0
  /\ Top + BitmapBits * 2^MaxOrder <= AddrPages

Orders == 0 .. MaxOrder - 1
Pages  == 0 .. Top - 1
Pool   == PoolStart .. PoolStart + PoolPages - 1
NULL   == 0

\* A block as its holder knows it: where it starts, its order, and the function
\* that returned it.
Blocks == [base : Nat, order : Orders, api : {"pages", "phys", "stack"}]

ASSUME NoneIsNoBlock == None \notin Blocks

\* The pages first .. first+n-1, as a set of addresses or of bitmap indices.
Run(first, n) == first .. first + n - 1

VARIABLES
  initialized,  \* buddy.initialized
  free_lists,   \* buddy.free_lists: the head of each order's list
  next,         \* next[p]: the first word of page p
  bitmap,       \* the indices whose bit is 1
  free_count,   \* buddy.free_count
  own,          \* own[c]: the block client c was given and has not freed
  pc,           \* "idle" or the loop the running call is in
  call,         \* locals of the running call
  calls         \* calls made so far

vars == <<initialized, free_lists, next, bitmap, free_count, own, pc, call, calls>>
----------------------------------------------------------------------------
(* Addresses, bitmap indices and sizes.                                    *)

\* buddy_phys_to_idx: an index in units of 2^order pages.  The difference is
\* unsigned: an address below the pool gives an index far above the bitmap.
buddy_phys_to_idx(phys, order) == ((phys - PoolStart) % AddrPages) \div 2^order

\* buddy_is_allocated: an index outside the bitmap counts as allocated.
buddy_is_allocated(idx) == idx \in 0 .. BitmapBits - 1 => idx \in bitmap

\* Mutants of SetAllocated: without the bound check, and one index too far.
SetAllocatedUnchecked(bits, first, n) == bits \cup Run(first, n)
SetAllocatedShifted(bits, first, n)   == bits \cup (Run(first + 1, n) \cap 0 .. BitmapBits - 1)

\* buddy_set_allocated on a run of indices; those outside are ignored.
SetAllocated(bits, first, n) == bits \cup (Run(first, n) \cap 0 .. BitmapBits - 1)
SetFree(bits, first, n)      == bits \ Run(first, n)

\* The loop of phys_alloc and phys_free stops at the least order that holds the
\* pages, or at the top order.
OrderFor(pages, o) ==
  /\ 2^o >= pages \/ o = MaxOrder - 1
  /\ \A q \in Orders : q < o => 2^q < pages
----------------------------------------------------------------------------
Idle == [op |-> "none"]

\* Mutant of InitialWord: node i links to page i instead of page i+1.
InitialWordSame(k) ==
  LET i == k * PtrsPerPage
  IN  IF i < PoolPages THEN PoolStart + i ELSE Ram[PoolStart + k]

\* The word mm_init leaves at the start of pool page k: the loop stores node i
\* at word i of the pool, not at the start of page i.
InitialWord(k) ==
  LET i == k * PtrsPerPage
  IN  IF i < PoolPages - 1 THEN PoolStart + i + 1
      ELSE IF i = PoolPages - 1 THEN NULL
      ELSE Ram[PoolStart + k]

\* The static initialiser of buddy, before mm_init.
Init ==
  /\ initialized = FALSE
  /\ free_lists  = [o \in Orders |-> NULL]
  /\ next        = Ram
  /\ bitmap      = {}
  /\ free_count  = 0
  /\ own         = [c \in Clients |-> None]
  /\ pc          = "idle"
  /\ call        = Idle
  /\ calls       = 0

\* Mutant of mm_init: one page is not counted.
mm_initShort ==
  /\ ~initialized
  /\ initialized' = TRUE
  /\ free_lists'  = [free_lists EXCEPT ![0] = PoolStart]
  /\ next'        = [p \in Pages |-> IF p \in Pool THEN InitialWord(p - PoolStart)
                                                   ELSE next[p]]
  /\ bitmap'      = {}
  /\ free_count'  = PoolPages - 1
  /\ UNCHANGED <<own, pc, call, calls>>

\* mm_init, called once by kernel_main.
mm_init ==
  /\ ~initialized
  /\ initialized' = TRUE
  /\ free_lists'  = [free_lists EXCEPT ![0] = PoolStart]
  /\ next'        = [p \in Pages |-> IF p \in Pool THEN InitialWord(p - PoolStart)
                                                   ELSE next[p]]
  /\ bitmap'      = {}
  /\ free_count'  = PoolPages
  /\ UNCHANGED <<own, pc, call, calls>>
----------------------------------------------------------------------------
(* alloc_pages and its wrappers.                                           *)

\* A client enters the allocator.
Enter ==
  /\ pc = "idle"
  /\ calls < MaxCalls /\ calls' = calls + 1

\* The order at which the scan from "order" upward stops.
FirstNonEmpty(order, o) ==
  /\ o >= order
  /\ free_lists[o] # NULL
  /\ \A q \in order .. o - 1 : free_lists[q] = NULL

\* The checks, the scan and the pop of alloc_pages.  The new head is the
\* second node of the list, and that same node is the block.
Pop(c, order, api, zero) ==
  /\ Enter /\ own[c] = None
  /\ initialized /\ order < MaxOrder
  /\ \E o \in Orders :
       /\ FirstNonEmpty(order, o)
       /\ LET block == next[free_lists[o]]
          IN  /\ free_lists' = [free_lists EXCEPT ![o] = block]
              /\ bitmap' = SetAllocated(bitmap, buddy_phys_to_idx(block, o), 2^o)
              /\ free_count' = (free_count - 2^o) % SizeMod
              /\ call' = [op |-> "alloc", c |-> c, api |-> api, order |-> order,
                          zero |-> zero, at |-> o, block |-> block, end |-> block + 2^o]
  /\ pc' = "split"
  /\ UNCHANGED <<initialized, next, own>>

\* The error returns: not initialised, order too large, nothing found.  The
\* caller sees a failure and nothing changes.
AllocFails(c, order) ==
  /\ Enter /\ own[c] = None
  /\ \/ ~initialized
     \/ order >= MaxOrder
     \/ \A o \in order .. MaxOrder - 1 : free_lists[o] = NULL
  /\ UNCHANGED <<initialized, free_lists, next, bitmap, free_count, own, pc, call>>

alloc_pages(c, order) == Pop(c, order, "pages", 0)
phys_alloc(c, pages)  == \E o \in Orders : OrderFor(pages, o) /\ Pop(c, o, "phys", pages)
stack_alloc(c, pages) == Pop(c, pages, "stack", pages)

\* Mutant of RightHalf: the order is decremented after it is used.
RightHalfTooFar(block, o) == block + 2^(o + 1)

RightHalf(block, o) == block + 2^o

\* One iteration of the split loop: the left half goes on the lower list, the
\* search continues in the right half.
Split ==
  /\ pc = "split" /\ call.at > call.order
  /\ LET o     == call.at - 1
         right == RightHalf(call.block, o)
     IN  /\ bitmap'     = SetAllocated(bitmap, buddy_phys_to_idx(right, o), 2^o)
         /\ free_count' = (free_count - 2^o) % SizeMod
         /\ next'       = [next EXCEPT ![call.block] = free_lists[o]]
         /\ free_lists' = [free_lists EXCEPT ![o] = call.block]
         /\ call'       = [call EXCEPT !.at = o, !.block = right]
  /\ UNCHANGED <<initialized, own, pc, calls>>

\* The return of the block, after the wrapper zeroed it.  A wrapper that
\* returns a pointer returns NULL for block 0, which its caller takes for a
\* failure; alloc_pages itself reports success.
AllocReturns ==
  /\ pc = "split" /\ call.at = call.order
  /\ next' = [p \in Pages |-> IF p \in Run(call.block, call.zero) THEN NULL
                                                                  ELSE next[p]]
  /\ own' = IF call.api # "pages" /\ call.block = NULL
            THEN own
            ELSE [own EXCEPT ![call.c] = [base |-> call.block, order |-> call.order,
                                          api |-> call.api]]
  /\ pc' = "idle" /\ call' = Idle
  /\ UNCHANGED <<initialized, free_lists, bitmap, free_count, calls>>
----------------------------------------------------------------------------
(* free_pages and its wrappers.                                            *)

\* stack_free does not know the size and frees one page.
FreedOrder(b) == IF b.api = "stack" THEN 0 ELSE b.order

\* A client gives its block back: the entry of free_pages, past its checks.
Free(c) ==
  /\ Enter /\ own[c] # None
  /\ own[c].base % 2^FreedOrder(own[c]) = 0
  /\ call' = [op |-> "free", given |-> own[c].base, order |-> FreedOrder(own[c]),
              phys |-> own[c].base, at |-> FreedOrder(own[c]),
              prev |-> NULL, curr |-> NULL]
  /\ own' = [own EXCEPT ![c] = None]
  /\ pc' = "coalesce"
  /\ UNCHANGED <<initialized, free_lists, next, bitmap, free_count>>

\* "Misaligned free": the block is dropped.
FreeMisaligned(c) ==
  /\ Enter /\ own[c] # None
  /\ own[c].base % 2^FreedOrder(own[c]) # 0
  /\ own' = [own EXCEPT ![c] = None]
  /\ UNCHANGED <<initialized, free_lists, next, bitmap, free_count, pc, call>>

\* The buddy of the block being freed: its address is computed in pages, its
\* first bitmap index from an index in units of 2^at pages.
IsLeft == buddy_phys_to_idx(call.phys, call.at) % 2 = 0

\* Mutants of BuddyPhys: always the right neighbour; left and right swapped.
BuddyPhysRight   == call.phys + 2^call.at
BuddyPhysSwapped == IF IsLeft THEN call.phys - 2^call.at ELSE call.phys + 2^call.at

BuddyPhys == IF IsLeft THEN call.phys + 2^call.at ELSE call.phys - 2^call.at
BuddyIndex ==
  IF IsLeft THEN buddy_phys_to_idx(call.phys, call.at) + 2^call.at
            ELSE buddy_phys_to_idx(call.phys, call.at) - 2^call.at
BuddyIsFree == \A i \in Run(BuddyIndex, 2^call.at) : ~ buddy_is_allocated(i)

\* One iteration of the coalescing loop, up to the walk of the free list.
Coalesce ==
  /\ pc = "coalesce"
  /\ call.at < MaxOrder - 1 /\ BuddyIsFree
  /\ bitmap' = SetFree(bitmap, BuddyIndex, 2^call.at)
  /\ free_count' = (free_count + 2^call.at) % SizeMod
  /\ IF free_lists[call.at] = NULL
     THEN pc' = "insert" /\ UNCHANGED call
     ELSE /\ pc' = "walk"
          /\ call' = [call EXCEPT !.prev = NULL, !.curr = free_lists[call.at]]
  /\ UNCHANGED <<initialized, free_lists, next, own, calls>>

\* The loop ends: top order reached, or the buddy is in use.
CoalesceDone ==
  /\ pc = "coalesce"
  /\ ~ (call.at < MaxOrder - 1 /\ BuddyIsFree)
  /\ pc' = "insert"
  /\ UNCHANGED <<initialized, free_lists, next, bitmap, free_count, own, call, calls>>

\* One node of the walk that looks for the buddy.
WalkOn ==
  /\ pc = "walk" /\ call.curr # NULL /\ call.curr # BuddyPhys
  /\ call' = [call EXCEPT !.prev = call.curr, !.curr = next[call.curr]]
  /\ UNCHANGED <<initialized, free_lists, next, bitmap, free_count, own, pc, calls>>

\* The walk ends, with the buddy unlinked or not found; one order up.
WalkDone ==
  /\ pc = "walk" /\ call.curr \in {NULL, BuddyPhys}
  /\ next' = IF call.curr # NULL /\ call.prev # NULL
             THEN [next EXCEPT ![call.prev] = next[call.curr]] ELSE next
  /\ free_lists' = IF call.curr # NULL /\ call.prev = NULL
                   THEN [free_lists EXCEPT ![call.at] = next[call.curr]]
                   ELSE free_lists
  /\ call' = [call EXCEPT !.at = call.at + 1,
                          !.phys = IF BuddyPhys < call.phys THEN BuddyPhys
                                                               ELSE call.phys]
  /\ pc' = "coalesce"
  /\ UNCHANGED <<initialized, bitmap, free_count, own, calls>>

\* Mutant of Insert: the head is stored before it is read for the link.
InsertSwapped ==
  /\ pc = "insert"
  /\ next'       = [next EXCEPT ![call.phys] = call.phys]
  /\ free_lists' = [free_lists EXCEPT ![call.at] = call.phys]
  /\ bitmap'     = SetFree(bitmap, buddy_phys_to_idx(call.phys, call.at), 2^call.at)
  /\ free_count' = (free_count + 2^call.at - 2^call.order) % SizeMod
  /\ pc' = "idle" /\ call' = Idle
  /\ UNCHANGED <<initialized, own, calls>>

\* The insertion of the coalesced block.
Insert ==
  /\ pc = "insert"
  /\ next'       = [next EXCEPT ![call.phys] = free_lists[call.at]]
  /\ free_lists' = [free_lists EXCEPT ![call.at] = call.phys]
  /\ bitmap'     = SetFree(bitmap, buddy_phys_to_idx(call.phys, call.at), 2^call.at)
  /\ free_count' = (free_count + 2^call.at - 2^call.order) % SizeMod
  /\ pc' = "idle" /\ call' = Idle
  /\ UNCHANGED <<initialized, own, calls>>
----------------------------------------------------------------------------
(* Clients.                                                                *)

\* The pages a client holds.
Held(c) == IF own[c] = None THEN {} ELSE Run(own[c].base, 2^own[c].order)

\* A client stores a word at the start of a page it holds.
ClientWrite(c) ==
  /\ pc = "idle"
  /\ \E p \in Held(c) \cap Pages, w \in ClientWords : next' = [next EXCEPT ![p] = w]
  /\ UNCHANGED <<initialized, free_lists, bitmap, free_count, own, pc, call, calls>>

\* Requests of every kind: orders up to the first illegal one, and sizes up to
\* one page more than the largest block.
Request(c) ==
  \/ \E o \in 0 .. MaxOrder : alloc_pages(c, o) \/ AllocFails(c, o)
  \/ \E n \in 1 .. 2^(MaxOrder - 1) + 1 : phys_alloc(c, n)
  \/ \E n \in 0 .. MaxOrder : stack_alloc(c, n)

\* The running free_pages.
FreeStep == Coalesce \/ CoalesceDone \/ WalkOn \/ WalkDone \/ Insert

\* Every client, every call.
Next ==
  \/ mm_init
  \/ \E c \in Clients : Request(c) \/ Free(c) \/ FreeMisaligned(c) \/ ClientWrite(c)
  \/ Split
  \/ AllocReturns
  \/ FreeStep

Spec == Init /\ [][Next]_vars

\* Clients that never free, as during boot.
BootNext ==
  \/ mm_init
  \/ \E c \in Clients : Request(c) \/ ClientWrite(c)
  \/ Split
  \/ AllocReturns

BootSpec == Init /\ [][BootNext]_vars

\* Clients of page_alloc and page_free that leave the first word alone.
PageNext ==
  \/ mm_init
  \/ \E c \in Clients : alloc_pages(c, 0) \/ AllocFails(c, 0) \/ Free(c)
  \/ Split
  \/ AllocReturns
  \/ FreeStep

PageSpec == Init /\ [][PageNext]_vars

\* The processor keeps executing the call it is in: none of these loops waits.
Running == Split \/ AllocReturns \/ FreeStep

FairPageSpec == PageSpec /\ WF_vars(Running)
----------------------------------------------------------------------------
(* Properties.                                                             *)

\* Type invariant: list heads and links are page addresses inside physical
\* memory, bits are inside the bitmap, and pc says which locals are live.
TypeOK ==
  /\ initialized \in BOOLEAN
  /\ free_lists \in [Orders -> Pages]
  /\ next \in [Pages -> Pages]
  /\ bitmap \subseteq 0 .. BitmapBits - 1
  /\ free_count \in 0 .. SizeMod - 1
  /\ own \in [Clients -> Blocks \cup {None}]
  /\ pc \in {"idle", "split", "coalesce", "walk", "insert"}
  /\ calls \in 0 .. MaxCalls

\* alloc_pages never gives a page to a client while another client holds it
\* (what "0 = free, 1 = allocated" in mm_init is for).
NoSharing == \A c, d \in Clients : c # d => Held(c) \cap Held(d) = {}

\* "0 = free, 1 = allocated": a page of the pool that a client holds is marked
\* and is not handed out again by alloc_pages.
PoolNotShared ==
  \A c, d \in Clients : c # d => Held(c) \cap Held(d) \cap Pool = {}

\* Bit i of the bitmap is 1 exactly when page i of the pool is held, or is in
\* the block the running alloc_pages is about to return.
BitmapExact ==
  bitmap = {i \in 0 .. BitmapBits - 1 :
              \/ \E c \in Clients : PoolStart + i \in Held(c)
              \/ pc = "split" /\ PoolStart + i \in Run(call.block, 2^call.at)}

\* Between calls, buddy_free_pages and the pages held add up to the pool, until
\* the list is empty: then one page may be missing, the block at address 0 that
\* phys_alloc and stack_alloc took for a failure.
FreeCounted ==
  initialized /\ pc = "idle" =>
    LET used == Cardinality(UNION {Held(c) : c \in Clients})
    IN  \/ free_count + used = PoolPages
        \/ free_count + used = PoolPages - 1 /\ \A o \in Orders : free_lists[o] = NULL

\* The pages below one block of the top order: what alloc_pages cuts up when
\* it takes the 0 at the end of a list for a block.
Low == 0 .. 2^(MaxOrder - 1) - 1

\* However single pages are allocated and freed, heads, links and blocks stay
\* in the pool or in Low, and free_pages and the split loop of alloc_pages
\* write no word outside.
Confined ==
  /\ \A o \in Orders : free_lists[o] \in Pool \cup Low
  /\ \A c \in Clients : Held(c) \subseteq Pool \cup Low
  /\ \A p \in Pages :
       IF p \in Pool \cup Low THEN next[p] \in Pool \cup Low \cup {Ram[p]}
                              ELSE next[p] = Ram[p]

\* The head of the list of order o is aligned to 2^o pages: coalescing and
\* splitting keep the lists of different orders apart.
HeadsAligned == \A o \in Orders : free_lists[o] % 2^o = 0

\* The block under the split loop of alloc_pages is always the right end of
\* the block that was popped, so the halves put back never overlap it.
SplitExact == pc = "split" => call.block + 2^call.at = call.end

\* The block under the coalescing loop of free_pages is aligned to its size
\* and contains the block that was freed.
CoalesceCovers ==
  pc \in {"coalesce", "walk", "insert"} =>
    /\ call.phys % 2^call.at = 0
    /\ call.given \in Run(call.phys, 2^call.at)

\* Every call of the allocator returns.
CallsReturn == (pc # "idle") ~> (pc = "idle")

\* The allocator as its callers see it.
Abstract == INSTANCE PageAllocator
              WITH held <- [c \in Clients |-> Held(c)],
                   Addresses <- Pages

\* alloc_pages and its wrappers implement the promise of PageAllocator.
KeepsPromise == Abstract!ASpec
============================================================================
