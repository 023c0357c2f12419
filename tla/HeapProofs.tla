----------------------------- MODULE HeapProofs -----------------------------
(***************************************************************************)
(* kmalloc, krealloc and kfree on top of the page allocator, before a page  *)
(* is freed, for every pool, page and object size: the pages stay with one  *)
(* holder and are counted, no slab ever has a free object, one object is    *)
(* served in the life of the kernel, and pages and objects together         *)
(* implement PageAllocator.                                                 *)
(***************************************************************************)
EXTENDS Heap, BuddyProofs, WellFoundedInduction

\* The types of the slab allocator's data.
Slabs == [slabs : Seq(Pages \ {NULL}), used_objs : Int, total_pages : Int,
          free_list : [Pages -> Nat], link : [Pages -> [1 .. ObjsPerPage - 1 -> Nat]]]

\* No slab in the list of st lies at address 0, none has a free object, and the
\* first word of each, page_phys, is clear.
Emptied(st, words) ==
  /\ st \in Slabs
  /\ \A p \in Pages \ {NULL} : st.free_list[p] = 0
  /\ \A x \in DOMAIN st.slabs : words[st.slabs[x]] = NULL

\* The slab allocator's data.
SlabInv ==
  /\ Emptied(slab, next)
  /\ slab.slabs # <<>> => initialized

\* No object lies in page 0.
ObjectInv ==
  /\ object \in [HeapClients -> Objects \cup {NoObject}]
  /\ \A h \in HeapClients : object[h] # NoObject => PageOf(object[h].addr) # NULL

\* A waiting kmalloc gets the block that alloc_pages made the head of its list.
WaitInv ==
  hcall # Idle =>
    /\ hcall \in [h : HeapClients, size : Sizes, s : SlabClients]
    /\ initialized
    /\ pc = "split" => call.c = hcall.s /\ call.api = "pages"
    /\ pc = "idle" => own[hcall.s] # None /\ own[hcall.s].base = free_lists[0]

\* Once an object is served, the list of the page allocator is at its end.
ServedInv ==
  /\ served \in 0 .. 1
  /\ served = 1 => /\ initialized
                   /\ free_lists[0] = NULL \/ next[free_lists[0]] = NULL
                   /\ hcall # Idle => free_lists[0] = NULL

\* The inductive invariant.
HeapInv == BootInv /\ SlabInv /\ ObjectInv /\ WaitInv /\ ServedInv

USE DEF NULL

\* Numbers of the heap.
LEMMA HeapFacts ==
  /\ PAGE_SIZE \in Nat /\ PAGE_SIZE > 0 /\ ObjSize \in Nat /\ ObjSize > 8
  /\ Sizes \subseteq Nat /\ SlabClients \subseteq Clients
  BY HeapConstants

\* kmalloc clears at least an object.
LEMMA ClearedLarge == ASSUME NEW size \in Nat PROVE Cleared(size) \in Nat /\ Cleared(size) >= ObjSize
<1> DEFINE s == IF size < ObjSize THEN ObjSize ELSE size
<1>1. s \in Nat /\ s >= ObjSize
  BY HeapFacts
<1> HIDE DEF s
<1>2. s + 7 - ((s + 7) % 8) \in Nat /\ s + 7 - ((s + 7) % 8) >= s
  BY <1>1
<1>3. Cleared(size) = s + 7 - ((s + 7) % 8)
  BY DEF Cleared, s
<1> QED
  BY <1>1, <1>2, <1>3, HeapFacts

\* The page of the first byte of a page.
LEMMA PageOfStart == ASSUME NEW p \in Nat PROVE p * PAGE_SIZE \in Nat /\ PageOf(p * PAGE_SIZE) = p
<1>1. ASSUME NEW m \in Nat, m > 0
      PROVE  p * m \in Nat /\ (p * m) \div m = p
  BY <1>1
<1> QED
  BY <1>1, HeapFacts DEF PageOf

\* No slab has a free object.
LEMMA NothingFree == SlabInv => WithFree(slab) = {}
<1> SUFFICES ASSUME SlabInv, NEW x \in DOMAIN slab.slabs
             PROVE  slab.free_list[slab.slabs[x]] = 0
  BY DEF WithFree
<1>1. slab.slabs \in Seq(Pages \ {NULL})
  BY DEF SlabInv, Emptied, Slabs
<1>2. slab.slabs[x] \in Pages \ {NULL}
  BY <1>1
<1> QED
  BY <1>2 DEF SlabInv, Emptied

\* kfree finds no slab for an object and changes nothing.
LEMMA FreeChangesNothing ==
  ASSUME NEW st, NEW words, NEW a, PageOf(a) # NULL,
         \A x \in DOMAIN st.slabs : words[st.slabs[x]] = NULL
  PROVE  SlabFree(st, words, a) = st
<1>1. {x \in DOMAIN st.slabs : words[st.slabs[x]] = PageOf(a)} = {}
  OBVIOUS
<1> QED
  BY <1>1 DEF SlabFree

\* The page allocator only needs the links to keep their values or to be cleared.
LEMMA LinksCleared ==
  ASSUME BootInv, next' \in [Pages -> Pages],
         \A p \in Pages : next'[p] = NULL \/ next'[p] = next[p],
         UNCHANGED <<initialized, free_lists, bitmap, free_count, own, pc, call, calls>>
  PROVE  BootInv'
<1> USE Facts
<1>1. TypeOK' /\ Ascending' /\ BlockIsHead' /\ BehindHead' /\ BasesDiffer'
  BY DEF BootInv, TypeOK, Ascending, BlockIsHead, BehindHead, BasesDiffer
<1>2. BitmapExact'
  BY DEF BootInv, BitmapExact, Held
<1> QED
  BY <1>1, <1>2 DEF BootInv

\* A page that alloc_pages took, at the head of the list of the page allocator.
LEMMA TakenPage ==
  ASSUME BootInv, WaitInv, hcall # Idle, pc = "idle"
  PROVE  own[hcall.s].base = free_lists[0] /\ free_lists[0] \in Pages
  BY Facts DEF BootInv, TypeOK, WaitInv

\* The heap's part of the invariant does not depend on the rest of the page
\* allocator's state.
LEMMA HeapUntouched ==
  ASSUME SlabInv, ObjectInv, UNCHANGED <<slab, object>>,
         BootInv, \A p \in Pages : next'[p] = NULL \/ next'[p] = next[p],
         initialized => initialized'
  PROVE  SlabInv' /\ ObjectInv'
<1>1. ASSUME NEW x \in DOMAIN slab.slabs
      PROVE  next'[slab.slabs[x]] = NULL
  <2>1. slab.slabs \in Seq(Pages \ {NULL})
    BY DEF SlabInv, Emptied, Slabs
  <2>2. slab.slabs[x] \in Pages
    BY <2>1
  <2> QED
    BY <2>2 DEF SlabInv, Emptied
<1>2. SlabInv'
  BY <1>1 DEF SlabInv, Emptied
<1> QED
  BY <1>2 DEF ObjectInv

\* A step of the page allocator for a page client keeps the links or clears
\* them, once the pool is set up.
LEMMA LinksStay ==
  ASSUME QuietClients, BootInv, NEW c \in Clients, Request(c) \/ ClientWrite(c) \/ AllocReturns
  PROVE  next' \in [Pages -> Pages] /\ \A p \in Pages : next'[p] = NULL \/ next'[p] = next[p]
<1> USE Facts
<1>1. CASE Request(c)
  BY <1>1 DEF Request, alloc_pages, AllocFails, phys_alloc, stack_alloc, Pop, BootInv, TypeOK
<1>2. CASE ClientWrite(c)
  <2>1. PICK p \in Pages : next' = [next EXCEPT ![p] = NULL]
    BY <1>2 DEF ClientWrite, QuietClients
  <2> QED
    BY <2>1 DEF BootInv, TypeOK
<1>3. CASE AllocReturns
  BY <1>3 DEF AllocReturns, BootInv, TypeOK
<1> QED
  BY <1>1, <1>2, <1>3

\* What the pop of alloc_pages does to the list of single pages.
LEMMA PopMoves ==
  ASSUME BootInv, NEW c \in Clients, NEW order \in Nat, NEW api, NEW zero,
         Pop(c, order, api, zero)
  PROVE  /\ initialized /\ free_lists[0] # NULL
         /\ free_lists'[0] = next[free_lists[0]]
         /\ pc' = "split" /\ call'.c = c /\ call'.api = api
         /\ UNCHANGED <<initialized, next, own>>
<1> USE Facts
<1>1. PICK o \in Orders :
        /\ FirstNonEmpty(order, o)
        /\ free_lists' = [free_lists EXCEPT ![o] = next[free_lists[o]]]
        /\ call' = [op |-> "alloc", c |-> c, api |-> api, order |-> order,
                    zero |-> zero, at |-> o, block |-> next[free_lists[o]],
                    end |-> next[free_lists[o]] + 2^o]
  BY DEF Pop
<1>2. o = 0 /\ free_lists[0] # NULL
  BY <1>1 DEF FirstNonEmpty, BootInv, Ascending
<1>3. free_lists'[0] = next[free_lists[0]]
  BY <1>1, <1>2 DEF BootInv, TypeOK
<1>4. call'.c = c /\ call'.api = api
  BY <1>1
<1>5. initialized /\ pc' = "split" /\ UNCHANGED <<initialized, next, own>>
  BY DEF Pop
<1> QED
  BY <1>2, <1>3, <1>4, <1>5

\* A request of a page client pops, or fails and leaves the lists alone.
LEMMA RequestMoves ==
  ASSUME BootInv, NEW c \in Clients, Request(c)
  PROVE  /\ UNCHANGED <<initialized, next, own>>
         /\ \/ free_lists[0] # NULL /\ free_lists'[0] = next[free_lists[0]]
            \/ UNCHANGED free_lists
<1> USE Facts
<1>1. ASSUME NEW o \in 0 .. MaxOrder, alloc_pages(c, o)
      PROVE  UNCHANGED <<initialized, next, own>> /\ free_lists[0] # NULL /\ free_lists'[0] = next[free_lists[0]]
  BY <1>1, PopMoves DEF alloc_pages
<1>2. ASSUME NEW o \in 0 .. MaxOrder, AllocFails(c, o)
      PROVE  UNCHANGED <<initialized, next, own, free_lists>>
  BY <1>2 DEF AllocFails
<1>3. ASSUME NEW n \in 1 .. 2^(MaxOrder - 1) + 1, phys_alloc(c, n)
      PROVE  UNCHANGED <<initialized, next, own>> /\ free_lists[0] # NULL /\ free_lists'[0] = next[free_lists[0]]
  <2>1. PICK o \in Orders : Pop(c, o, "phys", n)
    BY <1>3 DEF phys_alloc
  <2> QED
    BY <2>1, PopMoves
<1>4. ASSUME NEW n \in 0 .. MaxOrder, stack_alloc(c, n)
      PROVE  UNCHANGED <<initialized, next, own>> /\ free_lists[0] # NULL /\ free_lists'[0] = next[free_lists[0]]
  BY <1>4, PopMoves DEF stack_alloc
<1> QED
  BY <1>1, <1>2, <1>3, <1>4 DEF Request

\* The page clients' steps.
LEMMA PageClientKeeps ==
  ASSUME QuietClients, CleanPool, HeapInv, NEW c \in PageClients, PageClientStep(c),
         UNCHANGED heapVars
  PROVE  HeapInv'
<1> USE Facts
<1>1. c \in Clients
  BY DEF PageClients
<1>2. BootInv /\ SlabInv /\ ObjectInv /\ WaitInv /\ ServedInv
  BY DEF HeapInv
<1>3. Request(c) \/ ClientWrite(c)
  BY DEF PageClientStep
<1>4. BootInv'
  BY <1>1, <1>2, <1>3, NextBootInv DEF BootNext
<1>5. next' \in [Pages -> Pages] /\ \A p \in Pages : next'[p] = NULL \/ next'[p] = next[p]
  BY <1>1, <1>2, <1>3, LinksStay
<1>6. UNCHANGED initialized
  BY <1>1, <1>2, <1>3, RequestMoves DEF ClientWrite
<1>7. SlabInv' /\ ObjectInv'
  BY <1>2, <1>5, <1>6, HeapUntouched DEF heapVars
<1>8. WaitInv'
  BY DEF PageClientStep, Ready, WaitInv, heapVars
<1>9. ServedInv'
  <2>1. hcall' = Idle /\ served' = served
    BY DEF PageClientStep, Ready, heapVars
  <2>2. free_lists[0] \in Pages
    BY <1>2 DEF BootInv, TypeOK
  <2>3. CASE UNCHANGED free_lists
    BY <1>2, <1>5, <1>6, <2>1, <2>2, <2>3 DEF ServedInv
  <2>4. CASE free_lists[0] # NULL /\ free_lists'[0] = next[free_lists[0]]
    BY <1>2, <1>6, <2>1, <2>4 DEF ServedInv
  <2> QED
    BY <1>1, <1>2, <1>3, <2>3, <2>4, RequestMoves DEF ClientWrite
<1> QED
  BY <1>4, <1>7, <1>8, <1>9 DEF HeapInv

\* alloc_pages returns, to a page client or to kmalloc.
LEMMA ReturnKeeps ==
  ASSUME QuietClients, CleanPool, HeapInv, AllocReturns, UNCHANGED heapVars
  PROVE  HeapInv'
<1> USE Facts
<1>2. BootInv /\ SlabInv /\ ObjectInv /\ WaitInv /\ ServedInv
  BY DEF HeapInv
<1>3. call.c \in Clients /\ call.block = free_lists[0]
  BY <1>2 DEF AllocReturns, BootInv, BlockIsHead, AllocCalls
<1>4. BootInv'
  BY <1>2, NextBootInv DEF BootNext
<1>5. next' \in [Pages -> Pages] /\ \A p \in Pages : next'[p] = NULL \/ next'[p] = next[p]
  BY <1>2, <1>3, LinksStay
<1>6. UNCHANGED <<initialized, free_lists>> /\ pc = "split" /\ pc' = "idle"
  BY DEF AllocReturns
<1>7. SlabInv' /\ ObjectInv'
  BY <1>2, <1>5, <1>6, HeapUntouched DEF heapVars
<1>8. WaitInv'
  <2> SUFFICES ASSUME hcall # Idle
               PROVE  own'[hcall.s] # None /\ own'[hcall.s].base = free_lists[0]
    BY <1>2, <1>6 DEF WaitInv, heapVars
  <2>1. call.c = hcall.s /\ call.api = "pages"
    BY <1>2, <1>6 DEF WaitInv
  <2>2. own' = [own EXCEPT ![call.c] = [base |-> call.block, order |-> call.order,
                                        api |-> call.api]]
    BY <2>1 DEF AllocReturns
  <2>3. own'[hcall.s] = [base |-> call.block, order |-> call.order, api |-> call.api]
    BY <1>2, <1>3, <2>1, <2>2 DEF BootInv, TypeOK
  <2>4. call.block \in Nat /\ call.order \in Orders
    BY <1>2, <1>6 DEF BootInv, BlockIsHead, AllocCalls
  <2>5. own'[hcall.s] \in Blocks
    BY <2>1, <2>3, <2>4, SMTT(30) DEF Blocks
  <2> QED
    BY <1>3, <2>3, <2>5, NoneIsNoBlock, SMTT(30)
<1>9. ServedInv'
  BY <1>2, <1>5, <1>6 DEF ServedInv, heapVars, BootInv, TypeOK
<1> QED
  BY <1>4, <1>7, <1>8, <1>9 DEF HeapInv

\* mm_init.
LEMMA SetupKeeps ==
  ASSUME QuietClients, CleanPool, HeapInv, mm_init, UNCHANGED heapVars
  PROVE  HeapInv'
<1> USE Facts
<1>1. BootInv /\ SlabInv /\ ObjectInv /\ WaitInv /\ ServedInv
  BY DEF HeapInv
<1>2. ~initialized /\ initialized'
  BY DEF mm_init
<1>3. BootInv'
  BY <1>1, NextBootInv DEF BootNext
<1>4. SlabInv'
  <2>1. slab.slabs = <<>> /\ slab' = slab
    BY <1>1, <1>2 DEF SlabInv, Emptied, heapVars
  <2>2. DOMAIN slab.slabs = {}
    BY <2>1
  <2> QED
    BY <1>1, <1>2, <2>1, <2>2 DEF SlabInv, Emptied
<1>5. hcall = Idle /\ hcall' = Idle /\ served = 0 /\ served' = 0
  <2>1. hcall = Idle
    BY <1>1, <1>2, Zenon DEF WaitInv
  <2>2. served = 0
    BY <1>1, <1>2, SMTT(30) DEF ServedInv
  <2> QED
    BY <2>1, <2>2 DEF heapVars
<1>6. ObjectInv'
  <2>1. object' = object
    BY DEF heapVars
  <2> QED
    BY <1>1, <2>1, ZenonT(30) DEF ObjectInv
<1>7. WaitInv'
  BY <1>5, SMTT(30) DEF WaitInv
<1>8. ServedInv'
  BY <1>5, SMTT(30) DEF ServedInv
<1> QED
  BY <1>3, <1>4, <1>6, <1>7, <1>8 DEF HeapInv

\* kmalloc finds no free object and pops a page.
LEMMA KmallocKeeps ==
  ASSUME QuietClients, CleanPool, HeapInv, NEW h \in HeapClients, NEW size \in Sizes,
         kmalloc(h, size)
  PROVE  HeapInv'
<1> USE Facts
<1>1. BootInv /\ SlabInv /\ ObjectInv /\ WaitInv /\ ServedInv
  BY DEF HeapInv
<1>2. PICK s \in SlabClients : /\ alloc_pages(s, 0)
                               /\ hcall' = [h |-> h, size |-> size, s |-> s]
                               /\ UNCHANGED <<slab, object, served>>
  BY <1>1, NothingFree DEF kmalloc
<1>3. s \in Clients
  BY HeapConstants
<1>4. /\ initialized /\ free_lists[0] # NULL
      /\ free_lists'[0] = next[free_lists[0]]
      /\ pc' = "split" /\ call'.c = s /\ call'.api = "pages"
      /\ UNCHANGED <<initialized, next, own>>
  BY <1>1, <1>2, <1>3, PopMoves DEF alloc_pages
<1>5. BootInv'
  BY <1>1, <1>2, <1>3, PopStep DEF alloc_pages
<1>6. SlabInv' /\ ObjectInv'
  BY <1>1, <1>2, <1>4, HeapUntouched
<1>7. WaitInv'
  <2>1. hcall' \in [h : HeapClients, size : Sizes, s : SlabClients] /\ hcall'.s = s
    BY <1>2
  <2> QED
    BY <1>4, <2>1 DEF WaitInv
<1>8. ServedInv'
  BY <1>1, <1>2, <1>4 DEF ServedInv
<1> QED
  BY <1>5, <1>6, <1>7, <1>8 DEF HeapInv

\* kmalloc fails.
LEMMA FailKeeps ==
  ASSUME QuietClients, CleanPool, HeapInv, NEW h \in HeapClients, NEW size \in Sizes,
         KmallocFails(h, size)
  PROVE  HeapInv'
<1> USE Facts
<1>1. BootInv /\ SlabInv /\ ObjectInv /\ WaitInv /\ ServedInv
  BY DEF HeapInv
<1>2. PICK s \in SlabClients : AllocFails(s, 0)
  BY DEF KmallocFails
<1>3. s \in Clients
  BY HeapConstants
<1>4. BootInv'
  BY <1>1, <1>2, <1>3, FailStep
<1>5. UNCHANGED <<initialized, free_lists, next, own, pc, call, slab, object, hcall, served>>
  BY <1>2 DEF AllocFails, KmallocFails, heapVars
<1>6. SlabInv' /\ ObjectInv'
  BY <1>1, <1>5, HeapUntouched
<1> QED
  BY <1>1, <1>4, <1>5, <1>6 DEF HeapInv, WaitInv, ServedInv

\* kfree.
LEMMA FreeKeeps ==
  ASSUME HeapInv, NEW h \in HeapClients, kfree(h)
  PROVE  HeapInv'
<1> USE Facts
<1>1. BootInv /\ SlabInv /\ ObjectInv /\ WaitInv /\ ServedInv
  BY DEF HeapInv
<1>2. slab' = slab
  <2>1. PageOf(object[h].addr) # NULL
    BY <1>1 DEF kfree, ObjectInv
  <2>2. \A x \in DOMAIN slab.slabs : next[slab.slabs[x]] = NULL
    BY <1>1 DEF SlabInv, Emptied
  <2> QED
    BY <2>1, <2>2, FreeChangesNothing DEF kfree
<1>3. /\ UNCHANGED <<initialized, free_lists, next, bitmap, free_count, own, pc, call, calls>>
      /\ UNCHANGED <<hcall, served>>
  BY DEF kfree, vars
<1>4. BootInv'
  BY <1>1, <1>3, LinksCleared DEF BootInv, TypeOK
<1>5. ObjectInv'
  BY <1>1 DEF ObjectInv, kfree
<1> QED
  BY <1>1, <1>2, <1>3, <1>4, <1>5 DEF HeapInv, SlabInv, Emptied, WaitInv, ServedInv

\* The least element of a set of numbers is one of its elements.
LEMMA LeastIsMember ==
  ASSUME NEW S, S \subseteq Nat, S # {}
  PROVE  Min(S) \in S
<1> DEFINE R == OpToRel(<, Nat)
<1>1. \A x, y \in Nat : y < x => <<y, x>> \in R
  BY DEF OpToRel
<1>2. IsWellFoundedOn(R, Nat)
  BY NatLessThanWellFounded
<1> HIDE DEF R
<1>3. PICK x \in S : \A y \in S : ~ (<<y, x>> \in R)
  BY <1>2, WFMin, Zenon
<1>4. \A y \in S : ~ (y < x)
  BY <1>1, <1>3, Zenon
<1>5. \A y \in S : x <= y
  BY <1>4
<1> QED
  BY <1>5 DEF Min

\* The header slab_alloc writes.
LEMMA NewSlabTyped ==
  ASSUME NEW st \in Slabs, NEW p \in Pages
  PROVE  /\ NewSlab(st, p) \in Slabs
         /\ NewSlab(st, p).slabs = IF p = NULL THEN <<>> ELSE <<p>> \o st.slabs
         /\ \A q \in Pages : q # p => NewSlab(st, p).free_list[q] = st.free_list[q]
<1> USE Facts
<1> DEFINE n == NewSlab(st, p)
           l == IF p = NULL THEN <<>> ELSE <<p>> \o st.slabs
           f == p * PAGE_SIZE + ObjSize
           k == [i \in 1 .. ObjsPerPage - 1 |->
                  IF i = ObjsPerPage - 1 THEN 0 ELSE p * PAGE_SIZE + (i + 1) * ObjSize]
<1>1. l \in Seq(Pages \ {NULL})
  <2>1. st.slabs \in Seq(Pages \ {NULL})
    BY DEF Slabs
  <2>2. p # NULL => <<p>> \in Seq(Pages \ {NULL})
    OBVIOUS
  <2>3. p # NULL => <<p>> \o st.slabs \in Seq(Pages \ {NULL})
    BY <2>1, <2>2
  <2>4. <<>> \in Seq(Pages \ {NULL})
    OBVIOUS
  <2> QED
    BY <2>3, <2>4, Zenon
<1>2. p * PAGE_SIZE \in Nat
  BY PageOfStart
<1>3. f \in Nat
  BY <1>2, HeapFacts
<1>4. k \in [1 .. ObjsPerPage - 1 -> Nat]
  <2>1. ASSUME NEW i \in 1 .. ObjsPerPage - 1
        PROVE  (i + 1) * ObjSize \in Nat
    BY HeapConstants
  <2> QED
    BY <1>2, <2>1
<1>5. n = [slabs |-> l, used_objs |-> st.used_objs + 1, total_pages |-> st.total_pages + 1,
           free_list |-> [st.free_list EXCEPT ![p] = f], link |-> [st.link EXCEPT ![p] = k]]
  <2>1. DOMAIN st = {"slabs", "used_objs", "total_pages", "free_list", "link"}
    BY DEF Slabs
  <2>2. n = [st EXCEPT !.slabs = l, !.used_objs = st.used_objs + 1,
                       !.total_pages = st.total_pages + 1,
                       !.free_list = [st.free_list EXCEPT ![p] = f],
                       !.link = [st.link EXCEPT ![p] = k]]
    BY Zenon DEF NewSlab
  <2> QED
    BY <2>1, <2>2
<1> HIDE DEF l, f, k, n
<1>6. n \in Slabs
  <2>1. st.used_objs + 1 \in Int /\ st.total_pages + 1 \in Int
    BY DEF Slabs
  <2>2. [st.free_list EXCEPT ![p] = f] \in [Pages -> Nat]
    BY <1>3 DEF Slabs
  <2>3. [st.link EXCEPT ![p] = k] \in [Pages -> [1 .. ObjsPerPage - 1 -> Nat]]
    <3>1. st.link \in [Pages -> [1 .. ObjsPerPage - 1 -> Nat]]
      BY DEF Slabs
    <3> QED
      BY <1>4, <3>1, Zenon
  <2> QED
    BY <1>1, <1>5, <2>1, <2>2, <2>3, Zenon DEF Slabs
<1>7. \A q \in Pages : q # p => n.free_list[q] = st.free_list[q]
  BY <1>5 DEF Slabs
<1> QED
  <2>1. n.slabs = l
    BY <1>5, Zenon
  <2> QED
    BY <2>1, <1>6, <1>7, Zenon DEF n, l

\* m is st with a shorter list of slabs and the heads within the n bytes at a
\* cleared.
Shortened(m, st, a, n) ==
  /\ m \in Slabs
  /\ \A x \in DOMAIN m.slabs : x \in DOMAIN st.slabs /\ m.slabs[x] = st.slabs[x]
  /\ \A p \in Pages :
       m.free_list[p] = IF Within(a, n, p * PAGE_SIZE + 8) THEN 0 ELSE st.free_list[p]

\* Clearing words only shortens the list of slabs, and clears heads.
LEMMA MemsetTyped ==
  ASSUME NEW st \in Slabs, NEW a \in Nat, NEW n \in Nat
  PROVE  Shortened(MemsetSlab(st, a, n), st, a, n)
<1> USE Facts
<1> DEFINE cut == {i \in DOMAIN st.slabs : Within(a, n, st.slabs[i] * PAGE_SIZE + NextField)}
           l == IF cut = {} THEN st.slabs ELSE SubSeq(st.slabs, 1, Min(cut))
           f == [p \in Pages |-> IF Within(a, n, p * PAGE_SIZE + 8) THEN 0 ELSE st.free_list[p]]
           k == [p \in Pages |-> [i \in 1 .. ObjsPerPage - 1 |->
                   IF Within(a, n, p * PAGE_SIZE + i * ObjSize) THEN 0 ELSE st.link[p][i]]]
           m == MemsetSlab(st, a, n)
<1>1. m = [slabs |-> l, used_objs |-> st.used_objs, total_pages |-> st.total_pages,
           free_list |-> f, link |-> k]
  <2>1. DOMAIN st = {"slabs", "used_objs", "total_pages", "free_list", "link"}
    BY DEF Slabs
  <2>2. m = [st EXCEPT !.slabs = l, !.free_list = f, !.link = k]
    BY Zenon DEF MemsetSlab
  <2> QED
    BY <2>1, <2>2
<1>2. st.slabs \in Seq(Pages \ {NULL}) /\ DOMAIN st.slabs = 1 .. Len(st.slabs)
  BY DEF Slabs
<1>3. l \in Seq(Pages \ {NULL}) /\ \A x \in DOMAIN l : x \in DOMAIN st.slabs /\ l[x] = st.slabs[x]
  <2>1. CASE cut = {}
    BY <1>2, <2>1
  <2>2. CASE cut # {}
    <3>1. cut \subseteq 1 .. Len(st.slabs)
      BY <1>2
    <3>2. l = SubSeq(st.slabs, 1, Min(cut))
      BY <2>2
    <3> HIDE DEF l, cut
    <3>3. Min(cut) \in 1 .. Len(st.slabs)
      <4>1. cut \subseteq Nat
        BY <3>1
      <4> QED
        BY <2>2, <3>1, <4>1, LeastIsMember, Zenon
    <3> QED
      BY <1>2, <3>2, <3>3
  <2> QED
    BY <2>1, <2>2
<1>4. f \in [Pages -> Nat]
  BY DEF Slabs
<1>5. k \in [Pages -> [1 .. ObjsPerPage - 1 -> Nat]]
  BY DEF Slabs
<1>6. \A p \in Pages : f[p] = IF Within(a, n, p * PAGE_SIZE + 8) THEN 0 ELSE st.free_list[p]
  OBVIOUS
<1>7. st.used_objs \in Int /\ st.total_pages \in Int
  BY DEF Slabs
<1> HIDE DEF l, f, k, m
<1>8. m \in Slabs
  BY <1>1, <1>3, <1>4, <1>5, <1>7 DEF Slabs
<1>9. m.slabs = l /\ m.free_list = f
  BY <1>1
<1> QED
  BY <1>3, <1>6, <1>8, <1>9 DEF m, Shortened

\* kmalloc's list after it cleared the header of the new slab in page p.
LEMMA ClearedSlab ==
  ASSUME SlabInv, NEW p \in Pages, p # NULL, NEW n \in Nat, n > 8
  PROVE  /\ Emptied(MemsetSlab(NewSlab(slab, p), p * PAGE_SIZE, n),
                    MemsetWords(next, p * PAGE_SIZE, n))
         /\ MemsetWords(next, p * PAGE_SIZE, n)[p] = NULL
<1> USE Facts
<1> DEFINE st == NewSlab(slab, p)
           a  == p * PAGE_SIZE
           m  == MemsetSlab(st, a, n)
           w  == MemsetWords(next, a, n)
<1>1. a \in Nat
  BY PageOfStart
<1>2. /\ st \in Slabs /\ st.slabs = <<p>> \o slab.slabs
      /\ \A q \in Pages : q # p => st.free_list[q] = slab.free_list[q]
  BY NewSlabTyped DEF SlabInv, Emptied
<1>3. Within(a, n, p * PAGE_SIZE) /\ Within(a, n, p * PAGE_SIZE + 8)
  BY <1>1 DEF Within
<1> HIDE DEF st, a
<1>4. /\ m \in Slabs
      /\ \A x \in DOMAIN m.slabs : x \in DOMAIN st.slabs /\ m.slabs[x] = st.slabs[x]
      /\ \A q \in Pages : m.free_list[q]
                            = IF Within(a, n, q * PAGE_SIZE + 8) THEN 0 ELSE st.free_list[q]
  <2>1. Shortened(m, st, a, n)
    BY <1>1, <1>2, MemsetTyped, Zenon
  <2> HIDE DEF m
  <2> QED
    BY <2>1 DEF Shortened
<1>5. w[p] = NULL /\ \A q \in Pages : w[q] = NULL \/ w[q] = next[q]
  BY <1>3 DEF MemsetWords
<1> HIDE DEF m, w
<1>6. ASSUME NEW q \in Pages \ {NULL}
      PROVE  m.free_list[q] = 0
  <2>1. m.free_list[q] = IF Within(a, n, q * PAGE_SIZE + 8) THEN 0 ELSE st.free_list[q]
    BY <1>4, Zenon
  <2>2. slab.free_list[q] = 0
    BY Zenon DEF SlabInv, Emptied
  <2>3. CASE q = p
    <3>1. Within(a, n, q * PAGE_SIZE + 8)
      BY <1>3, <2>3, Zenon
    <3> QED
      BY <2>1, <3>1, Zenon
  <2>4. CASE q # p
    <3>1. st.free_list[q] = 0
      BY <1>2, <2>2, <2>4, Zenon
    <3> QED
      BY <2>1, <3>1, Zenon
  <2> QED
    BY <2>3, <2>4
<1>7. ASSUME NEW x \in DOMAIN m.slabs
      PROVE  w[m.slabs[x]] = NULL
  <2>1. slab.slabs \in Seq(Pages \ {NULL})
    BY DEF SlabInv, Emptied, Slabs
  <2>2. x \in DOMAIN st.slabs /\ m.slabs[x] = st.slabs[x]
    BY <1>4
  <2>3. st.slabs[x] = p \/ \E y \in DOMAIN slab.slabs : st.slabs[x] = slab.slabs[y]
    <3>1. x \in 1 .. Len(slab.slabs) + 1
      <4>1. <<p>> \in Seq(Pages) /\ Len(<<p>>) = 1 /\ slab.slabs \in Seq(Pages)
        BY <2>1
      <4>2. DOMAIN (<<p>> \o slab.slabs) = 1 .. Len(slab.slabs) + 1
        BY <4>1, SMTT(30)
      <4> QED
        BY <1>2, <2>2, <4>2, Zenon
    <3>2. CASE x = 1
      BY <1>2, <2>1, <3>2, SMTT(30)
    <3>3. CASE x # 1
      <4>1. x - 1 \in DOMAIN slab.slabs /\ st.slabs[x] = slab.slabs[x - 1]
        BY <1>2, <2>1, <3>1, <3>3, SMTT(30)
      <4> QED
        BY <4>1
    <3> QED
      BY <3>2, <3>3
  <2>4. ASSUME NEW y \in DOMAIN slab.slabs
        PROVE  w[slab.slabs[y]] = NULL
    <3>1. slab.slabs[y] \in Pages
      BY <2>1, SMTT(30)
    <3>2. next[slab.slabs[y]] = NULL
      BY Zenon DEF SlabInv, Emptied
    <3> QED
      BY <1>5, <3>1, <3>2
  <2> QED
    BY <1>5, <2>2, <2>3, <2>4, ZenonT(60)
<1>8. Emptied(m, w)
  BY <1>4, <1>6, <1>7 DEF Emptied
<1> QED
  BY <1>5, <1>8 DEF m, w, a, st

\* kmalloc returns.
LEMMA KmallocReturnKeeps ==
  ASSUME HeapInv, KmallocReturns
  PROVE  HeapInv'
<1> USE Facts
<1> DEFINE p == own[hcall.s].base
<1>1. BootInv /\ SlabInv /\ ObjectInv /\ WaitInv /\ ServedInv
  BY DEF HeapInv
<1>2. /\ hcall # Idle /\ pc = "idle" /\ hcall' = Idle
      /\ UNCHANGED <<initialized, free_lists, bitmap, free_count, own, pc, call, calls>>
  BY DEF KmallocReturns
<1>3. p = free_lists[0] /\ p \in Pages
  BY <1>1, <1>2, TakenPage
<1>4. /\ hcall \in [h : HeapClients, size : Sizes, s : SlabClients]
      /\ initialized
  BY <1>1, <1>2 DEF WaitInv
<1>5. WaitInv'
  BY <1>2 DEF WaitInv
<1>6. CASE p = NULL
  <2>1. slab' = NewSlab(slab, NULL) /\ next' = [next EXCEPT ![NULL] = NULL] /\ UNCHANGED <<object, served>>
    BY <1>6 DEF KmallocReturns
  <2>2. /\ slab' \in Slabs /\ slab'.slabs = <<>>
        /\ \A q \in Pages : q # NULL => slab'.free_list[q] = slab.free_list[q]
    BY <1>1, <2>1, NewSlabTyped DEF SlabInv, Emptied
  <2>3. next' \in [Pages -> Pages] /\ \A q \in Pages : next'[q] = NULL \/ next'[q] = next[q]
    BY <1>1, <2>1 DEF BootInv, TypeOK
  <2>4. BootInv'
    BY <1>1, <1>2, <2>3, LinksCleared
  <2>5. SlabInv'
    <3>1. DOMAIN slab'.slabs = {}
      BY <2>2
    <3> QED
      BY <1>1, <2>2, <3>1 DEF SlabInv, Emptied
  <2>6. ObjectInv' /\ ServedInv'
    BY <1>1, <1>2, <1>3, <2>1, <2>3 DEF ObjectInv, ServedInv
  <2> QED
    BY <1>5, <2>4, <2>5, <2>6 DEF HeapInv
<1>7. CASE p # NULL
  <2> DEFINE n == Cleared(hcall.size)
             m == MemsetSlab(NewSlab(slab, p), p * PAGE_SIZE, n)
             old == object[hcall.h]
  <2>1. hcall.h \in HeapClients /\ hcall.size \in Nat
    BY <1>4, HeapFacts
  <2>2. /\ next' = MemsetWords(next, p * PAGE_SIZE, n)
        /\ slab' = IF old = NoObject THEN m ELSE SlabFree(m, next', old.addr)
        /\ object' = [object EXCEPT ![hcall.h] = [addr |-> p * PAGE_SIZE, size |-> hcall.size]]
        /\ served' = served + 1
    BY <1>7 DEF KmallocReturns, Deliver
  <2>3. n \in Nat /\ n > 8
    BY <2>1, ClearedLarge, HeapFacts
  <2> HIDE DEF p, n
  <2>4. /\ m \in Slabs
        /\ \A q \in Pages \ {NULL} : m.free_list[q] = 0
        /\ \A x \in DOMAIN m.slabs : next'[m.slabs[x]] = NULL
        /\ next'[p] = NULL
    <3>1. Emptied(m, next') /\ next'[p] = NULL
      BY <1>1, <1>3, <1>7, <2>2, <2>3, ClearedSlab, Zenon
    <3> QED
      BY <3>1 DEF Emptied
  <2> HIDE DEF m
  <2>5. slab' = m
    <3>1. old # NoObject => PageOf(old.addr) # NULL
      BY <1>1, <2>1 DEF ObjectInv
    <3> HIDE DEF old
    <3>2. CASE old = NoObject
      BY <2>2, <3>2, Zenon
    <3>3. CASE old # NoObject
      <4>1. PageOf(old.addr) # NULL /\ \A x \in DOMAIN m.slabs : next'[m.slabs[x]] = NULL
        BY <2>4, <3>1, <3>3, Zenon
      <4>2. {x \in DOMAIN m.slabs : next'[m.slabs[x]] = PageOf(old.addr)} = {}
        BY <4>1, Zenon
      <4>3. SlabFree(m, next', old.addr) = m
        BY <4>2, Zenon DEF SlabFree
      <4> QED
        BY <2>2, <3>3, <4>3, Zenon
    <3> QED
      BY <3>2, <3>3
  <2>6. next' \in [Pages -> Pages] /\ \A q \in Pages : next'[q] = NULL \/ next'[q] = next[q]
    BY <1>1, <2>2 DEF MemsetWords, BootInv, TypeOK
  <2>7. BootInv'
    BY <1>1, <1>2, <2>6, LinksCleared
  <2>8. SlabInv'
    BY <1>2, <1>4, <2>4, <2>5 DEF SlabInv, Emptied
  <2>9. ObjectInv'
    <3>1. p * PAGE_SIZE \in Nat /\ PageOf(p * PAGE_SIZE) = p
      BY <1>3, PageOfStart
    <3> QED
      BY <1>1, <1>7, <2>1, <2>2, <3>1 DEF ObjectInv, Objects
  <2>10. ServedInv'
    <3>1. served = 0
      BY <1>1, <1>2, <1>3, <1>7 DEF ServedInv
    <3>2. served' = 1
      <4>1. served' = served + 1
        BY <2>2, Zenon
      <4> QED
        BY <3>1, <4>1
    <3>3. initialized' /\ hcall' = Idle /\ free_lists'[0] = p
      BY <1>2, <1>3, <1>4
    <3>4. next'[free_lists'[0]] = NULL
      BY <2>4, <3>3
    <3>5. served' \in 0 .. 1
      BY <3>2
    <3> QED
      BY <3>3, <3>4, <3>5, Zenon DEF ServedInv
  <2> QED
    BY <1>5, <2>7, <2>8, <2>9, <2>10 DEF HeapInv
<1> QED
  BY <1>6, <1>7

\* Every step of HeapSpec preserves the invariant.
LEMMA NextHeapInv ==
  ASSUME CleanPool, QuietClients, HeapInv, [HeapNext]_allVars
  PROVE  HeapInv'
<1>1. CASE mm_init /\ UNCHANGED heapVars
  BY <1>1, SetupKeeps
<1>2. CASE Split
  BY <1>2, Facts DEF Split, HeapInv, BootInv, BlockIsHead, AllocCalls
<1>3. CASE AllocReturns /\ UNCHANGED heapVars
  BY <1>3, ReturnKeeps
<1>4. ASSUME NEW c \in PageClients, PageClientStep(c), UNCHANGED heapVars
      PROVE  HeapInv'
  BY <1>4, PageClientKeeps
<1>5. ASSUME NEW h \in HeapClients, NEW size \in Sizes, kmalloc(h, size) \/ KmallocFails(h, size)
      PROVE  HeapInv'
  BY <1>5, KmallocKeeps, FailKeeps
<1>6. CASE KmallocReturns
  BY <1>6, KmallocReturnKeeps
<1>7. ASSUME NEW h \in HeapClients, kfree(h)
      PROVE  HeapInv'
  BY <1>7, FreeKeeps
<1>8. CASE UNCHANGED allVars
  <2>1. UNCHANGED <<initialized, free_lists, next, bitmap, free_count, own, pc, call, calls,
                    slab, object, hcall, served>>
    BY <1>8 DEF allVars, vars, heapVars
  <2>2. BootInv /\ SlabInv /\ ObjectInv /\ WaitInv /\ ServedInv
    BY DEF HeapInv
  <2>3. BootInv'
    BY <2>1, <2>2, LinksCleared DEF BootInv, TypeOK
  <2> QED
    BY <2>1, <2>2, <2>3 DEF HeapInv, SlabInv, Emptied, ObjectInv, WaitInv, ServedInv
<1> QED
  BY <1>1, <1>2, <1>3, <1>4, <1>5, <1>6, <1>7, <1>8 DEF HeapNext

\* The heap starts in the invariant.
LEMMA InitHeapInv == HeapInit => HeapInv
<1> SUFFICES ASSUME HeapInit PROVE HeapInv
  OBVIOUS
<1> USE Facts
<1>1. BootInv
  BY InitBootInv DEF HeapInit
<1>2. slab = SlabInit /\ DOMAIN slab.slabs = {} /\ slab.slabs = <<>>
  <2>1. slab = SlabInit /\ SlabInit.slabs = <<>>
    BY Zenon DEF HeapInit, SlabInit
  <2>2. DOMAIN <<>> = {}
    OBVIOUS
  <2> QED
    BY <2>1, <2>2, Zenon
<1>3. slab \in Slabs /\ \A p \in Pages : slab.free_list[p] = 0
  <2>1. <<>> \in Seq(Pages \ {NULL}) /\ 0 \in Int /\ 0 \in Nat
    OBVIOUS
  <2>2. [p \in Pages |-> 0] \in [Pages -> Nat]
    BY <2>1
  <2>3. [p \in Pages |-> [x \in 1 .. ObjsPerPage - 1 |-> 0]]
          \in [Pages -> [1 .. ObjsPerPage - 1 -> Nat]]
    BY <2>1
  <2>4. \A p \in Pages : [q \in Pages |-> 0][p] = 0
    OBVIOUS
  <2>5. slab.free_list = [p \in Pages |-> 0]
    BY <1>2 DEF SlabInit
  <2>6. slab \in Slabs
    BY <1>2, <2>1, <2>2, <2>3, Zenon DEF SlabInit, Slabs
  <2> QED
    BY <2>4, <2>5, <2>6, Zenon
<1>4. SlabInv
  BY <1>2, <1>3 DEF SlabInv, Emptied
<1>5. ObjectInv /\ WaitInv /\ ServedInv
  <2>1. object = [h \in HeapClients |-> NoObject] /\ hcall = Idle /\ served = 0
    BY Zenon DEF HeapInit
  <2>2. ObjectInv
    BY <2>1, Zenon DEF ObjectInv
  <2>3. WaitInv
    BY <2>1, Zenon DEF WaitInv
  <2>4. ServedInv
    BY <2>1 DEF ServedInv
  <2> QED
    BY <2>2, <2>3, <2>4
<1> QED
  BY <1>1, <1>4, <1>5 DEF HeapInv
----------------------------------------------------------------------------
\* The invariant holds in every state of kmalloc, krealloc, kfree and the page
\* clients until a page is freed, for every pool, page and object size.
THEOREM HeapInvariance ==
  ASSUME CleanPool, QuietClients
  PROVE  HeapSpec => []HeapInv
<1>1. HeapInv /\ [HeapNext]_allVars => HeapInv'
  BY NextHeapInv
<1> QED
  BY InitHeapInv, <1>1, PTL DEF HeapSpec

\* kmalloc never finds a free object in an existing slab: whatever the sizes
\* asked for, clearing the object it returns clears the new slab's header.
THEOREM HeapAlwaysExhausted ==
  ASSUME CleanPool, QuietClients
  PROVE  HeapSpec => []SlabsExhausted
<1>1. HeapInv => SlabsExhausted
  BY NothingFree DEF HeapInv, SlabsExhausted
<1> QED
  BY HeapInvariance, <1>1, PTL

\* kmalloc and krealloc return an object at most once in the life of the
\* kernel, however large the pool is.
THEOREM HeapServesOnce ==
  ASSUME CleanPool, QuietClients
  PROVE  HeapSpec => []ServesOnce
<1>1. HeapInv => ServesOnce
  BY DEF HeapInv, ServedInv, ServesOnce
<1> QED
  BY HeapInvariance, <1>1, PTL

\* No page is given to two holders, the slab allocator among them.
THEOREM HeapNoSharing ==
  ASSUME CleanPool, QuietClients
  PROVE  HeapSpec => []NoSharing
<1>1. HeapInv => NoSharing
  BY HeldPage DEF HeapInv, BootInv, BasesDiffer, NoSharing
<1> QED
  BY HeapInvariance, <1>1, PTL

\* The bitmap of the page allocator stays exact under the slab allocator.
THEOREM HeapBitmapExact ==
  ASSUME CleanPool, QuietClients
  PROVE  HeapSpec => []BitmapExact
<1>1. HeapInv => BitmapExact
  BY DEF HeapInv, BootInv
<1> QED
  BY HeapInvariance, <1>1, PTL
----------------------------------------------------------------------------
(* The count of free pages under the slab allocator.                       *)

\* A kmalloc that finds no free object pops a page; nothing else happens.
LEMMA KmallocPops ==
  ASSUME HeapInv, NEW h \in HeapClients, NEW size \in Sizes, kmalloc(h, size)
  PROVE  \E s \in SlabClients :
           /\ alloc_pages(s, 0)
           /\ hcall' = [h |-> h, size |-> size, s |-> s]
           /\ UNCHANGED <<slab, object, served>>
  BY NothingFree, Zenon DEF HeapInv, kmalloc

\* Every step of HeapSpec keeps the count.
LEMMA HeapCountInv ==
  ASSUME HeapInv, HeapInv', CountInv, [HeapNext]_allVars
  PROVE  CountInv'
<1>1. BootInv /\ BootInv'
  BY DEF HeapInv
<1>2. CASE mm_init
  BY <1>1, <1>2, CountInit
<1>3. CASE Split
  BY <1>3, Facts DEF Split, HeapInv, BootInv, BlockIsHead, AllocCalls
<1>4. CASE AllocReturns
  BY <1>1, <1>4, CountReturn
<1>5. ASSUME NEW c \in PageClients, PageClientStep(c)
      PROVE  CountInv'
  <2>1. c \in Clients
    BY DEF PageClients
  <2>2. CASE Request(c)
    BY <1>1, <2>1, <2>2, CountRequest
  <2>3. CASE ClientWrite(c)
    BY <2>3, CountStays DEF ClientWrite
  <2> QED
    BY <1>5, <2>2, <2>3 DEF PageClientStep
<1>6. ASSUME NEW h \in HeapClients, NEW size \in Sizes, kmalloc(h, size)
      PROVE  CountInv'
  <2>1. PICK s \in SlabClients : alloc_pages(s, 0)
    BY <1>6, KmallocPops
  <2>2. s \in Clients /\ 0 \in Nat
    BY HeapFacts
  <2> QED
    BY <1>1, <2>1, <2>2, CountPop DEF alloc_pages
<1>7. ASSUME NEW h \in HeapClients, NEW size \in Sizes, KmallocFails(h, size)
      PROVE  CountInv'
  BY <1>7, CountStays DEF KmallocFails, AllocFails
<1>8. CASE KmallocReturns
  BY <1>8, CountStays DEF KmallocReturns
<1>9. ASSUME NEW h \in HeapClients, kfree(h)
      PROVE  CountInv'
  BY <1>9, CountStays DEF kfree, vars
<1>10. CASE UNCHANGED allVars
  BY <1>10, CountStays DEF allVars, vars
<1> QED
  BY <1>2, <1>3, <1>4, <1>5, <1>6, <1>7, <1>8, <1>9, <1>10 DEF HeapNext

\* buddy_free_pages stays exact when kmalloc takes pages for its slabs.
THEOREM HeapFreeCounted ==
  ASSUME CleanPool, QuietClients
  PROVE  HeapSpec => []FreeCounted
<1>1. CountInv /\ HeapInv /\ HeapInv' /\ [HeapNext]_allVars => CountInv'
  BY HeapCountInv
<1>2. HeapInit => CountInv
  BY InitCountInv DEF HeapInit
<1>3. HeapInv /\ CountInv => FreeCounted
  BY CountShown DEF HeapInv
<1> QED
  BY HeapInvariance, <1>1, <1>2, <1>3, PTL DEF HeapSpec
----------------------------------------------------------------------------
(* Pages and objects together implement PageAllocator.                     *)

\* An object that starts in the pool ends in physical memory.
SizesFit ==
  \A p \in Pool, size \in Sizes \ {0} : PageOf(p * PAGE_SIZE + size - 1) \in Pages

\* The object of h starts at page p, whatever its size, and every page client
\* holds an earlier page.
ObjectAt(h, p) ==
  /\ p \in Pool
  /\ object[h].addr = p * PAGE_SIZE
  /\ object[h].size \in Sizes \ {0}
  /\ \A c \in PageClients : own[c] # None => own[c].base < p

\* There is at most one object, the one that was served; from then on
\* alloc_pages finds nothing but the NULL block.
OneObject ==
  /\ \A h \in HeapClients : object[h] # NoObject =>
       served = 1 /\ \E p \in Pool : ObjectAt(h, p)
  /\ \A g, h \in HeapClients : object[g] # NoObject /\ object[h] # NoObject => g = h
  /\ served = 1 /\ pc = "split" => call.block = NULL
  /\ hcall # Idle => hcall.size # 0

\* Steps that leave holders and objects alone.
LEMMA ObjectsStay ==
  ASSUME OneObject, UNCHANGED <<own, object, served, hcall>>,
         pc' = "split" => pc = "split" /\ call' = call
  PROVE  OneObject'
<1>1. \A h \in HeapClients, p \in Pool : ObjectAt(h, p) => ObjectAt(h, p)'
  BY DEF ObjectAt
<1> QED
  BY <1>1 DEF OneObject

\* A pop once an object is served gives the NULL block.
LEMMA ServedPops ==
  ASSUME HeapInv, NEW c \in Clients, NEW order \in Nat, NEW zero, NEW api,
         Pop(c, order, api, zero), served = 1
  PROVE  call'.block = NULL
<1> USE Facts
<1>1. PICK o \in Orders : FirstNonEmpty(order, o) /\ call'.block = next[free_lists[o]]
  BY DEF Pop
<1>2. o = 0 /\ free_lists[0] # NULL
  BY <1>1 DEF FirstNonEmpty, HeapInv, BootInv, Ascending
<1>3. next[free_lists[0]] = NULL
  BY <1>2 DEF HeapInv, ServedInv
<1> QED
  BY <1>1, <1>2, <1>3

\* A pop changes no object and no holder.
LEMMA ObjectsPop ==
  ASSUME HeapInv, OneObject, NEW c \in Clients, NEW order \in Nat, NEW zero, NEW api,
         Pop(c, order, api, zero), UNCHANGED <<object, served>>,
         hcall' # Idle => hcall'.size # 0
  PROVE  OneObject'
<1>1. own' = own
  BY DEF Pop
<1>2. \A h \in HeapClients, p \in Pool : ObjectAt(h, p) => ObjectAt(h, p)'
  BY <1>1 DEF ObjectAt
<1>3. served' = 1 => call'.block = NULL
  BY ServedPops
<1> QED
  BY <1>2, <1>3 DEF OneObject

\* A block returned to a page client while there is an object is the NULL block.
LEMMA ObjectsReturn ==
  ASSUME HeapInv, OneObject, AllocReturns, UNCHANGED heapVars
  PROVE  OneObject'
<1> USE Facts
<1> DEFINE given == [base |-> call.block, order |-> call.order, api |-> call.api]
<1>1. pc = "split" /\ pc' = "idle" /\ UNCHANGED <<object, served, hcall>>
  BY DEF AllocReturns, heapVars
<1>2. call.c \in Clients
  BY <1>1 DEF HeapInv, BootInv, BlockIsHead, AllocCalls
<1>3. ASSUME NEW c \in Clients
      PROVE  own'[c] = own[c] \/ own'[c].base = call.block
  <2>1. own' = own \/ own' = [own EXCEPT ![call.c] = given]
    BY DEF AllocReturns
  <2>2. given.base = call.block
    OBVIOUS
  <2> HIDE DEF given
  <2> QED
    BY <1>2, <2>1, <2>2 DEF HeapInv, BootInv, TypeOK
<1>4. ASSUME NEW h \in HeapClients, NEW p \in Pool, object[h] # NoObject, ObjectAt(h, p)
      PROVE  ObjectAt(h, p)'
  <2>1. call.block = NULL /\ NULL < p
    BY <1>1, <1>4 DEF OneObject
  <2>2. \A c \in PageClients : own'[c] # None => own'[c].base < p
    BY <1>3, <1>4, <2>1 DEF ObjectAt, PageClients
  <2> QED
    BY <1>1, <1>4, <2>2 DEF ObjectAt
<1> QED
  BY <1>1, <1>4 DEF OneObject

\* What the return of a new object does: the page is the head of the list, and
\* every page client holds an earlier one; nothing was served before.
LEMMA ReturnedObject ==
  ASSUME HeapInv, OneObject, KmallocReturns
  PROVE  /\ hcall.h \in HeapClients /\ hcall.size \in Sizes \ {0}
         /\ UNCHANGED <<own, pc, call>> /\ pc = "idle" /\ hcall' = Idle
         /\ \/ object' = object /\ served' = served
            \/ /\ \A h \in HeapClients : object[h] = NoObject
               /\ served' = 1
               /\ \E p \in Pool :
                    /\ object' = [object EXCEPT ![hcall.h] =
                                    [addr |-> p * PAGE_SIZE, size |-> hcall.size]]
                    /\ \A c \in PageClients : own[c] # None => own[c].base < p
<1> USE Facts
<1> DEFINE p == own[hcall.s].base
<1>1. /\ hcall # Idle /\ pc = "idle" /\ hcall' = Idle
      /\ UNCHANGED <<own, pc, call>>
  BY DEF KmallocReturns
<1>2. hcall \in [h : HeapClients, size : Sizes, s : SlabClients] /\ hcall.size # 0
  BY <1>1 DEF HeapInv, WaitInv, OneObject
<1>3. hcall.h \in HeapClients /\ hcall.size \in Sizes \ {0} /\ hcall.s \in SlabClients
  BY <1>2
<1>4. CASE p = NULL
  <2>1. object' = object /\ served' = served
    BY <1>4 DEF KmallocReturns
  <2> QED
    BY <1>1, <1>3, <2>1
<1>5. CASE p # NULL
  <2>1. /\ object' = [object EXCEPT ![hcall.h] = [addr |-> p * PAGE_SIZE, size |-> hcall.size]]
        /\ served' = served + 1
    BY <1>5 DEF KmallocReturns, Deliver
  <2>2. own[hcall.s] # None /\ p = free_lists[0]
    BY <1>1 DEF HeapInv, WaitInv
  <2>3. p \in Pool
    BY <1>5, <2>2 DEF HeapInv, BootInv, Ascending
  <2>4. served = 0
    BY <1>1, <1>5, <2>2 DEF HeapInv, ServedInv
  <2>5. \A h \in HeapClients : object[h] = NoObject
    BY <2>4 DEF OneObject
  <2>6. ASSUME NEW c \in PageClients, own[c] # None
        PROVE  own[c].base < p
    <3>1. c \in Clients /\ hcall.s \in Clients /\ c # hcall.s
      BY <1>3, HeapFacts DEF PageClients
    <3>2. own[c].base \in Pool \cup {NULL} /\ own[c].base <= free_lists[0]
      BY <1>5, <2>2, <2>6, <3>1 DEF HeapInv, BootInv, BehindHead
    <3>3. own[c].base # p
      BY <2>2, <2>6, <3>1 DEF HeapInv, BootInv, BasesDiffer
    <3>4. own[c].base \in Int /\ p \in Int
      BY <2>3, <3>2, HeadIsPage
    <3> QED
      BY <2>2, <3>2, <3>3, <3>4
  <2> HIDE DEF p
  <2>7. \E q \in Pool :
          /\ object' = [object EXCEPT ![hcall.h] = [addr |-> q * PAGE_SIZE, size |-> hcall.size]]
          /\ \A c \in PageClients : own[c] # None => own[c].base < q
    BY <2>1, <2>3, <2>6, Zenon
  <2>8. served' = 1
    BY <2>1, <2>4
  <2> QED
    BY <1>1, <1>3, <2>5, <2>7, <2>8
<1> QED
  BY <1>4, <1>5

\* The object that is served is the only one.
LEMMA ObjectsReturned ==
  ASSUME HeapInv, OneObject, KmallocReturns
  PROVE  OneObject'
<1>1. CASE object' = object /\ served' = served
  <2>1. UNCHANGED <<own, pc, call>> /\ hcall' = Idle /\ pc = "idle"
    BY ReturnedObject
  <2>2. \A h \in HeapClients, p \in Pool : ObjectAt(h, p) => ObjectAt(h, p)'
    BY <1>1, <2>1 DEF ObjectAt
  <2> QED
    BY <1>1, <2>1, <2>2 DEF OneObject
<1>2. CASE ~ (object' = object /\ served' = served)
  <2>1. /\ hcall.h \in HeapClients /\ hcall.size \in Sizes \ {0}
        /\ own' = own /\ pc' = "idle" /\ hcall' = Idle
        /\ \A h \in HeapClients : object[h] = NoObject
        /\ served' = 1
    BY <1>2, ReturnedObject
  <2>2. PICK p \in Pool :
          /\ object' = [object EXCEPT ![hcall.h] = [addr |-> p * PAGE_SIZE, size |-> hcall.size]]
          /\ \A c \in PageClients : own[c] # None => own[c].base < p
    BY <1>2, ReturnedObject
  <2>3. \A h \in HeapClients : object'[h] # NoObject => h = hcall.h
    BY <2>1, <2>2 DEF HeapInv, ObjectInv
  <2>4. object'[hcall.h] = [addr |-> p * PAGE_SIZE, size |-> hcall.size]
    BY <2>1, <2>2 DEF HeapInv, ObjectInv
  <2>5. object'[hcall.h].addr = p * PAGE_SIZE /\ object'[hcall.h].size = hcall.size
    BY <2>4
  <2>6. \A h \in HeapClients : h = hcall.h => ObjectAt(h, p)'
    BY <2>1, <2>2, <2>5, Zenon DEF ObjectAt
  <2> QED
    BY <2>1, <2>3, <2>6, Zenon DEF OneObject
<1> QED
  BY <1>1, <1>2

\* Every step of HeapSpec keeps the object apart.
LEMMA NextOneObject ==
  ASSUME HeapInv, HeapInv', OneObject, [HeapNext]_allVars
  PROVE  OneObject'
<1>1. CASE mm_init /\ UNCHANGED heapVars
  BY <1>1, ObjectsStay DEF mm_init, heapVars
<1>2. CASE Split
  BY <1>2, Facts DEF Split, HeapInv, BootInv, BlockIsHead, AllocCalls
<1>3. CASE AllocReturns /\ UNCHANGED heapVars
  BY <1>3, ObjectsReturn
<1>4. ASSUME NEW c \in PageClients, PageClientStep(c), UNCHANGED heapVars
      PROVE  OneObject'
  <2>1. c \in Clients /\ UNCHANGED <<object, served, hcall>> /\ (hcall' # Idle => hcall'.size # 0)
    BY <1>4 DEF PageClients, heapVars, OneObject
  <2>2. ASSUME NEW o \in 0 .. MaxOrder, alloc_pages(c, o)
        PROVE  OneObject'
    BY <2>1, <2>2, Facts, ObjectsPop DEF alloc_pages
  <2>3. ASSUME NEW o \in 0 .. MaxOrder, AllocFails(c, o)
        PROVE  OneObject'
    BY <2>1, <2>3, ObjectsStay DEF AllocFails
  <2>4. ASSUME NEW n \in 1 .. 2^(MaxOrder - 1) + 1, phys_alloc(c, n)
        PROVE  OneObject'
    <3>1. PICK o \in Orders : Pop(c, o, "phys", n)
      BY <2>4 DEF phys_alloc
    <3> QED
      BY <2>1, <3>1, Facts, ObjectsPop
  <2>5. ASSUME NEW n \in 0 .. MaxOrder, stack_alloc(c, n)
        PROVE  OneObject'
    BY <2>1, <2>5, Facts, ObjectsPop DEF stack_alloc
  <2>6. CASE ClientWrite(c)
    BY <2>1, <2>6, ObjectsStay DEF ClientWrite
  <2> QED
    BY <1>4, <2>2, <2>3, <2>4, <2>5, <2>6 DEF PageClientStep, Request
<1>5. ASSUME NEW h \in HeapClients, NEW size \in Sizes, kmalloc(h, size)
      PROVE  OneObject'
  <2>1. PICK s \in SlabClients :
          /\ alloc_pages(s, 0)
          /\ hcall' = [h |-> h, size |-> size, s |-> s]
          /\ UNCHANGED <<slab, object, served>>
    BY <1>5, KmallocPops
  <2>2. size # 0 /\ s \in Clients /\ 0 \in Nat
    BY <1>5, HeapFacts DEF kmalloc
  <2>3. hcall'.size # 0
    BY <2>1, <2>2
  <2> QED
    BY <2>1, <2>2, <2>3, ObjectsPop DEF alloc_pages
<1>6. ASSUME NEW h \in HeapClients, NEW size \in Sizes, KmallocFails(h, size)
      PROVE  OneObject'
  BY <1>6, ObjectsStay DEF KmallocFails, AllocFails, heapVars
<1>7. CASE KmallocReturns
  BY <1>7, ObjectsReturned
<1>8. ASSUME NEW h \in HeapClients, kfree(h)
      PROVE  OneObject'
  <2>1. object' = [object EXCEPT ![h] = NoObject] /\ UNCHANGED <<own, pc, call, hcall, served>>
    BY <1>8 DEF kfree, vars
  <2>2. \A g \in HeapClients : object'[g] # NoObject => object'[g] = object[g]
    BY <2>1 DEF HeapInv, ObjectInv
  <2>3. \A g \in HeapClients, p \in Pool :
          object'[g] # NoObject /\ ObjectAt(g, p) => ObjectAt(g, p)'
    BY <2>1, <2>2, Zenon DEF ObjectAt
  <2> QED
    BY <2>1, <2>2, <2>3 DEF OneObject
<1>9. CASE UNCHANGED allVars
  BY <1>9, ObjectsStay DEF allVars, vars, heapVars
<1> QED
  BY <1>1, <1>2, <1>3, <1>4, <1>5, <1>6, <1>7, <1>8, <1>9 DEF HeapNext

\* What a caller sees: the pages of a page client, the pages the bytes of an
\* object lie in.
Seen(c) == IF c \in HeapClients THEN ObjectPages(c) ELSE Held(c)
Callers == PageClients \cup HeapClients

\* Bytes that start in page p end in page p or a later one.
LEMMA LastPage ==
  ASSUME NEW p \in Nat, NEW size \in Nat \ {0}
  PROVE  /\ PageOf(p * PAGE_SIZE + size - 1) \in Int
         /\ PageOf(p * PAGE_SIZE + size - 1) >= p
<1>1. ASSUME NEW m \in Nat, m > 0, NEW k \in Nat
      PROVE  (p * m + k) \div m \in Int /\ (p * m + k) \div m >= p
  <2> DEFINE q == (p * m + k) \div m
  <2>1. p * m \in Nat
    BY <1>1
  <2>2. q \in Int /\ p * m + k < (q + 1) * m
    BY <1>1, <2>1
  <2> HIDE DEF q
  <2>3. q >= p
    <3> SUFFICES ASSUME q < p PROVE FALSE
      BY <2>2
    <3>1. (q + 1) * m <= p * m
      BY <1>1, <2>2
    <3>2. (q + 1) * m \in Int
      BY <1>1, <2>2
    <3> QED
      BY <1>1, <2>1, <2>2, <3>1, <3>2
  <2> QED
    BY <2>2, <2>3 DEF q
<1>2. PICK k \in Nat : k = size - 1
  OBVIOUS
<1>3. p * PAGE_SIZE \in Nat
  BY PageOfStart
<1>4. p * PAGE_SIZE + size - 1 = p * PAGE_SIZE + k
  BY <1>2, <1>3
<1> QED
  BY <1>1, <1>4, HeapFacts DEF PageOf

\* The pages of an object.
LEMMA PagesOfObject ==
  ASSUME NEW h \in HeapClients, object[h] # NoObject, NEW p \in Pool, ObjectAt(h, p)
  PROVE  ObjectPages(h) = p .. PageOf(p * PAGE_SIZE + object[h].size - 1)
<1>1. p \in Nat /\ object[h].addr = p * PAGE_SIZE
  BY Facts DEF ObjectAt
<1>2. PageOf(object[h].addr) = p
  BY <1>1, PageOfStart
<1> QED
  BY <1>1, <1>2 DEF ObjectPages

\* A step that changes neither what page clients hold nor the objects is a
\* stutter.
LEMMA NothingSeen ==
  ASSUME object' = object, \A c \in PageClients \ HeapClients : own'[c] = own[c]
  PROVE  UNCHANGED [c \in Callers |-> Seen(c)]
<1>1. \A c \in Callers : Seen(c)' = Seen(c)
  BY DEF Seen, Callers, ObjectPages, Held
<1> QED
  BY <1>1, Zenon

\* A grant, in the terms of the heap.
LEMMA GrantSeen ==
  ASSUME NEW c \in Callers, Seen(c) = {}, NEW first \in Pages, NEW last \in Pages,
         first <= last, \A d \in Callers : Seen(d) \cap (first .. last) = {},
         Seen(c)' = first .. last, \A d \in Callers : d # c => Seen(d)' = Seen(d)
  PROVE  AbstractHeap!ANext
<1>1. [d \in Callers |-> Seen(d)]' = [[d \in Callers |-> Seen(d)] EXCEPT ![c] = first .. last]
  BY Zenon
<1>2. /\ [d \in Callers |-> Seen(d)][c] = {}
      /\ \A d \in Callers : [e \in Callers |-> Seen(e)][d] \cap (first .. last) = {}
  BY Zenon
<1>3. AbstractHeap!Grant(c)
  BY <1>1, <1>2, Zenon DEF AbstractHeap!Grant, Callers, Seen
<1> QED
  BY <1>3, Zenon DEF AbstractHeap!ANext, Callers

\* A block returned to a page client is a grant: nobody holds it, and it lies
\* in no object.  One returned to the slab allocator is not seen.
LEMMA ReturnSeen ==
  ASSUME HeapInv, HeapInv', OneObject, AllocReturns, UNCHANGED heapVars
  PROVE  AbstractHeap!ANext \/ UNCHANGED [c \in Callers |-> Seen(c)]
<1> USE Facts
<1> DEFINE given == [base |-> call.block, order |-> call.order, api |-> call.api]
<1>1. pc = "split" /\ UNCHANGED <<object, served>>
  BY DEF AllocReturns, heapVars
<1>2. PICK c \in Clients, b \in Pages : c = call.c /\ b = call.block
  BY <1>1 DEF HeapInv, BootInv, BlockIsHead, AllocCalls
<1>3. /\ own[c] = None /\ b \in Nat
      /\ \A d \in Clients : own[d] # None => own[d].base # b
  BY <1>1, <1>2 DEF HeapInv, BootInv, BlockIsHead, BehindHead
<1>4. own' = own \/ own' = [own EXCEPT ![c] = given]
  BY <1>2 DEF AllocReturns
<1>5. given.base = b
  BY <1>2
<1> HIDE DEF given
<1>6. \A d \in Clients : d # c => own'[d] = own[d]
  BY <1>4 DEF HeapInv, BootInv, TypeOK
<1>7. \A d \in Clients :
        /\ Held(d) = IF own[d] = None THEN {} ELSE {own[d].base}
        /\ Held(d)' = IF own'[d] = None THEN {} ELSE {own'[d].base}
  BY HeldPage, HeldAfter DEF HeapInv, BootInv
<1>8. CASE c \in PageClients \ HeapClients /\ own'[c] # None
  <2>1. own'[c] = given
    BY <1>3, <1>4, <1>8 DEF HeapInv, BootInv, TypeOK
  <2>2. Held(c)' = {b} /\ Held(c) = {} /\ \A d \in Clients : b \notin Held(d)
    BY <1>3, <1>5, <1>7, <1>8, <2>1
  <2>3. b .. b = {b} /\ b <= b
    BY <1>3
  <2>4. \A h \in HeapClients : b \notin ObjectPages(h)
    <3> SUFFICES ASSUME NEW h \in HeapClients, object[h] # NoObject
                 PROVE  b \notin ObjectPages(h)
      BY DEF ObjectPages
    <3>1. PICK p \in Pool : ObjectAt(h, p)
      BY DEF OneObject
    <3>2. b = NULL
      BY <1>1, <1>2 DEF OneObject
    <3>3. p # NULL /\ p \in Nat
      OBVIOUS
    <3>4. \A z : NULL \notin p .. z
      BY <3>3
    <3> QED
      BY <3>1, <3>2, <3>4, PagesOfObject
  <2>5. c \in Callers /\ Seen(c) = {} /\ Seen(c)' = b .. b
    BY <1>8, <2>2, <2>3 DEF Callers, Seen
  <2>6. \A d \in Callers : Seen(d) \cap (b .. b) = {}
    BY <2>2, <2>3, <2>4 DEF Callers, PageClients, Seen
  <2>7. \A d \in Callers : d # c => Seen(d)' = Seen(d)
    BY <1>1, <1>6 DEF Callers, PageClients, Seen, ObjectPages, Held
  <2>8. AbstractHeap!ANext
    BY <2>3, <2>5, <2>6, <2>7, GrantSeen
  <2> QED
    BY <2>8
<1>9. CASE ~ (c \in PageClients \ HeapClients /\ own'[c] # None)
  <2>1. \A d \in PageClients \ HeapClients : own'[d] = own[d]
    BY <1>3, <1>6, <1>9 DEF PageClients
  <2> QED
    BY <1>1, <2>1, NothingSeen
<1> QED
  BY <1>8, <1>9

\* An object that kmalloc returns is a grant of all the pages its bytes lie in,
\* though only the first was taken from the page allocator.
LEMMA ObjectSeen ==
  ASSUME SizesFit, HeapInv, OneObject, OneObject', KmallocReturns
  PROVE  AbstractHeap!ANext \/ UNCHANGED [c \in Callers |-> Seen(c)]
<1> USE Facts
<1>1. own' = own /\ hcall.h \in HeapClients /\ hcall.size \in Sizes \ {0}
  BY ReturnedObject
<1>2. CASE object' = object
  BY <1>1, <1>2, NothingSeen
<1>3. CASE object' # object
  <2>1. PICK h \in HeapClients : h = hcall.h
    BY <1>1
  <2>2. \A g \in HeapClients : object[g] = NoObject
    BY <1>3, ReturnedObject
  <2>3. PICK p \in Pool :
          /\ object' = [object EXCEPT ![h] = [addr |-> p * PAGE_SIZE, size |-> hcall.size]]
          /\ \A c \in PageClients : own[c] # None => own[c].base < p
    BY <1>3, <2>1, ReturnedObject
  <2> DEFINE last == PageOf(p * PAGE_SIZE + hcall.size - 1)
             new == [addr |-> p * PAGE_SIZE, size |-> hcall.size]
  <2>4. p \in Nat /\ hcall.size \in Nat \ {0}
    BY <1>1, HeapFacts
  <2>5. last \in Pages /\ p \in Pages /\ p <= last
    BY <1>1, <2>4, LastPage DEF SizesFit
  <2>6. new \in Objects /\ new.addr = p * PAGE_SIZE /\ new.size = hcall.size
    BY <2>4, PageOfStart DEF Objects
  <2>7. new # NoObject
    BY <2>6, NoObjectIsNone
  <2>8. object'[h] = new /\ \A g \in HeapClients : g # h => object'[g] = object[g]
    BY <2>3 DEF HeapInv, ObjectInv
  <2> HIDE DEF new
  <2>9. ObjectPages(h)' = p .. last
    <3>1. PageOf(p * PAGE_SIZE) = p
      BY <2>4, PageOfStart
    <3> QED
      BY <2>6, <2>7, <2>8, <3>1 DEF ObjectPages
  <2> HIDE DEF last
  <2>10. \A d \in Callers : Seen(d) \cap (p .. last) = {}
    <3>1. ASSUME NEW d \in PageClients
          PROVE  Held(d) \cap (p .. last) = {}
      <4>1. Held(d) = IF own[d] = None THEN {} ELSE {own[d].base}
        BY HeldPage DEF HeapInv, BootInv, PageClients
      <4>2. CASE own[d] # None
        <5>1. own[d].base < p /\ own[d].base \in Pool \cup {NULL}
          BY <2>3, <4>2 DEF HeapInv, BootInv, BehindHead, PageClients
        <5>2. own[d].base \in Int
          BY <5>1, HeadIsPage
        <5> QED
          BY <2>4, <4>1, <5>1, <5>2
      <4> QED
        BY <4>1, <4>2
    <3>2. \A g \in HeapClients : ObjectPages(g) = {}
      BY <2>2 DEF ObjectPages
    <3> QED
      BY <3>1, <3>2 DEF Callers, Seen
  <2>11. h \in Callers /\ Seen(h) = {} /\ Seen(h)' = p .. last
    BY <2>2, <2>9 DEF Callers, Seen, ObjectPages
  <2>12. \A d \in Callers : d # h => Seen(d)' = Seen(d)
    BY <1>1, <2>8 DEF Callers, Seen, ObjectPages, Held
  <2>13. AbstractHeap!ANext
    BY <2>5, <2>10, <2>11, <2>12, GrantSeen
  <2> QED
    BY <2>13
<1> QED
  BY <1>2, <1>3

\* kfree, and krealloc to size 0, release the pages of the object.
LEMMA FreeSeen ==
  ASSUME HeapInv, OneObject, NEW h \in HeapClients, kfree(h)
  PROVE  AbstractHeap!ANext
<1> USE Facts
<1>1. object[h] # NoObject /\ own' = own /\ object' = [object EXCEPT ![h] = NoObject]
  BY DEF kfree, vars
<1>2. PICK p \in Pool : ObjectAt(h, p)
  BY <1>1 DEF OneObject
<1>3. p \in Nat /\ object[h].size \in Nat \ {0}
  BY <1>2, HeapFacts DEF ObjectAt
<1>4. p \in p .. PageOf(p * PAGE_SIZE + object[h].size - 1)
  BY <1>3, LastPage
<1>5. ObjectPages(h) # {}
  BY <1>1, <1>2, <1>4, PagesOfObject
<1>6. object'[h] = NoObject /\ \A g \in HeapClients : g # h => object'[g] = object[g]
  BY <1>1 DEF HeapInv, ObjectInv
<1>7. Seen(h)' = {} /\ \A c \in Callers : c # h => Seen(c)' = Seen(c)
  BY <1>1, <1>6 DEF Callers, Seen, ObjectPages, Held
<1>8. h \in Callers /\ Seen(h) # {}
  BY <1>5 DEF Callers, Seen
<1>9. [c \in Callers |-> Seen(c)]' = [[c \in Callers |-> Seen(c)] EXCEPT ![h] = {}]
  BY <1>7, Zenon
<1>10. [c \in Callers |-> Seen(c)][h] # {}
  BY <1>8, Zenon
<1>11. AbstractHeap!Release(h)
  BY <1>9, <1>10, Zenon DEF AbstractHeap!Release, Callers, Seen
<1> QED
  BY <1>8, <1>11, Zenon DEF AbstractHeap!ANext, Callers

\* Every step of HeapSpec is a step of PageAllocator or is not seen.
LEMMA NextSeen ==
  ASSUME SizesFit, HeapInv, HeapInv', OneObject, OneObject', [HeapNext]_allVars
  PROVE  AbstractHeap!ANext \/ UNCHANGED [c \in Callers |-> Seen(c)]
<1>1. CASE mm_init /\ UNCHANGED heapVars
  BY <1>1, NothingSeen DEF mm_init, heapVars
<1>2. CASE Split
  BY <1>2, Facts DEF Split, HeapInv, BootInv, BlockIsHead, AllocCalls
<1>3. CASE AllocReturns /\ UNCHANGED heapVars
  BY <1>3, ReturnSeen
<1>4. ASSUME NEW c \in PageClients, PageClientStep(c), UNCHANGED heapVars
      PROVE  UNCHANGED [d \in Callers |-> Seen(d)]
  <2>1. own' = own /\ object' = object
    BY <1>4 DEF PageClientStep, Request, alloc_pages, phys_alloc, stack_alloc, Pop,
                AllocFails, ClientWrite, heapVars
  <2> QED
    BY <2>1, NothingSeen
<1>5. ASSUME NEW h \in HeapClients, NEW size \in Sizes, kmalloc(h, size)
      PROVE  UNCHANGED [d \in Callers |-> Seen(d)]
  <2>1. own' = own /\ object' = object
    BY <1>5, KmallocPops DEF alloc_pages, Pop
  <2> QED
    BY <2>1, NothingSeen
<1>6. ASSUME NEW h \in HeapClients, NEW size \in Sizes, KmallocFails(h, size)
      PROVE  UNCHANGED [d \in Callers |-> Seen(d)]
  BY <1>6, NothingSeen DEF KmallocFails, AllocFails, heapVars
<1>7. CASE KmallocReturns
  BY <1>7, ObjectSeen
<1>8. ASSUME NEW h \in HeapClients, kfree(h)
      PROVE  AbstractHeap!ANext
  BY <1>8, FreeSeen
<1>9. CASE UNCHANGED allVars
  BY <1>9, NothingSeen DEF allVars, vars, heapVars
<1> QED
  BY <1>1, <1>2, <1>3, <1>4, <1>5, <1>6, <1>7, <1>8, <1>9 DEF HeapNext

\* kmalloc, krealloc, kfree and the page allocator together implement
\* PageAllocator until a page is freed: the pages an object's bytes lie in are
\* never given to anybody else, even those past the one page that kmalloc takes,
\* because the list of the page allocator ends where the object starts.
THEOREM HeapImplements ==
  ASSUME CleanPool, QuietClients, SizesFit
  PROVE  HeapSpec => HeapKeepsPromise
<1>1. HeapInit => OneObject
  BY DEF HeapInit, Init, OneObject
<1>2. HeapInit => AbstractHeap!AInit
  <2> SUFFICES ASSUME HeapInit PROVE AbstractHeap!AInit
    OBVIOUS
  <2>1. \A c \in PageClients : Held(c) = {}
    BY DEF HeapInit, Init, Held, PageClients
  <2>2. \A h \in HeapClients : ObjectPages(h) = {}
    BY DEF HeapInit, ObjectPages
  <2> QED
    BY <2>1, <2>2, Zenon DEF AbstractHeap!AInit
<1>3. OneObject /\ HeapInv /\ HeapInv' /\ [HeapNext]_allVars => OneObject'
  BY NextOneObject
<1>4. /\ HeapInv /\ HeapInv' /\ OneObject /\ OneObject' /\ [HeapNext]_allVars
      => [AbstractHeap!ANext]_([c \in PageClients \cup HeapClients |->
                                  IF c \in HeapClients THEN ObjectPages(c) ELSE Held(c)])
  BY NextSeen, Zenon DEF Callers, Seen
<1> QED
  BY HeapInvariance, <1>1, <1>2, <1>3, <1>4, PTL
     DEF HeapSpec, HeapKeepsPromise, AbstractHeap!ASpec
============================================================================
