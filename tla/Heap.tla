-------------------------------- MODULE Heap --------------------------------
(***************************************************************************)
(* kmalloc, kfree and krealloc of lib/mm.c on top of the page allocator:    *)
(* slab_alloc takes pages with alloc_pages and cuts them into objects.      *)
(*                                                                         *)
(* Addresses of objects are in bytes.  The header slab_t lies at the start  *)
(* of its page: page_phys is the first word, the one alloc_pages uses as    *)
(* its link (next of module Buddy), free_list the second, and the list      *)
(* pointer lies behind object 0.  The bytes of used[] are never read and    *)
(* are left out.  Each page slab_alloc takes is held by a client of its own *)
(* among SlabClients.  Heap clients keep zero in the words of an object     *)
(* that a header shares with it.                                            *)
(***************************************************************************)
EXTENDS Buddy, Sequences, FiniteSetsExt

CONSTANTS
  SlabClients,  \* stand for the pages slab_alloc takes, one each
  HeapClients,  \* callers of kmalloc; each holds at most one object
  ObjSize,      \* SLAB_OBJ_SIZE
  ObjsPerPage,  \* SLAB_OBJS_PER_PAGE
  NextField,    \* offset of next in slab_t
  Sizes,        \* the sizes asked for
  NoObject      \* "holds no object"

PAGE_SIZE == ObjSize * ObjsPerPage

ASSUME HeapConstants ==
  /\ SlabClients \subseteq Clients
  /\ ObjSize \in Nat /\ ObjsPerPage \in Nat /\ NextField \in Nat /\ Sizes \subseteq Nat
  /\ ObjSize > 8 /\ ObjsPerPage > 1 /\ PAGE_SIZE \in Nat
  /\ NextField >= ObjSize /\ NextField < PAGE_SIZE

PageClients == Clients \ SlabClients
Objects     == [addr : Nat, size : Nat]

ASSUME NoObjectIsNone == NoObject \notin Objects

VARIABLES
  slab,    \* the allocator's statics, and the words it keeps in slab pages
  object,  \* object[h]: what kmalloc gave client h
  hcall,   \* the kmalloc that waits for alloc_pages, or Idle
  served   \* calls that returned an object

heapVars == <<slab, object, hcall, served>>
allVars  == <<vars, heapVars>>

\* slabs: the list of slabs; free_list and link: the heads and the links of the
\* objects, for every page a slab may lie in.
SlabInit ==
  [slabs |-> <<>>, used_objs |-> 0, total_pages |-> 0,
   free_list |-> [p \in Pages |-> 0],
   link |-> [p \in Pages |-> [i \in 1 .. ObjsPerPage - 1 |-> 0]]]

HeapInit ==
  /\ Init
  /\ slab = SlabInit
  /\ object = [h \in HeapClients |-> NoObject]
  /\ hcall = Idle
  /\ served = 0
----------------------------------------------------------------------------
PageOf(a)  == a \div PAGE_SIZE
IndexOf(a) == (a % PAGE_SIZE) \div ObjSize

\* The size kmalloc clears: at least an object, a multiple of 8.
Cleared(size) == LET s == IF size < ObjSize THEN ObjSize ELSE size
                 IN  s + 7 - ((s + 7) % 8)

\* memset(a, 0, n) on the words the model keeps: the first words of pages, the
\* heads of the free lists, the links, and the pointers of the list of slabs.
Within(a, n, x) == a <= x /\ x < a + n

\* Mutant of MemsetWords: the word at a itself keeps its value.
MemsetWordsBehind(words, a, n) ==
  [p \in Pages |-> IF Within(a + 1, n, p * PAGE_SIZE) THEN NULL ELSE words[p]]

MemsetWords(words, a, n) ==
  [p \in Pages |-> IF Within(a, n, p * PAGE_SIZE) THEN NULL ELSE words[p]]

\* Mutant of MemsetSlab: nothing is cleared.
MemsetSlabSkipped(st, a, n) == st

MemsetSlab(st, a, n) ==
  LET cut == {i \in DOMAIN st.slabs : Within(a, n, st.slabs[i] * PAGE_SIZE + NextField)}
  IN  [st EXCEPT
         !.slabs = IF cut = {} THEN @ ELSE SubSeq(@, 1, Min(cut)),
         !.free_list = [p \in Pages |-> IF Within(a, n, p * PAGE_SIZE + 8) THEN 0 ELSE @[p]],
         !.link = [p \in Pages |-> [i \in 1 .. ObjsPerPage - 1 |->
                     IF Within(a, n, p * PAGE_SIZE + i * ObjSize) THEN 0 ELSE @[p][i]]]]

\* The tail of slab_alloc: a header in page p, and a list of all objects but
\* the first.  A slab at address 0 ends the list of slabs.
NewSlab(st, p) ==
  [st EXCEPT
     !.slabs = IF p = NULL THEN <<>> ELSE <<p>> \o @,
     !.used_objs = @ + 1, !.total_pages = @ + 1,
     !.free_list[p] = p * PAGE_SIZE + ObjSize,
     !.link[p] = [i \in 1 .. ObjsPerPage - 1 |->
                    IF i = ObjsPerPage - 1 THEN 0 ELSE p * PAGE_SIZE + (i + 1) * ObjSize]]

\* The head of slab_alloc: the first slab with a free object gives it.
WithFree(st) == {i \in DOMAIN st.slabs : st.free_list[st.slabs[i]] # 0}
FirstFree(st) == st.slabs[Min(WithFree(st))]

PopObject(st) ==
  LET p == FirstFree(st)
      a == st.free_list[p]
  IN  [st EXCEPT !.free_list[p] = st.link[PageOf(a)][IndexOf(a)], !.used_objs = @ + 1]

\* slab_free: the object goes back to the first slab whose page_phys is its
\* page, if there is one.
SlabFree(st, words, a) ==
  LET found == {i \in DOMAIN st.slabs : words[st.slabs[i]] = PageOf(a)}
      p     == st.slabs[Min(found)]
  IN  IF found = {} THEN st
      ELSE [st EXCEPT !.used_objs = @ - 1,
                      !.link[PageOf(a)] = IF IndexOf(a) = 0 THEN @
                                          ELSE [@ EXCEPT ![IndexOf(a)] = st.free_list[p]],
                      !.free_list[p] = a]
----------------------------------------------------------------------------
(* The calls.                                                              *)

Ready == pc = "idle" /\ hcall = Idle

\* kmalloc, or krealloc of a client that holds an object, returns address a in
\* state st: the object is cleared, and krealloc frees the old one.  The copy
\* moves words that are zero.
Deliver(h, size, st, a) ==
  LET cleared == MemsetSlab(st, a, Cleared(size))
  IN  /\ next' = MemsetWords(next, a, Cleared(size))
      /\ slab' = IF object[h] = NoObject THEN cleared
                 ELSE SlabFree(cleared, next', object[h].addr)
      /\ object' = [object EXCEPT ![h] = [addr |-> a, size |-> size]]
      /\ served' = served + 1

\* The call of kmalloc up to the return of slab_alloc or the call of
\* alloc_pages.
kmalloc(h, size) ==
  /\ Ready /\ size # 0
  /\ IF WithFree(slab) # {}
     THEN /\ Enter
          /\ Deliver(h, size, PopObject(slab), slab.free_list[FirstFree(slab)])
          /\ UNCHANGED <<initialized, free_lists, bitmap, free_count, own, pc, call, hcall>>
     ELSE \E s \in SlabClients :
            /\ alloc_pages(s, 0)
            /\ hcall' = [h |-> h, size |-> size, s |-> s]
            /\ UNCHANGED <<slab, object, served>>

\* "Cannot allocate page for new slab!": kmalloc and krealloc return NULL, and
\* an object that was to be resized stays with its client.
KmallocFails(h, size) ==
  /\ Ready /\ size # 0
  /\ WithFree(slab) = {}
  /\ \E s \in SlabClients : AllocFails(s, 0)
  /\ UNCHANGED heapVars

\* slab_alloc goes on with the page alloc_pages returned.  Object 0, where the
\* header is, is the one returned; at address 0 it is NULL, a failure.
KmallocReturns ==
  /\ hcall # Idle /\ pc = "idle"
  /\ LET p  == own[hcall.s].base
         st == NewSlab(slab, p)
     IN  IF p = NULL
         THEN /\ slab' = st
              /\ next' = [next EXCEPT ![NULL] = NULL]
              /\ UNCHANGED <<object, served>>
         ELSE Deliver(hcall.h, hcall.size, st, p * PAGE_SIZE)
  /\ hcall' = Idle
  /\ UNCHANGED <<initialized, free_lists, bitmap, free_count, own, pc, call, calls>>

\* kfree, and krealloc to size 0.
kfree(h) ==
  /\ Ready /\ object[h] # NoObject
  /\ slab' = SlabFree(slab, next, object[h].addr)
  /\ object' = [object EXCEPT ![h] = NoObject]
  /\ UNCHANGED <<vars, hcall, served>>

PageClientStep(c) == Ready /\ (Request(c) \/ ClientWrite(c))

HeapNext ==
  \/ /\ mm_init \/ Split \/ AllocReturns \/ \E c \in PageClients : PageClientStep(c)
     /\ UNCHANGED heapVars
  \/ \E h \in HeapClients, size \in Sizes : kmalloc(h, size) \/ KmallocFails(h, size)
  \/ KmallocReturns
  \/ \E h \in HeapClients : kfree(h)

HeapSpec == HeapInit /\ [][HeapNext]_allVars
----------------------------------------------------------------------------
(* Properties.                                                             *)

\* "Try to find a free object in existing slabs" of slab_alloc never finds one:
\* clearing the object it returns, kmalloc clears the header of the new slab
\* and with it the list of the other objects.
SlabsExhausted == WithFree(slab) = {}

\* So each object costs a page; and since the header shares its first word with
\* the link of the page allocator's list, the list ends there: kmalloc and
\* krealloc return an object once in the life of the kernel.
ServesOnce == served <= 1

\* The pages the bytes of an object lie in.
ObjectPages(h) ==
  IF object[h] = NoObject THEN {}
  ELSE PageOf(object[h].addr) .. PageOf(object[h].addr + object[h].size - 1)

\* Pages and objects together, as their holders see them.
AbstractHeap == INSTANCE PageAllocator
                  WITH Clients <- PageClients \cup HeapClients,
                       held <- [c \in PageClients \cup HeapClients |->
                                  IF c \in HeapClients THEN ObjectPages(c) ELSE Held(c)],
                       Addresses <- Pages

\* kmalloc, kfree, krealloc and alloc_pages together keep the promise of
\* PageAllocator: whatever the size, no byte of an object lies in a page
\* somebody else was given, and a failed krealloc leaves the object with its
\* client.
HeapKeepsPromise == AbstractHeap!ASpec
============================================================================
