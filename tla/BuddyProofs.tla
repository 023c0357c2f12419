---------------------------- MODULE BuddyProofs ----------------------------
(***************************************************************************)
(* The page allocator before anything is freed: for every pool and page    *)
(* size, no page has two holders, the bitmap and the count of free pages   *)
(* are exact, and alloc_pages with its wrappers implements PageAllocator.  *)
(* With all calls mixed, while heads and links lie in physical memory: the *)
(* split loop works inside the block it popped, and the block free_pages   *)
(* puts back is aligned and contains the one it was given.                 *)
(***************************************************************************)
EXTENDS Buddy, FiniteSetTheorems, WellFoundedInduction, TLAPS

\* The memory of the pool is clear before mm_init.
CleanPool == \A p \in Pool : Ram[p] = NULL

\* Clients store nothing but zero in the first word of a page.
QuietClients == ClientWords \subseteq {NULL}

\* The locals of a running alloc_pages: it popped the head of list 0 for a
\* client that holds nothing.
AllocCalls == [op : {"alloc"}, c : Clients, api : {"pages", "phys", "stack"},
               order : {0}, zero : Nat, at : {0}, block : Pages, end : Nat]

\* Only the list of order 0 is ever non-empty, and it ascends: every link
\* leads to a later page of the pool or ends the list.
Ascending ==
  /\ \A o \in Orders : o # 0 => free_lists[o] = NULL
  /\ free_lists[0] \in Pool \cup {NULL}
  /\ initialized =>
       \A p \in Pool : next[p] = NULL \/ (next[p] \in Pool /\ next[p] > p)

\* While alloc_pages runs, its block is the head of the list, and its client
\* holds nothing.
BlockIsHead ==
  /\ pc \in {"idle", "split"}
  /\ pc = "split" => /\ initialized
                     /\ call \in AllocCalls
                     /\ call.block = free_lists[0]
                     /\ own[call.c] = None

\* Every block handed out is one page, at or before the head of the list and
\* before the block of a running call; page 0 is handed out last.
BehindHead ==
  \A c \in Clients : own[c] # None =>
    /\ initialized
    /\ own[c].order = 0
    /\ own[c].base \in Pool \cup {NULL}
    /\ free_lists[0] # NULL => own[c].base # NULL /\ own[c].base <= free_lists[0]
    /\ pc = "split" => own[c].base # NULL /\ own[c].base # call.block

\* Different holders have different pages.
BasesDiffer ==
  \A c, d \in Clients : c # d /\ own[c] # None /\ own[d] # None =>
    own[c].base # own[d].base

\* The inductive invariant of BootSpec.
BootInv ==
  /\ TypeOK
  /\ Ascending
  /\ BlockIsHead
  /\ BehindHead
  /\ BasesDiffer
  /\ BitmapExact

USE DEF NULL

\* The constants in the form the steps below use them.
LEMMA Facts ==
  /\ 0 \in Orders /\ Orders \subseteq Nat
  /\ Pool \subseteq Pages /\ Pages \subseteq Nat /\ 0 \in Pages
  /\ PoolStart \in Pool /\ 0 \notin Pool
  /\ PoolStart \in Nat /\ PoolPages \in Nat \ {0} /\ PtrsPerPage \in Nat \ {0}
  /\ MaxOrder \in Nat /\ Top \in Nat /\ SizeMod \in Nat \ {0} /\ BitmapBits \in Nat
  BY BuddyConstants DEF Orders, Pool, Pages

\* A head of a list is a page address.
LEMMA HeadIsPage == \A x \in Pool \cup {NULL} : x \in Pages /\ x \in Nat /\ x \in Int
  BY BuddyConstants DEF Pool, Pages

\* A block of order 0 is one page.
LEMMA OnePage == ASSUME NEW x \in Int PROVE Run(x, 2^0) = {x}
  BY DEF Run

\* What a client of BootSpec holds is the one page its block starts at.
LEMMA HeldPage ==
  ASSUME BehindHead, NEW c \in Clients
  PROVE  Held(c) = IF own[c] = None THEN {} ELSE {own[c].base}
<1>1. CASE own[c] = None
  BY <1>1 DEF Held
<1>2. CASE own[c] # None
  <2>1. own[c].order = 0 /\ own[c].base \in Int
    <3>1. own[c].order = 0 /\ own[c].base \in Pool \cup {NULL}
      BY <1>2 DEF BehindHead
    <3> QED
      BY <3>1, HeadIsPage
  <2>2. Held(c) = Run(own[c].base, 2^0)
    BY <1>2, <2>1 DEF Held
  <2> QED
    BY <1>2, <2>1, <2>2, OnePage
<1> QED
  BY <1>1, <1>2

\* The remainder of a number that is less than one modulus away.
LEMMA NearRemainder ==
  ASSUME NEW m \in Nat, NEW x \in Int, -m <= x, x < m
  PROVE  x % m = IF x < 0 THEN x + m ELSE x
  OBVIOUS

\* buddy_phys_to_idx of a page of the pool is its offset; of the NULL block it
\* is a number outside the bitmap.
LEMMA FirstIndex ==
  ASSUME NEW x \in Pool \cup {NULL}
  PROVE  /\ buddy_phys_to_idx(x, 0) \in Nat
         /\ x \in Pool => buddy_phys_to_idx(x, 0) = x - PoolStart
         /\ x = NULL => buddy_phys_to_idx(x, 0) >= BitmapBits /\ x - PoolStart < 0
<1> DEFINE y == (x - PoolStart) % AddrPages
<1>1. y = IF x = NULL THEN AddrPages - PoolStart ELSE x - PoolStart
  <2>1. /\ AddrPages \in Nat /\ x - PoolStart \in Int
        /\ -AddrPages <= x - PoolStart /\ x - PoolStart < AddrPages
        /\ x - PoolStart < 0 <=> x = NULL
        /\ x = NULL => x - PoolStart + AddrPages = AddrPages - PoolStart
    BY BuddyConstants DEF Pool
  <2> QED
    BY <2>1, NearRemainder
<1>2. y \in Nat
  BY <1>1, BuddyConstants DEF Pool
<1>3. buddy_phys_to_idx(x, 0) = y
  <2> HIDE DEF y
  <2>1. 2^0 = 1 /\ y \div 1 = y
    BY <1>2
  <2> QED
    BY <2>1 DEF buddy_phys_to_idx, y
<1> HIDE DEF y
<1> QED
  BY <1>1, <1>2, <1>3, BuddyConstants, SMTT(60) DEF Pool

\* The static initialiser of buddy satisfies the invariant.
LEMMA InitBootInv == Init => BootInv
<1> SUFFICES ASSUME Init PROVE BootInv
  OBVIOUS
<1> USE Facts
<1>1. TypeOK
  <2>1. next \in [Pages -> Pages]
    BY BuddyConstants DEF Init, Pages
  <2>2. free_count \in 0 .. SizeMod - 1 /\ calls \in 0 .. MaxCalls
    BY BuddyConstants DEF Init
  <2> QED
    BY <2>1, <2>2 DEF Init, TypeOK
<1>2. Ascending /\ BlockIsHead /\ BehindHead /\ BasesDiffer
  BY DEF Init, Ascending, BlockIsHead, BehindHead, BasesDiffer
<1>3. BitmapExact
  BY DEF Init, BitmapExact, Held
<1> QED
  BY <1>1, <1>2, <1>3 DEF BootInv

\* The word mm_init leaves in a page of the pool leads to a later page or ends
\* the list, although the loop strides by words and not by pages.
LEMMA InitialWordAscends ==
  ASSUME CleanPool, NEW p \in Pool
  PROVE  LET w == InitialWord(p - PoolStart)
         IN  w \in Pages /\ (w = NULL \/ (w \in Pool /\ w > p))
<1> DEFINE k == p - PoolStart
           i == k * PtrsPerPage
<1> USE Facts
<1>1. k \in Nat /\ PoolStart + k = p
  BY DEF Pool
<1>2. i \in Nat /\ i >= k
  <2> HIDE DEF k
  <2> QED BY <1>1
<1>3. CASE i < PoolPages - 1
  <2>1. InitialWord(k) = PoolStart + i + 1
    BY <1>3 DEF InitialWord
  <2>2. PoolStart + i + 1 \in Pool /\ PoolStart + i + 1 > p
    BY <1>1, <1>2, <1>3 DEF Pool
  <2> QED
    BY <2>1, <2>2
<1>4. CASE ~ (i < PoolPages - 1)
  <2>1. InitialWord(k) = NULL
    BY <1>1, <1>4 DEF InitialWord, CleanPool
  <2> QED
    BY <2>1
<1> QED
  BY <1>3, <1>4

\* mm_init establishes the ascending list.
LEMMA InitStep ==
  ASSUME CleanPool, BootInv, mm_init
  PROVE  BootInv'
<1> USE Facts
<1>1. pc = "idle" /\ \A c \in Clients : own[c] = None
  BY DEF mm_init, BootInv, BlockIsHead, BehindHead
<1>2. TypeOK'
  <2>1. next' \in [Pages -> Pages]
    BY InitialWordAscends DEF mm_init, BootInv, TypeOK
  <2> QED
    BY <2>1, BuddyConstants, SMTT(60) DEF mm_init, BootInv, TypeOK
<1>3. Ascending'
  BY InitialWordAscends DEF mm_init, BootInv, TypeOK, Ascending
<1>4. BlockIsHead' /\ BehindHead' /\ BasesDiffer'
  BY <1>1 DEF mm_init, BlockIsHead, BehindHead, BasesDiffer
<1>5. BitmapExact'
  BY <1>1 DEF mm_init, BitmapExact, Held
<1> QED
  BY <1>2, <1>3, <1>4, <1>5 DEF BootInv

\* A request that reaches the pop: only list 0 can be non-empty, so the call is
\* for one page, and the new head is a later page or ends the list.
LEMMA PopStep ==
  ASSUME BootInv, NEW c \in Clients, NEW order \in Nat, NEW zero \in Nat,
         NEW api \in {"pages", "phys", "stack"}, Pop(c, order, api, zero)
  PROVE  BootInv'
<1> USE Facts
<1> DEFINE h == free_lists[0]
           b == next[free_lists[0]]
<1>1. PICK o \in Orders :
        /\ FirstNonEmpty(order, o)
        /\ free_lists' = [free_lists EXCEPT ![o] = next[free_lists[o]]]
        /\ bitmap' = SetAllocated(bitmap, buddy_phys_to_idx(next[free_lists[o]], o), 2^o)
        /\ free_count' = (free_count - 2^o) % SizeMod
        /\ call' = [op |-> "alloc", c |-> c, api |-> api, order |-> order, zero |-> zero,
                    at |-> o, block |-> next[free_lists[o]],
                    end |-> next[free_lists[o]] + 2^o]
  BY DEF Pop
<1>2. o = 0 /\ order = 0 /\ h # NULL /\ h \in Pool
  BY <1>1 DEF FirstNonEmpty, BootInv, Ascending
<1>3. /\ pc = "idle" /\ own[c] = None /\ initialized
      /\ pc' = "split" /\ calls < MaxCalls /\ calls' = calls + 1
      /\ UNCHANGED <<initialized, next, own>>
  BY DEF Pop, Enter
<1>4. b = NULL \/ (b \in Pool /\ b > h)
  BY <1>2, <1>3 DEF BootInv, Ascending
<1>5. b \in Pages /\ b \in Nat
  BY <1>4, HeadIsPage
<1>6. /\ free_lists' = [free_lists EXCEPT ![0] = b]
      /\ bitmap' = SetAllocated(bitmap, buddy_phys_to_idx(b, 0), 1)
      /\ free_count' = (free_count - 1) % SizeMod
      /\ call' = [op |-> "alloc", c |-> c, api |-> api, order |-> 0, zero |-> zero,
                  at |-> 0, block |-> b, end |-> b + 1]
  <2>1. 2^o = 1
    BY <1>2
  <2> QED
    BY <1>1, <1>2, <2>1
<1> HIDE DEF h, b
<1>7. free_lists'[0] = b /\ \A q \in Orders : q # 0 => free_lists'[q] = free_lists[q]
  BY <1>6 DEF BootInv, TypeOK
<1>8. TypeOK'
  <2>1. free_lists' \in [Orders -> Pages]
    BY <1>5, <1>6 DEF BootInv, TypeOK
  <2>2. bitmap' \subseteq 0 .. BitmapBits - 1
    BY <1>6 DEF BootInv, TypeOK, SetAllocated
  <2>3. free_count' \in 0 .. SizeMod - 1
    <3>1. free_count - 1 \in Int
      BY DEF BootInv, TypeOK
    <3> QED
      BY <1>6, <3>1
  <2>4. calls' \in 0 .. MaxCalls
    BY <1>3, BuddyConstants DEF BootInv, TypeOK
  <2> QED
    BY <1>3, <2>1, <2>2, <2>3, <2>4 DEF BootInv, TypeOK
<1>9. Ascending'
  BY <1>3, <1>4, <1>7 DEF BootInv, Ascending
<1>10. BlockIsHead'
  BY <1>3, <1>5, <1>6, <1>7 DEF BlockIsHead, AllocCalls
<1>11. BehindHead'
  <2> SUFFICES ASSUME NEW d \in Clients, own[d] # None
               PROVE  /\ own[d].order = 0
                      /\ own[d].base \in Pool \cup {NULL}
                      /\ own[d].base # NULL /\ own[d].base # b
                      /\ b # NULL => own[d].base <= b
    BY <1>3, <1>6, <1>7 DEF BehindHead
  <2>1. /\ own[d].order = 0
        /\ own[d].base \in Pool \cup {NULL}
        /\ own[d].base # NULL /\ own[d].base <= h
    BY <1>2 DEF BootInv, BehindHead, h
  <2>2. own[d].base \in Nat /\ h \in Nat
    BY <1>2, <2>1, HeadIsPage
  <2> QED
    BY <1>4, <1>5, <2>1, <2>2
<1>12. BasesDiffer'
  BY <1>3 DEF BootInv, BasesDiffer
<1>13. BitmapExact'
  <2>1. bitmap' = bitmap \cup ({b - PoolStart} \cap 0 .. BitmapBits - 1)
    <3>1. Run(buddy_phys_to_idx(b, 0), 1) \cap 0 .. BitmapBits - 1
            = {b - PoolStart} \cap 0 .. BitmapBits - 1
      <4>1. /\ b \in Pool \cup {NULL} /\ PoolStart \in Nat /\ BitmapBits \in Nat
            /\ buddy_phys_to_idx(b, 0) \in Nat
            /\ \/ buddy_phys_to_idx(b, 0) = b - PoolStart
               \/ buddy_phys_to_idx(b, 0) >= BitmapBits /\ b - PoolStart < 0
        BY <1>4, FirstIndex
      <4> QED
        BY <1>5, <4>1 DEF Run
    <3> QED
      BY <1>6, <3>1 DEF SetAllocated
  <2>2. \A d \in Clients : Held(d)' = Held(d)
    BY <1>3 DEF Held
  <2>3. call'.block = b /\ call'.at = 0
    BY <1>6
  <2>4. Run(call'.block, 2^call'.at) = {b}
    BY <1>5, <2>3, OnePage
  <2>5. bitmap = {i \in 0 .. BitmapBits - 1 : \E d \in Clients : PoolStart + i \in Held(d)}
    BY <1>3 DEF BootInv, BitmapExact
  <2>6. \A i \in 0 .. BitmapBits - 1 : PoolStart + i = b <=> i = b - PoolStart
    BY <1>5
  <2> QED
    BY <1>3, <2>1, <2>2, <2>4, <2>5, <2>6 DEF BitmapExact
<1> QED
  BY <1>8, <1>9, <1>10, <1>11, <1>12, <1>13 DEF BootInv

\* A call that fails leaves the allocator alone.
LEMMA FailStep ==
  ASSUME BootInv, NEW c \in Clients, NEW order, AllocFails(c, order)
  PROVE  BootInv'
<1>1. /\ UNCHANGED <<initialized, free_lists, next, bitmap, free_count, own, pc, call>>
      /\ calls < MaxCalls /\ calls' = calls + 1
  BY DEF AllocFails, Enter
<1>2. TypeOK'
  BY <1>1, BuddyConstants, SMTT(60) DEF BootInv, TypeOK
<1>3. Ascending' /\ BlockIsHead' /\ BehindHead' /\ BasesDiffer'
  BY <1>1 DEF BootInv, Ascending, BlockIsHead, BehindHead, BasesDiffer
<1>4. BitmapExact'
  BY <1>1 DEF BootInv, BitmapExact, Held
<1> QED
  BY <1>2, <1>3, <1>4 DEF BootInv

\* The return of a block.  A wrapper's caller takes page 0 for a failure and
\* does not hold it; a caller of alloc_pages does.
LEMMA ReturnStep ==
  ASSUME BootInv, AllocReturns
  PROVE  BootInv'
<1> USE Facts
<1> DEFINE b == call.block
           kept == call.api # "pages" /\ call.block = NULL
           given == [base |-> call.block, order |-> call.order, api |-> call.api]
<1>1. /\ pc = "split" /\ pc' = "idle" /\ call' = Idle
      /\ UNCHANGED <<initialized, free_lists, bitmap, free_count, calls>>
  BY DEF AllocReturns
<1>2. /\ initialized /\ call.c \in Clients /\ own[call.c] = None
      /\ b \in Pages /\ b = free_lists[0] /\ b \in Pool \cup {NULL}
      /\ call.order = 0 /\ call.at = 0 /\ call.api \in {"pages", "phys", "stack"}
  BY <1>1 DEF BootInv, BlockIsHead, AllocCalls, Ascending
<1>3. own' = IF kept THEN own ELSE [own EXCEPT ![call.c] = given]
  BY DEF AllocReturns
<1>4. \A p \in Pages : next'[p] = NULL \/ next'[p] = next[p]
  BY DEF AllocReturns
<1>5. given.base = b /\ given.order = 0
  BY <1>2
<1>6. given \in Blocks /\ given # None
  <2>1. call.block \in Nat /\ call.order \in Orders
    BY <1>2 DEF b
  <2>2. given \in Blocks
    BY <1>2, <2>1 DEF Blocks
  <2> QED
    BY <2>2, NoneIsNoBlock
<1>7. \A d \in Clients : own'[d] = IF d = call.c /\ ~kept THEN given ELSE own[d]
  BY <1>2, <1>3 DEF BootInv, TypeOK
<1> HIDE DEF given, b, kept
<1>8. TypeOK'
  <2>1. next' \in [Pages -> Pages]
    BY DEF AllocReturns, BootInv, TypeOK
  <2>2. own' \in [Clients -> Blocks \cup {None}]
    BY <1>2, <1>3, <1>6 DEF BootInv, TypeOK
  <2> QED
    BY <1>1, <2>1, <2>2 DEF BootInv, TypeOK
<1>9. Ascending'
  BY <1>1, <1>4 DEF BootInv, Ascending
<1>10. BlockIsHead'
  BY <1>1 DEF BlockIsHead
<1>11. BehindHead'
  <2> SUFFICES ASSUME NEW d \in Clients, own'[d] # None
               PROVE  /\ own'[d].order = 0
                      /\ own'[d].base \in Pool \cup {NULL}
                      /\ free_lists[0] # NULL => own'[d].base # NULL
                                                 /\ own'[d].base <= free_lists[0]
    BY <1>1, <1>2 DEF BehindHead
  <2>1. CASE d = call.c /\ ~kept
    <3>1. own'[d] = given
      BY <2>1, <1>7
    <3>2. free_lists[0] \in Nat
      BY <1>2, HeadIsPage
    <3> QED
      BY <3>1, <3>2, <1>2, <1>5
  <2>2. CASE ~ (d = call.c /\ ~kept)
    BY <2>2, <1>1, <1>7 DEF BootInv, BehindHead
  <2> QED
    BY <2>1, <2>2
<1>12. BasesDiffer'
  <2>1. \A d \in Clients : own[d] # None => own[d].base # b
    BY <1>1 DEF BootInv, BehindHead, b
  <2> QED
    BY <1>2, <1>5, <1>7, <2>1 DEF BootInv, BasesDiffer
<1>13. BitmapExact'
  <2>1. bitmap = {i \in 0 .. BitmapBits - 1 :
                    \/ \E d \in Clients : PoolStart + i \in Held(d)
                    \/ PoolStart + i = b}
    <3>1. b \in Int
      BY <1>2
    <3>2. Run(call.block, 2^call.at) = {b}
      BY <1>2, <3>1, OnePage DEF b
    <3> QED
      BY <1>1, <3>2 DEF BootInv, BitmapExact
  <2>2. \A d \in Clients : Held(d)' = IF own'[d] = None THEN {} ELSE {own'[d].base}
    <3>1. BehindHead' => \A d \in Clients :
             Held(d)' = IF own'[d] = None THEN {} ELSE {own'[d].base}
      <4> SUFFICES ASSUME BehindHead', NEW d \in Clients, own'[d] # None
                   PROVE  Held(d)' = {own'[d].base}
        BY DEF Held
      <4>1. own'[d].order = 0 /\ own'[d].base \in Pool \cup {NULL}
        BY DEF BehindHead
      <4>2. own'[d].base \in Int
        BY <4>1, HeadIsPage
      <4>3. Held(d)' = Run(own'[d].base, 2^0)
        BY <4>1 DEF Held
      <4> QED
        BY <4>2, <4>3, OnePage
    <3> QED
      BY <1>11, <3>1
  <2>3. \A d \in Clients : Held(d) = IF own[d] = None THEN {} ELSE {own[d].base}
    BY HeldPage DEF BootInv
  <2>4. \A i \in 0 .. BitmapBits - 1 :
          (\E d \in Clients : PoolStart + i \in Held(d)')
            <=> \/ \E d \in Clients : PoolStart + i \in Held(d)
                \/ PoolStart + i = b
    <3> SUFFICES ASSUME NEW i \in 0 .. BitmapBits - 1
                 PROVE  (\E d \in Clients : PoolStart + i \in Held(d)')
                          <=> \/ \E d \in Clients : PoolStart + i \in Held(d)
                              \/ PoolStart + i = b
      OBVIOUS
    <3>1. PoolStart + i # NULL
      BY BuddyConstants
    <3>2. CASE kept
      BY <3>1, <3>2, <2>2, <2>3, <1>7 DEF kept, b
    <3>3. CASE ~kept
      <4>1. PICK c \in Clients : c = call.c
        BY <1>2
      <4>2. own'[c] = given /\ own[c] = None
        BY <4>1, <3>3, <1>2, <1>7
      <4>3. Held(c)' = {b} /\ Held(c) = {}
        BY <4>2, <2>2, <2>3, <1>5, <1>6
      <4>4. \A d \in Clients : d # c => Held(d)' = Held(d)
        BY <4>1, <2>2, <2>3, <1>7, ZenonT(60)
      <4> QED
        BY <4>3, <4>4
    <3> QED
      BY <3>2, <3>3
  <2> QED
    BY <1>1, <2>1, <2>4 DEF BitmapExact
<1> QED
  BY <1>8, <1>9, <1>10, <1>11, <1>12, <1>13 DEF BootInv

\* A client that clears the first word of a page it holds cannot break the
\* list, although its page still carries a link of it.
LEMMA WriteStep ==
  ASSUME QuietClients, BootInv, NEW c \in Clients, ClientWrite(c)
  PROVE  BootInv'
<1> USE Facts
<1>1. /\ pc = "idle"
      /\ UNCHANGED <<initialized, free_lists, bitmap, free_count, own, pc, call, calls>>
  BY DEF ClientWrite
<1>2. PICK p \in Pages : next' = [next EXCEPT ![p] = NULL]
  BY DEF ClientWrite, QuietClients
<1>3. next' \in [Pages -> Pages] /\ \A q \in Pages : next'[q] = NULL \/ next'[q] = next[q]
  BY <1>2 DEF BootInv, TypeOK
<1>4. TypeOK' /\ Ascending' /\ BlockIsHead' /\ BehindHead' /\ BasesDiffer'
  BY <1>1, <1>3 DEF BootInv, TypeOK, Ascending, BlockIsHead, BehindHead, BasesDiffer
<1>5. BitmapExact'
  BY <1>1 DEF BootInv, BitmapExact, Held
<1> QED
  BY <1>4, <1>5 DEF BootInv

\* Every step of BootSpec preserves the invariant; nothing is ever split.
LEMMA NextBootInv ==
  ASSUME CleanPool, QuietClients, BootInv, [BootNext]_vars
  PROVE  BootInv'
<1> USE Facts
<1>1. CASE mm_init
  BY <1>1, InitStep
<1>2. ASSUME NEW c \in Clients, Request(c)
      PROVE  BootInv'
  <2>1. ASSUME NEW o \in 0 .. MaxOrder, alloc_pages(c, o)
        PROVE  BootInv'
    BY <2>1, PopStep DEF alloc_pages
  <2>2. ASSUME NEW o \in 0 .. MaxOrder, AllocFails(c, o)
        PROVE  BootInv'
    BY <2>2, FailStep
  <2>3. ASSUME NEW n \in 1 .. 2^(MaxOrder - 1) + 1, phys_alloc(c, n)
        PROVE  BootInv'
    <3>1. n \in Nat
      OBVIOUS
    <3>2. PICK o \in Orders : Pop(c, o, "phys", n)
      BY <2>3 DEF phys_alloc
    <3> QED
      BY <3>1, <3>2, PopStep
  <2>4. ASSUME NEW n \in 0 .. MaxOrder, stack_alloc(c, n)
        PROVE  BootInv'
    BY <2>4, PopStep DEF stack_alloc
  <2> QED
    BY <1>2, <2>1, <2>2, <2>3, <2>4 DEF Request
<1>3. ASSUME NEW c \in Clients, ClientWrite(c)
      PROVE  BootInv'
  BY <1>3, WriteStep
<1>4. CASE Split
  BY <1>4 DEF Split, BootInv, BlockIsHead, AllocCalls
<1>5. CASE AllocReturns
  BY <1>5, ReturnStep
<1>6. CASE UNCHANGED vars
  BY <1>6 DEF vars, BootInv, TypeOK, Ascending, BlockIsHead, BehindHead, BasesDiffer,
              BitmapExact, Held
<1> QED
  BY <1>1, <1>2, <1>3, <1>4, <1>5, <1>6 DEF BootNext
----------------------------------------------------------------------------
\* The invariant holds as long as nothing is freed, for every pool.
THEOREM BootInvariance ==
  ASSUME CleanPool, QuietClients
  PROVE  BootSpec => []BootInv
<1>1. BootInv /\ [BootNext]_vars => BootInv'
  BY NextBootInv
<1> QED
  BY InitBootInv, <1>1, PTL DEF BootSpec

\* Blocks start in the pool or at page 0 and heads, links and counters keep
\* their ranges through every allocation (TypeOK).
THEOREM BootTypeCorrect ==
  ASSUME CleanPool, QuietClients
  PROVE  BootSpec => []TypeOK
<1>1. BootInv => TypeOK
  BY DEF BootInv
<1> QED
  BY BootInvariance, <1>1, PTL

\* Until something is freed, alloc_pages, phys_alloc and stack_alloc never give
\* one page to two clients.
THEOREM BootNoSharing ==
  ASSUME CleanPool, QuietClients
  PROVE  BootSpec => []NoSharing
<1>1. BootInv => NoSharing
  BY HeldPage DEF BootInv, BasesDiffer, NoSharing
<1> QED
  BY BootInvariance, <1>1, PTL

\* Until something is freed, the bitmap alloc_pages maintains is exact.
THEOREM BootBitmapExact ==
  ASSUME CleanPool, QuietClients
  PROVE  BootSpec => []BitmapExact
<1>1. BootInv => BitmapExact
  BY DEF BootInv
<1> QED
  BY BootInvariance, <1>1, PTL
----------------------------------------------------------------------------
\* A step that changes no block is a stutter of PageAllocator.
LEMMA NoGrant ==
  ASSUME own' = own
  PROVE  UNCHANGED [c \in Clients |-> Held(c)]
  BY DEF Held

\* A block that is returned is a grant of one page nobody holds.
LEMMA ReturnGrants ==
  ASSUME BootInv, BootInv', AllocReturns
  PROVE  [Abstract!ANext]_([c \in Clients |-> Held(c)])
<1> USE Facts
<1> DEFINE given == [base |-> call.block, order |-> call.order, api |-> call.api]
<1>1. /\ call.c \in Clients /\ own[call.c] = None /\ call.order = 0
      /\ call.block \in Pages /\ call.block \in Nat
      /\ call.api \in {"pages", "phys", "stack"}
      /\ \A d \in Clients : own[d] # None => own[d].base # call.block
  <2>1. pc = "split"
    BY DEF AllocReturns
  <2> QED
    BY <2>1 DEF BootInv, BlockIsHead, AllocCalls, BehindHead
<1>2. CASE own' = own
  BY <1>2, NoGrant
<1>3. CASE own' # own
  <2>1. PICK c \in Clients, b \in Nat : c = call.c /\ b = call.block
    BY <1>1
  <2>2. own' = [own EXCEPT ![c] = given]
    BY <1>3, <2>1 DEF AllocReturns
  <2>3. given.base = b /\ given \in Blocks
    BY <1>1, <2>1 DEF Blocks
  <2>4. given # None
    BY <2>3, NoneIsNoBlock
  <2> HIDE DEF given
  <2>5. own'[c] = given /\ \A d \in Clients : d # c => own'[d] = own[d]
    BY <2>2 DEF BootInv, TypeOK
  <2>6. \A d \in Clients : Held(d) = IF own[d] = None THEN {} ELSE {own[d].base}
    BY HeldPage DEF BootInv
  <2>7. Held(c)' = {b}
    <3>1. own'[c].order = 0
      BY <2>4, <2>5 DEF BootInv, BehindHead
    <3>2. Held(c)' = Run(own'[c].base, 2^0)
      BY <2>4, <2>5, <3>1 DEF Held
    <3> QED
      BY <2>3, <2>5, <3>2, OnePage
  <2>8. \A d \in Clients : d # c => Held(d)' = Held(d)
    BY <2>5 DEF Held
  <2>9. Held(c) = {} /\ \A d \in Clients : b \notin Held(d)
    BY <1>1, <2>1, <2>6
  <2>10. b \in Pages
    BY <1>1, <2>1
  <2>11. b .. b = {b}
    OBVIOUS
  <2>12. [d \in Clients |-> Held(d)]' =
           [[d \in Clients |-> Held(d)] EXCEPT ![c] = b .. b]
    BY <2>7, <2>8, <2>11
  <2>13. Abstract!Grant(c)
    <3>1. [d \in Clients |-> Held(d)][c] = {}
      BY <2>9
    <3>2. \A d \in Clients : [e \in Clients |-> Held(e)][d] \cap (b .. b) = {}
      BY <2>9, <2>11
    <3>3. b <= b
      OBVIOUS
    <3> QED
      BY <2>10, <2>12, <3>1, <3>2, <3>3 DEF Abstract!Grant
  <2> QED
    BY <2>13 DEF Abstract!ANext
<1> QED
  BY <1>2, <1>3

\* Until something is freed, alloc_pages and its wrappers implement the promise
\* of PageAllocator: every step is a grant of unheld pages or changes nothing
\* a caller can see.
THEOREM BootKeepsPromise ==
  ASSUME CleanPool, QuietClients
  PROVE  BootSpec => KeepsPromise
<1>1. Init => Abstract!AInit
  BY DEF Init, Abstract!AInit, Held
<1>2. BootInv /\ BootInv' /\ [BootNext]_vars
        => [Abstract!ANext]_([c \in Clients |-> Held(c)])
  <2> SUFFICES ASSUME BootInv, BootInv', [BootNext]_vars
               PROVE  [Abstract!ANext]_([c \in Clients |-> Held(c)])
    OBVIOUS
  <2>1. CASE AllocReturns
    BY <2>1, ReturnGrants
  <2>2. CASE ~AllocReturns
    <3>1. own' = own
      BY <2>2 DEF BootNext, vars, mm_init, Request, alloc_pages, phys_alloc, stack_alloc,
                  Pop, AllocFails, ClientWrite, Split
    <3> QED
      BY <3>1, NoGrant
  <2> QED
    BY <2>1, <2>2
<1> QED
  BY BootInvariance, <1>1, <1>2, PTL DEF BootSpec, KeepsPromise, Abstract!ASpec
----------------------------------------------------------------------------
(* The count of free pages.                                                *)

\* The pages somebody holds.
Used == UNION {Held(c) : c \in Clients}

\* free_count and the pages held add up to the pool; the block of a running
\* alloc_pages is already counted out, and a NULL block that a wrapper took for
\* a failure stays out.  The first page of the pool is never handed out.
CountInv ==
  /\ \A c \in Clients : own[c] # None => own[c].base # PoolStart
  /\ pc = "split" => call.block # PoolStart
  /\ initialized /\ pc = "split" => free_count + Cardinality(Used) = PoolPages - 1
  /\ initialized /\ pc = "idle" =>
       \/ free_count + Cardinality(Used) = PoolPages
       \/ free_count + Cardinality(Used) = PoolPages - 1 /\ free_lists[0] = NULL

\* The pages held are pages, finitely many; while the list is not at its end
\* they lie behind the first page of the pool and not past the head, so at
\* least one page of the pool is free.
LEMMA UsedPages ==
  ASSUME BootInv, CountInv
  PROVE  /\ Used \subseteq Pages
         /\ IsFiniteSet(Used) /\ Cardinality(Used) \in Nat
         /\ free_lists[0] # NULL => Cardinality(Used) < PoolPages
<1> USE Facts
<1>1. \A x \in Used : \E c \in Clients : own[c] # None /\ x = own[c].base
  BY HeldPage DEF BootInv, Used
<1>2. \A x \in Used :
        /\ x \in Pool \cup {NULL} /\ x # PoolStart
        /\ free_lists[0] # NULL => x # NULL /\ x <= free_lists[0]
  BY <1>1 DEF BootInv, BehindHead, CountInv
<1>3. Used \subseteq Pages
  BY <1>2
<1>4. IsFiniteSet(Used) /\ Cardinality(Used) \in Nat
  <2>1. IsFiniteSet(Pages)
    <3>1. 0 \in Int /\ Top - 1 \in Int
      OBVIOUS
    <3> QED
      BY <3>1, FS_Interval DEF Pages
  <2>2. IsFiniteSet(Used)
    BY <1>3, <2>1, FS_Subset
  <2> QED
    BY <2>2, FS_CardinalityType
<1>5. ASSUME free_lists[0] # NULL
      PROVE  Cardinality(Used) < PoolPages
  <2> DEFINE S == PoolStart + 1 .. PoolStart + PoolPages - 1
  <2>1. Used \subseteq S
    BY <1>2, <1>5 DEF Pool
  <2>2. PoolStart + 1 \in Int /\ PoolStart + PoolPages - 1 \in Int
    OBVIOUS
  <2>3. /\ IsFiniteSet(S)
        /\ Cardinality(S) = IF PoolStart + 1 > PoolStart + PoolPages - 1 THEN 0
                            ELSE PoolStart + PoolPages - 1 - (PoolStart + 1) + 1
    BY <2>2, FS_Interval
  <2>4. Cardinality(S) = PoolPages - 1
    BY <2>3
  <2>5. Cardinality(Used) <= Cardinality(S)
    BY <2>1, <2>3, FS_Subset
  <2> HIDE DEF S
  <2> QED
    BY <2>4, <2>5, <1>4
<1> QED
  BY <1>3, <1>4, <1>5

\* The same of the next state.
LEMMA HeldAfter ==
  ASSUME BehindHead', NEW c \in Clients
  PROVE  Held(c)' = IF own'[c] = None THEN {} ELSE {own'[c].base}
<1> SUFFICES ASSUME own'[c] # None PROVE Held(c)' = {own'[c].base}
  BY DEF Held
<1>1. own'[c].order = 0 /\ own'[c].base \in Pool \cup {NULL}
  BY DEF BehindHead
<1>2. own'[c].base \in Int
  BY <1>1, HeadIsPage
<1>3. Held(c)' = Run(own'[c].base, 2^0)
  BY <1>1 DEF Held
<1> QED
  BY <1>2, <1>3, OnePage

\* Steps that leave holders and count alone.
LEMMA CountStays ==
  ASSUME CountInv, UNCHANGED <<initialized, free_lists, free_count, own, pc, call>>
  PROVE  CountInv'
<1>1. Used' = Used
  BY DEF Used, Held
<1> QED
  BY <1>1 DEF CountInv

\* mm_init counts the whole pool.
LEMMA CountInit ==
  ASSUME BootInv, CountInv, mm_init
  PROVE  CountInv'
<1>1. pc = "idle" /\ \A c \in Clients : own[c] = None
  BY DEF mm_init, BootInv, BlockIsHead, BehindHead
<1>2. /\ own' = own /\ pc' = pc /\ free_count' = PoolPages
  BY DEF mm_init
<1>3. Used' = {}
  BY <1>1, <1>2 DEF Used, Held
<1>4. Cardinality(Used') = 0
  BY <1>3, FS_EmptySet
<1>5. free_count' + Cardinality(Used') = PoolPages
  BY <1>2, <1>4, Facts
<1> QED
  BY <1>1, <1>2, <1>5 DEF CountInv

\* The pop takes one page off the count, which is not zero.
LEMMA CountPop ==
  ASSUME BootInv, BootInv', CountInv, NEW c \in Clients, NEW order \in Nat, NEW zero,
         NEW api, Pop(c, order, api, zero)
  PROVE  CountInv'
<1> USE Facts
<1>1. PICK o \in Orders :
        /\ FirstNonEmpty(order, o)
        /\ free_count' = (free_count - 2^o) % SizeMod
        /\ call'.block = next[free_lists[o]]
  BY DEF Pop
<1>2. o = 0 /\ free_lists[0] # NULL /\ free_lists[0] \in Pool
  BY <1>1 DEF FirstNonEmpty, BootInv, Ascending
<1>3. pc = "idle" /\ pc' = "split" /\ initialized /\ UNCHANGED <<initialized, own>>
  BY DEF Pop, Enter
<1>4. Used' = Used
  BY <1>3 DEF Used, Held
<1>5. Cardinality(Used) \in Nat /\ Cardinality(Used) < PoolPages
  BY <1>2, UsedPages
<1>6. free_count + Cardinality(Used) = PoolPages /\ free_count \in Nat /\ free_count < SizeMod
  BY <1>2, <1>3 DEF CountInv, BootInv, TypeOK
<1>7. free_count' = free_count - 1
  <2>1. 2^o = 1
    BY <1>2
  <2>2. free_count - 1 \in Nat /\ free_count - 1 < SizeMod
    BY <1>5, <1>6
  <2>3. (free_count - 1) % SizeMod = free_count - 1
    BY <2>2
  <2> QED
    BY <1>1, <2>1, <2>3
<1>8. free_count' + Cardinality(Used') = PoolPages - 1
  BY <1>4, <1>5, <1>6, <1>7
<1>9. call'.block # PoolStart
  <2>1. next[free_lists[0]] = NULL \/ next[free_lists[0]] > free_lists[0]
    BY <1>2, <1>3 DEF BootInv, Ascending
  <2>2. free_lists[0] \in Nat /\ free_lists[0] >= PoolStart /\ PoolStart # 0
    BY <1>2 DEF Pool
  <2>3. next[free_lists[0]] # PoolStart
    <3>1. next[free_lists[0]] \in Nat
      BY <1>2 DEF BootInv, TypeOK
    <3> QED
      BY <2>1, <2>2, <3>1
  <2> QED
    BY <1>1, <1>2, <2>3
<1> QED
  BY <1>3, <1>8, <1>9 DEF CountInv

\* The block returned joins the pages held, or is the NULL block.
LEMMA CountReturn ==
  ASSUME BootInv, BootInv', CountInv, AllocReturns
  PROVE  CountInv'
<1> USE Facts
<1> DEFINE given == [base |-> call.block, order |-> call.order, api |-> call.api]
<1>1. /\ pc = "split" /\ pc' = "idle"
      /\ UNCHANGED <<initialized, free_lists, free_count>>
  BY DEF AllocReturns
<1>2. /\ initialized /\ call.c \in Clients /\ own[call.c] = None
      /\ call.block = free_lists[0] /\ call.block \in Pages
      /\ call.order = 0 /\ call.api \in {"pages", "phys", "stack"}
      /\ call.block # PoolStart
      /\ \A d \in Clients : own[d] # None => own[d].base # call.block
  BY <1>1 DEF BootInv, BlockIsHead, AllocCalls, BehindHead, CountInv
<1>3. free_count + Cardinality(Used) = PoolPages - 1 /\ free_count \in Nat
  BY <1>1, <1>2 DEF CountInv, BootInv, TypeOK
<1>4. CASE call.api # "pages" /\ call.block = NULL
  <2>1. own' = own
    BY <1>4 DEF AllocReturns
  <2>2. Used' = Used
    BY <2>1 DEF Used, Held
  <2> QED
    BY <1>1, <1>2, <1>3, <1>4, <2>1, <2>2 DEF CountInv
<1>5. CASE ~ (call.api # "pages" /\ call.block = NULL)
  <2>1. own' = [own EXCEPT ![call.c] = given]
    BY <1>5 DEF AllocReturns
  <2>2. given.base = call.block /\ given \in Blocks
    BY <1>2 DEF Blocks
  <2>3. given # None
    BY <2>2, NoneIsNoBlock
  <2> HIDE DEF given
  <2>4. \A d \in Clients : own'[d] = IF d = call.c THEN given ELSE own[d]
    BY <1>2, <2>1 DEF BootInv, TypeOK
  <2>5. \A d \in Clients : Held(d) = IF own[d] = None THEN {} ELSE {own[d].base}
    BY HeldPage DEF BootInv
  <2>6. \A d \in Clients : Held(d)' = IF own'[d] = None THEN {} ELSE {own'[d].base}
    BY HeldAfter DEF BootInv
  <2>7. Used' = Used \cup {call.block}
    <3>1. \A d \in Clients : Held(d)' = IF d = call.c THEN {call.block} ELSE Held(d)
      BY <2>2, <2>3, <2>4, <2>5, <2>6
    <3>2. Held(call.c) = {}
      BY <1>2, <2>5
    <3> QED
      BY <1>2, <3>1, <3>2 DEF Used
  <2>8. call.block \notin Used
    BY <1>2, <2>5 DEF Used
  <2>9. Cardinality(Used') = Cardinality(Used) + 1 /\ Cardinality(Used) \in Nat
    BY <2>7, <2>8, UsedPages, FS_AddElement
  <2>10. free_count' + Cardinality(Used') = PoolPages
    BY <1>1, <1>3, <2>9
  <2>11. \A d \in Clients : own'[d] # None => own'[d].base # PoolStart
    BY <1>2, <2>2, <2>4 DEF CountInv
  <2> QED
    BY <1>1, <2>10, <2>11 DEF CountInv
<1> QED
  BY <1>4, <1>5

\* A request is a pop or fails.
LEMMA CountRequest ==
  ASSUME BootInv, BootInv', CountInv, NEW c \in Clients, Request(c)
  PROVE  CountInv'
<1> USE Facts
<1>1. ASSUME NEW o \in 0 .. MaxOrder, alloc_pages(c, o)
      PROVE  CountInv'
  BY <1>1, CountPop DEF alloc_pages
<1>2. ASSUME NEW o \in 0 .. MaxOrder, AllocFails(c, o)
      PROVE  CountInv'
  BY <1>2, CountStays DEF AllocFails
<1>3. ASSUME NEW n \in 1 .. 2^(MaxOrder - 1) + 1, phys_alloc(c, n)
      PROVE  CountInv'
  <2>1. PICK o \in Orders : Pop(c, o, "phys", n)
    BY <1>3 DEF phys_alloc
  <2> QED
    BY <2>1, CountPop
<1>4. ASSUME NEW n \in 0 .. MaxOrder, stack_alloc(c, n)
      PROVE  CountInv'
  BY <1>4, CountPop DEF stack_alloc
<1> QED
  BY <1>1, <1>2, <1>3, <1>4 DEF Request

\* Every step of BootSpec keeps the count.
LEMMA NextCountInv ==
  ASSUME BootInv, BootInv', CountInv, [BootNext]_vars
  PROVE  CountInv'
<1> USE Facts
<1>1. CASE mm_init
  BY <1>1, CountInit
<1>2. ASSUME NEW c \in Clients, Request(c)
      PROVE  CountInv'
  BY <1>2, CountRequest
<1>3. ASSUME NEW c \in Clients, ClientWrite(c)
      PROVE  CountInv'
  BY <1>3, CountStays DEF ClientWrite
<1>4. CASE Split
  BY <1>4 DEF Split, BootInv, BlockIsHead, AllocCalls
<1>5. CASE AllocReturns
  BY <1>5, CountReturn
<1>6. CASE UNCHANGED vars
  BY <1>6, CountStays DEF vars
<1> QED
  BY <1>1, <1>2, <1>3, <1>4, <1>5, <1>6 DEF BootNext

\* The static initialiser holds nothing.
LEMMA InitCountInv == Init => CountInv
  BY DEF Init, CountInv

\* Between calls the invariant is what FreeCounted says: the other lists are
\* empty.
LEMMA CountShown == BootInv /\ CountInv => FreeCounted
<1>1. BootInv /\ free_lists[0] = NULL => \A o \in Orders : free_lists[o] = NULL
  BY DEF BootInv, Ascending
<1> QED
  BY <1>1 DEF FreeCounted, CountInv, Used

\* Until something is freed, buddy_free_pages and the pages held add up to the
\* pool, whatever is asked for and however large the pool is; the count never
\* wraps.
THEOREM BootFreeCounted ==
  ASSUME CleanPool, QuietClients
  PROVE  BootSpec => []FreeCounted
<1>1. CountInv /\ BootInv /\ BootInv' /\ [BootNext]_vars => CountInv'
  BY NextCountInv
<1>2. BootInv /\ CountInv => FreeCounted
  BY CountShown
<1> QED
  BY BootInvariance, InitCountInv, <1>1, <1>2, PTL DEF BootSpec
----------------------------------------------------------------------------
(* Powers of two.                                                          *)

\* 2^n is the number of subsets of a set of n elements.
LEMMA PowerCounts ==
  ASSUME NEW n \in Nat
  PROVE  /\ IsFiniteSet(SUBSET (1 .. n))
         /\ Cardinality(SUBSET (1 .. n)) = 2^n
         /\ 2^n \in Nat /\ 2^n > 0
<1>1. IsFiniteSet(1 .. n) /\ Cardinality(1 .. n) = n
  <2>1. 1 \in Int /\ n \in Int
    OBVIOUS
  <2>2. IsFiniteSet(1 .. n) /\ Cardinality(1 .. n) = IF 1 > n THEN 0 ELSE n - 1 + 1
    BY <2>1, FS_Interval
  <2> QED
    BY <2>2
<1>2. IsFiniteSet(SUBSET (1 .. n)) /\ Cardinality(SUBSET (1 .. n)) = 2^n
  <2>1. /\ IsFiniteSet(SUBSET (1 .. n))
        /\ Cardinality(SUBSET (1 .. n)) = 2^Cardinality(1 .. n)
    BY <1>1, FS_SUBSET, Zenon
  <2> QED
    BY <1>1, <2>1, Zenon
<1>3. Cardinality(SUBSET (1 .. n)) \in Nat /\ Cardinality(SUBSET (1 .. n)) # 0
  <2>1. SUBSET (1 .. n) # {}
    <3>1. {} \in SUBSET (1 .. n)
      OBVIOUS
    <3> QED
      BY <3>1, Zenon
  <2>2. Cardinality(SUBSET (1 .. n)) \in Nat
    BY <1>2, FS_CardinalityType
  <2>3. Cardinality(SUBSET (1 .. n)) # 0
    BY <1>2, <2>1, FS_EmptySet, Zenon
  <2> QED
    BY <2>2, <2>3
<1>4. 2^n \in Nat /\ 2^n # 0
  BY <1>2, <1>3, Zenon
<1> QED
  BY <1>2, <1>4

\* The subsets of n+1 elements are twice those of n: those without the last
\* element and those with it.
LEMMA PowerDoubles ==
  ASSUME NEW n \in Nat
  PROVE  2^(n + 1) = 2 * 2^n
<1> DEFINE S == SUBSET (1 .. n)
           with(T) == T \cup {n + 1}
           W == {with(T) : T \in S}
           f == [T \in S |-> with(T)]
<1>1. /\ IsFiniteSet(S) /\ Cardinality(S) = 2^n /\ 2^n \in Nat
      /\ Cardinality(SUBSET (1 .. n + 1)) = 2^(n + 1)
  BY PowerCounts
<1>2. n + 1 \notin 1 .. n /\ 1 .. n + 1 = (1 .. n) \cup {n + 1}
  OBVIOUS
<1>3. ASSUME NEW e, e \notin 1 .. n, 1 .. n + 1 = (1 .. n) \cup {e}, e = n + 1
      PROVE  /\ SUBSET (1 .. n + 1) = S \cup W
             /\ S \cap W = {}
             /\ f \in Bijection(S, W)
  <2>1. \A T \in W : \E U \in S : T = U \cup {e}
    BY <1>3
  <2>2. S \cap W = {}
    BY <1>3, <2>1
  <2>3. ASSUME NEW T \in SUBSET (1 .. n + 1)
        PROVE  T \in S \cup W
    <3>1. CASE e \in T
      <4>1. T \ {e} \in S /\ T = (T \ {e}) \cup {e}
        BY <1>3, <3>1, Zenon
      <4> QED
        BY <1>3, <4>1, Zenon
    <3>2. CASE e \notin T
      BY <1>3, <3>2, Zenon
    <3> QED
      BY <3>1, <3>2
  <2>4. ASSUME NEW T \in S \cup W
        PROVE  T \in SUBSET (1 .. n + 1)
    <3>1. CASE T \in S
      BY <1>3, <3>1, Zenon
    <3>2. CASE T \in W
      <4>1. PICK U \in S : T = U \cup {e}
        BY <2>1, <3>2, Zenon
      <4> QED
        BY <1>3, <4>1, Zenon
    <3> QED
      BY <3>1, <3>2
  <2>5. \A T, U \in S : f[T] = f[U] => T = U
    <3> SUFFICES ASSUME NEW T \in S, NEW U \in S, f[T] = f[U] PROVE T = U
      OBVIOUS
    <3>1. T \cup {e} = U \cup {e}
      BY <1>3, Zenon
    <3>2. e \notin T /\ e \notin U
      BY <1>3, Zenon
    <3>3. \A x \in T : x \in U
      BY <3>1, <3>2, Zenon
    <3>4. \A x \in U : x \in T
      BY <3>1, <3>2, Zenon
    <3> QED
      BY <3>3, <3>4, Zenon
  <2>6. f \in [S -> W] /\ \A T \in W : \E U \in S : f[U] = T
    <3>1. f \in [S -> W]
      OBVIOUS
    <3>2. ASSUME NEW T \in W
          PROVE  \E U \in S : f[U] = T
      <4>1. PICK U \in S : T = with(U)
        OBVIOUS
      <4>2. f[U] = with(U)
        OBVIOUS
      <4> QED
        BY <4>1, <4>2, Zenon
    <3> QED
      BY <3>1, <3>2
  <2>7. f \in Bijection(S, W)
    BY <2>5, <2>6, Zenon DEF Bijection, Injection, Surjection, IsInjective
  <2> QED
    BY <2>2, <2>3, <2>4, <2>7, Zenon
<1>4. SUBSET (1 .. n + 1) = S \cup W /\ S \cap W = {} /\ f \in Bijection(S, W)
  BY <1>2, <1>3, Zenon
<1> HIDE DEF S, W, f
<1>5. ExistsBijection(S, W)
  BY <1>4, Zenon DEF ExistsBijection
<1>6. IsFiniteSet(W) /\ Cardinality(W) = Cardinality(S)
  BY <1>1, <1>5, FS_Bijection, Zenon
<1>7. Cardinality(S \cup W) = Cardinality(S) + Cardinality(W) - Cardinality(S \cap W)
  BY <1>1, <1>6, FS_Union, Zenon
<1>8. Cardinality(S \cap W) = 0
  BY <1>4, FS_EmptySet, Zenon
<1>9. 2^(n + 1) = Cardinality(S) + Cardinality(W) - Cardinality(S \cap W)
  BY <1>1, <1>4, <1>7, Zenon
<1> QED
  BY <1>1, <1>6, <1>8, <1>9

\* Remainders and quotients, by a witness.
LEMMA Division ==
  ASSUME NEW x \in Int, NEW w \in Nat, w > 0
  PROVE  x % w = 0 <=> \E k \in Int : x = k * w
<1>1. x % w = 0 => x = (x \div w) * w /\ x \div w \in Int
  OBVIOUS
<1>2. ASSUME NEW k \in Int, x = k * w
      PROVE  x % w = 0
  <2>1. (k * w) % w = 0
    BY <1>2
  <2> QED
    BY <1>2, <2>1
<1> QED
  BY <1>1, <1>2

\* The index of block k of w pages, when the pool starts at, and the address
\* space is, an even number of such blocks.
SameParity(x, y) == x % 2 = y % 2
IndexAt(w, k, m, a) == ((k * w - m * (2 * w)) % (a * (2 * w))) \div w

\* Its parity is that of k.
LEMMA IndexParity ==
  ASSUME NEW w \in Nat, w > 0, NEW k \in Int, NEW m \in Int, NEW a \in Nat, a > 0
  PROVE  SameParity(IndexAt(w, k, m, a), k)
<1> DEFINE x == k * w - m * (2 * w)
           z == a * (2 * w)
           q == x \div z
           j == k - 2 * m - 2 * (a * q)
<1>1. x \in Int /\ z \in Nat /\ z > 0
  BY SMTT(30)
<1>2. q \in Int /\ x % z = x - z * q
  <2> HIDE DEF x, z
  <2> QED
    BY <1>1
<1>3. j \in Int /\ x - z * q = j * w
  <2> HIDE DEF q
  <2>1. a * q \in Int
    BY <1>2
  <2> QED
    BY <1>2, <2>1
<1>4. (j * w) \div w = j
  <2> HIDE DEF j
  <2> QED
    BY <1>3
<1>5. j % 2 = k % 2
  <2>1. PICK e \in Int : e = a * q
    <3> HIDE DEF q
    <3> QED
      BY <1>2
  <2>2. j = k - 2 * m - 2 * e
    BY <2>1
  <2> HIDE DEF j
  <2> QED
    BY <2>2
<1> HIDE DEF j, q
<1> QED
  BY <1>2, <1>3, <1>4, <1>5 DEF IndexAt, SameParity

\* Induction, for a set: one that has 0 and the successor of each of its
\* numbers has all the natural numbers.
LEMMA AllNaturals ==
  ASSUME NEW S, 0 \in S, \A n \in Nat : n \in S => n + 1 \in S
  PROVE  Nat \subseteq S
<1> DEFINE R == OpToRel(<, Nat)
           T == Nat \ S
<1>1. \A x, y \in Nat : y < x => <<y, x>> \in R
  BY DEF OpToRel
<1>2. IsWellFoundedOn(R, Nat)
  BY NatLessThanWellFounded
<1> SUFFICES ASSUME T # {} PROVE FALSE
  OBVIOUS
<1>3. T \subseteq Nat
  OBVIOUS
<1> HIDE DEF R, T
<1>4. PICK x \in T : \A y \in T : ~ (<<y, x>> \in R)
  BY <1>2, <1>3, WFMin, Zenon
<1>5. x \in Nat /\ x \notin S
  BY DEF T
<1>6. x # 0 /\ x - 1 \in Nat /\ (x - 1) + 1 = x /\ x - 1 < x
  BY <1>5
<1>7. x - 1 \in T
  BY <1>5, <1>6 DEF T
<1> QED
  BY <1>1, <1>4, <1>5, <1>6, <1>7

\* A smaller power of two divides a larger one.
LEMMA PowerDivides ==
  ASSUME NEW n \in Nat, NEW i \in 0 .. n
  PROVE  \E d \in Nat : 2^n = d * 2^i /\ d > 0
<1> DEFINE S == {m \in Nat : \A j \in 0 .. m : \E d \in Nat : 2^m = d * 2^j /\ d > 0}
<1>1. \A m \in Nat : 2^m \in Nat /\ 2^m > 0
  BY PowerCounts
<1>2. 0 \in S
  <2>1. 0 .. 0 = {0} /\ 2^0 = 1 * 2^0 /\ 1 \in Nat /\ 1 > 0
    OBVIOUS
  <2>2. \A j \in 0 .. 0 : \E d \in Nat : 2^0 = d * 2^j /\ d > 0
    BY <2>1, Zenon
  <2> QED
    BY <2>2
<1>3. ASSUME NEW m \in Nat, m \in S
      PROVE  m + 1 \in S
  <2> SUFFICES ASSUME NEW j \in 0 .. m + 1
               PROVE  \E d \in Nat : 2^(m + 1) = d * 2^j /\ d > 0
    OBVIOUS
  <2>1. CASE j = m + 1
    <3>1. PICK w \in Nat : w = 2^(m + 1)
      BY <1>1
    <3>2. w = 1 * w
      OBVIOUS
    <3> QED
      BY <2>1, <3>1, <3>2
  <2>2. CASE j \in 0 .. m
    <3>1. PICK d \in Nat : 2^m = d * 2^j /\ d > 0
      BY <1>3, <2>2
    <3>2. 2^(m + 1) = 2 * 2^m
      BY PowerDoubles
    <3>3. PICK w \in Nat : w = 2^j
      BY <1>1
    <3>4. 2 * (d * w) = (2 * d) * w /\ 2 * d \in Nat /\ 2 * d > 0
      BY <3>1
    <3> QED
      BY <3>1, <3>2, <3>3, <3>4
  <2> QED
    BY <2>1, <2>2
<1>4. Nat \subseteq S
  <2>1. \A m \in Nat : m \in S => m + 1 \in S
    BY <1>3
  <2> HIDE DEF S
  <2> QED
    BY <1>2, <2>1, AllNaturals, Zenon
<1>5. n \in S
  BY <1>4, Zenon
<1> QED
  BY <1>5
----------------------------------------------------------------------------
(* Splitting and coalescing, for every client and every call.              *)

\* The locals of alloc_pages and of free_pages.
AllocLocals == [op : {"alloc"}, c : Clients, api : {"pages", "phys", "stack"},
                order : Nat, zero : Nat, at : Orders, block : Nat, end : Nat]
FreeLocals  == [op : {"free"}, given : Nat, order : Orders, phys : Nat, at : Orders,
                prev : Pages, curr : Pages]

\* The block under the loops, with the types of the locals.
CallInv ==
  /\ pc = "split" => call \in AllocLocals
  /\ pc \in {"coalesce", "walk", "insert"} => call \in FreeLocals
  /\ pc = "walk" => call.at < MaxOrder - 1
  /\ SplitExact
  /\ CoalesceCovers

\* The size of a block.
LEMMA BlockSize == \A o \in Orders : 2^o \in Nat /\ 2^o > 0
  BY PowerCounts, Facts

\* Steps between calls, and steps that leave the running call alone.
LEMMA CallStays ==
  ASSUME CallInv, pc' = "idle" \/ UNCHANGED <<pc, call>>
  PROVE  CallInv'
  BY DEF CallInv, SplitExact, CoalesceCovers

\* The block popped.
LEMMA CallPop ==
  ASSUME TypeOK, CallInv, NEW c \in Clients, NEW order \in Nat, NEW zero \in Nat,
         NEW api \in {"pages", "phys", "stack"}, Pop(c, order, api, zero)
  PROVE  CallInv'
<1> USE Facts
<1>1. PICK o \in Orders :
        call' = [op |-> "alloc", c |-> c, api |-> api, order |-> order, zero |-> zero,
                 at |-> o, block |-> next[free_lists[o]],
                 end |-> next[free_lists[o]] + 2^o]
  BY DEF Pop
<1>2. next[free_lists[o]] \in Nat
  BY DEF TypeOK
<1>3. next[free_lists[o]] + 2^o \in Nat
  BY <1>2, BlockSize
<1>4. pc' = "split"
  BY DEF Pop
<1>5. call' \in AllocLocals
  BY <1>1, <1>2, <1>3 DEF AllocLocals
<1>6. call'.block + 2^call'.at = call'.end
  BY <1>1
<1> QED
  BY <1>4, <1>5, <1>6 DEF CallInv, SplitExact, CoalesceCovers

\* The right half ends where the block ended.
LEMMA CallSplit ==
  ASSUME CallInv, Split
  PROVE  CallInv'
<1> USE Facts
<1>1. pc = "split" /\ pc' = "split" /\ call \in AllocLocals /\ call.at > call.order
  BY DEF Split, CallInv
<1>2. PICK o \in Orders : o = call.at - 1
  BY <1>1 DEF AllocLocals, Orders
<1>3. call' = [call EXCEPT !.at = o, !.block = call.block + 2^o]
  BY <1>2 DEF Split, RightHalf
<1>4. 2^o \in Nat /\ 2^call.at = 2 * 2^o
  <2>1. call.at \in Orders
    BY <1>1 DEF AllocLocals
  <2>2. PICK n \in Nat : n = call.at
    BY <2>1
  <2>3. call.at = o + 1 /\ o \in Nat
    BY <1>2, <2>2
  <2> QED
    BY <2>3, BlockSize, PowerDoubles
<1>5. call.block \in Nat /\ call.end \in Nat /\ call.block + 2^call.at = call.end
  BY <1>1 DEF AllocLocals, CallInv, SplitExact
<1>6. call.block + 2^o \in Nat /\ (call.block + 2^o) + 2^o = call.end
  BY <1>4, <1>5
<1>7. /\ call' \in AllocLocals
      /\ call'.at = o /\ call'.block = call.block + 2^o /\ call'.end = call.end
  BY <1>1, <1>3, <1>6 DEF AllocLocals
<1> QED
  BY <1>1, <1>6, <1>7 DEF CallInv, SplitExact, CoalesceCovers

\* The block given back is aligned, or free_pages has returned.
LEMMA CallFree ==
  ASSUME TypeOK, NEW c \in Clients, Free(c)
  PROVE  CallInv'
<1> USE Facts
<1> DEFINE b == own[c].base
           o == FreedOrder(own[c])
<1>1. own[c] \in Blocks /\ pc' = "coalesce"
  BY DEF Free, TypeOK
<1>2. b \in Nat /\ o \in Orders
  BY <1>1 DEF Blocks, FreedOrder
<1>3. /\ b % 2^o = 0
      /\ call' = [op |-> "free", given |-> b, order |-> o, phys |-> b, at |-> o,
                  prev |-> NULL, curr |-> NULL]
  BY DEF Free
<1> HIDE DEF b, o
<1>4. /\ call' \in FreeLocals
      /\ call'.phys = b /\ call'.at = o /\ call'.given = b
  BY <1>2, <1>3 DEF FreeLocals
<1>5. b \in Run(b, 2^o)
  BY <1>2, BlockSize DEF Run
<1> QED
  BY <1>1, <1>3, <1>4, <1>5 DEF CallInv, SplitExact, CoalesceCovers

\* The steps of free_pages that keep the block.
LEMMA CallKeepsBlock ==
  ASSUME CallInv, call \in FreeLocals, call' \in FreeLocals,
         call'.phys = call.phys, call'.at = call.at, call'.given = call.given,
         pc \in {"coalesce", "walk", "insert"}, pc' \in {"coalesce", "walk", "insert"},
         pc' = "walk" => call.at < MaxOrder - 1
  PROVE  CallInv'
  BY DEF CallInv, SplitExact, CoalesceCovers

\* Below the top order, the pool starts at an even number of blocks, and the
\* address space is one.
LEMMA EvenBlocks ==
  ASSUME NEW o \in Orders, o < MaxOrder - 1
  PROVE  \E m \in Nat, a \in Nat :
           a > 0 /\ PoolStart = m * (2 * 2^o) /\ AddrPages = a * (2 * 2^o)
<1>1. PICK w \in Nat : w = 2 * 2^o /\ w > 0
  BY BlockSize
<1>2. 2^(o + 1) = w
  BY <1>1, Facts, PowerDoubles
<1>3. /\ o + 1 \in 0 .. MaxOrder - 1 /\ o + 1 \in 0 .. MaxOrder
      /\ MaxOrder - 1 \in Nat /\ MaxOrder \in Nat
  BY Facts DEF Orders
<1>4. ASSUME NEW n \in Nat, o + 1 \in 0 .. n, NEW x \in Nat, x % 2^n = 0
      PROVE  \E m \in Nat : x = m * w
  <2>1. PICK d \in Nat : 2^n = d * w /\ d > 0
    BY <1>2, <1>4, PowerDivides
  <2>2. PICK e \in Nat : e = 2^n /\ e > 0
    BY PowerCounts
  <2>3. PICK k \in Int : x = k * e
    BY <1>4, <2>2, Division
  <2>4. k >= 0
    BY <2>2, <2>3
  <2>5. x = (k * d) * w /\ k * d \in Nat
    BY <2>1, <2>2, <2>3, <2>4
  <2> QED
    BY <2>5
<1>5. PICK m \in Nat : PoolStart = m * w
  BY <1>3, <1>4, BuddyConstants
<1>6. PICK a \in Nat : AddrPages = a * w
  BY <1>3, <1>4, BuddyConstants, AddressSpaceLarge
<1>7. AddrPages > 0
  BY BuddyConstants
<1>8. a > 0
  BY <1>1, <1>6, <1>7
<1> QED
  BY <1>1, <1>5, <1>6, <1>8

\* buddy_phys_to_idx is even exactly for the left block of a pair.
LEMMA LeftIsEven ==
  ASSUME NEW o \in Orders, o < MaxOrder - 1, NEW k \in Int, NEW phys \in Nat,
         phys = k * 2^o
  PROVE  SameParity(buddy_phys_to_idx(phys, o), k)
<1>1. PICK w \in Nat : w = 2^o /\ w > 0
  BY BlockSize
<1>2. PICK m \in Nat, a \in Nat :
        a > 0 /\ PoolStart = m * (2 * w) /\ AddrPages = a * (2 * w)
  BY <1>1, EvenBlocks
<1>3. phys = k * w
  BY <1>1
<1>4. buddy_phys_to_idx(phys, o) = IndexAt(w, k, m, a)
  BY <1>1, <1>2, <1>3, Zenon DEF buddy_phys_to_idx, IndexAt
<1>5. m \in Int
  OBVIOUS
<1>6. SameParity(IndexAt(w, k, m, a), k)
  <2>1. w > 0 /\ a > 0
    BY <1>1, <1>2
  <2> QED
    BY <1>5, <2>1, IndexParity, Zenon
<1> QED
  BY <1>4, <1>6, Zenon

\* The block and its buddy make up an aligned block of the next order.
LEMMA BuddyAligned ==
  ASSUME CallInv, pc = "walk"
  PROVE  LET low == IF BuddyPhys < call.phys THEN BuddyPhys ELSE call.phys
         IN  /\ low \in Nat
             /\ low % 2^(call.at + 1) = 0
             /\ call.given \in Run(low, 2^(call.at + 1))
<1> USE Facts
<1>1. /\ call \in FreeLocals /\ call.at < MaxOrder - 1
      /\ call.phys % 2^call.at = 0 /\ call.given \in Run(call.phys, 2^call.at)
  BY DEF CallInv, CoalesceCovers
<1>2. PICK o \in Orders, phys \in Nat, given \in Nat :
        o = call.at /\ phys = call.phys /\ given = call.given
  BY <1>1 DEF FreeLocals
<1>3. PICK w \in Nat : w = 2^o /\ w > 0
  BY BlockSize
<1>4. 2^(o + 1) = 2 * w
  BY <1>3, PowerDoubles
<1>5. phys % w = 0 /\ given >= phys /\ given < phys + w
  <2>1. given \in phys .. phys + w - 1
    BY <1>1, <1>2, <1>3, Zenon DEF Run
  <2> QED
    BY <1>1, <1>2, <1>3, <2>1
<1>6. PICK k \in Int : phys = k * w
  <2>1. phys \in Int
    OBVIOUS
  <2> QED
    BY <1>3, <1>5, <2>1, Division, Zenon
<1>7. IsLeft <=> k % 2 = 0
  <2>1. buddy_phys_to_idx(phys, o) % 2 = k % 2
    <3>1. o < MaxOrder - 1 /\ phys = k * 2^o
      BY <1>1, <1>2, <1>3, <1>6, Zenon
    <3> QED
      BY <3>1, LeftIsEven, Zenon DEF SameParity
  <2> QED
    BY <1>2, <2>1 DEF IsLeft
<1>8. BuddyPhys = IF k % 2 = 0 THEN phys + w ELSE phys - w
  BY <1>2, <1>3, <1>7 DEF BuddyPhys
<1> DEFINE low == IF BuddyPhys < call.phys THEN BuddyPhys ELSE call.phys
<1>9. low = IF k % 2 = 0 THEN phys ELSE phys - w
  BY <1>2, <1>3, <1>8
<1> HIDE DEF low
<1>10. PICK j \in Int : low = j * (2 * w)
  <2>1. CASE k % 2 = 0
    <3>1. PICK j \in Int : k = 2 * j
      BY <2>1
    <3>2. phys = j * (2 * w)
      BY <1>6, <3>1
    <3> QED
      BY <1>9, <2>1, <3>2
  <2>2. CASE k % 2 # 0
    <3>1. PICK j \in Int : k = 2 * j + 1
      BY <2>2
    <3>2. phys - w = j * (2 * w)
      BY <1>6, <3>1
    <3> QED
      BY <1>9, <2>2, <3>2
  <2> QED
    BY <2>1, <2>2
<1>11. low \in Int /\ low <= given /\ given < low + 2 * w
  BY <1>3, <1>5, <1>9
<1>12. low >= 0
  <2>1. j >= 0
    BY <1>3, <1>10, <1>11
  <2> QED
    BY <1>10, <1>3, <2>1
<1>13. low % (2 * w) = 0
  <2>1. 2 * w \in Nat /\ 2 * w > 0
    BY <1>3
  <2> QED
    BY <1>10, <1>11, <2>1, Division
<1>14. given \in Run(low, 2 * w)
  BY <1>11 DEF Run
<1>15. low \in Nat
  BY <1>11, <1>12
<1> QED
  BY <1>2, <1>4, <1>13, <1>14, <1>15 DEF low

\* One order up, the block still contains the one that was freed.
LEMMA CallWalkDone ==
  ASSUME CallInv, WalkDone
  PROVE  CallInv'
<1> USE Facts
<1> DEFINE low == IF BuddyPhys < call.phys THEN BuddyPhys ELSE call.phys
<1>1. /\ pc = "walk" /\ pc' = "coalesce"
      /\ call' = [call EXCEPT !.at = call.at + 1, !.phys = low]
  BY DEF WalkDone
<1>2. low \in Nat /\ low % 2^(call.at + 1) = 0 /\ call.given \in Run(low, 2^(call.at + 1))
  BY <1>1, BuddyAligned
<1>3. call \in FreeLocals /\ call.at < MaxOrder - 1
  BY <1>1 DEF CallInv
<1> HIDE DEF low
<1>4. call.at + 1 \in Orders
  <2>1. PICK o \in Orders : o = call.at
    BY <1>3 DEF FreeLocals
  <2>2. o + 1 \in Orders
    BY <1>3, <2>1 DEF Orders
  <2> QED
    BY <2>1, <2>2
<1>5. /\ call' \in FreeLocals
      /\ call'.phys = low /\ call'.at = call.at + 1 /\ call'.given = call.given
  BY <1>1, <1>2, <1>3, <1>4 DEF FreeLocals
<1> QED
  BY <1>1, <1>2, <1>5 DEF CallInv, SplitExact, CoalesceCovers

\* Every step of free_pages keeps the block aligned and around the block freed.
LEMMA CallFreeStep ==
  ASSUME TypeOK, CallInv, FreeStep
  PROVE  CallInv'
<1> USE Facts
<1>1. CASE Coalesce
  <2>1. pc = "coalesce" /\ call.at < MaxOrder - 1 /\ call \in FreeLocals
    BY <1>1 DEF Coalesce, CallInv
  <2>2. CASE free_lists[call.at] = NULL
    BY <1>1, <2>1, <2>2, CallKeepsBlock DEF Coalesce
  <2>3. CASE free_lists[call.at] # NULL
    <3>1. pc' = "walk" /\ call' = [call EXCEPT !.prev = NULL, !.curr = free_lists[call.at]]
      BY <1>1, <2>3 DEF Coalesce
    <3>2. free_lists[call.at] \in Pages
      BY <2>1 DEF TypeOK, FreeLocals
    <3>3. /\ call' \in FreeLocals
          /\ call'.phys = call.phys /\ call'.at = call.at /\ call'.given = call.given
      BY <2>1, <3>1, <3>2 DEF FreeLocals
    <3> QED
      BY <2>1, <3>1, <3>3, CallKeepsBlock
  <2> QED
    BY <2>2, <2>3
<1>2. CASE CoalesceDone
  <2>1. pc = "coalesce" /\ pc' = "insert" /\ call' = call /\ call \in FreeLocals
    BY <1>2 DEF CoalesceDone, CallInv
  <2> QED
    BY <2>1, CallKeepsBlock
<1>3. CASE WalkOn
  <2>1. /\ pc = "walk" /\ pc' = "walk" /\ call \in FreeLocals /\ call.at < MaxOrder - 1
        /\ call' = [call EXCEPT !.prev = call.curr, !.curr = next[call.curr]]
    BY <1>3 DEF WalkOn, CallInv
  <2>2. call.curr \in Pages /\ next[call.curr] \in Pages
    BY <2>1 DEF TypeOK, FreeLocals
  <2>3. /\ call' \in FreeLocals
        /\ call'.phys = call.phys /\ call'.at = call.at /\ call'.given = call.given
    BY <2>1, <2>2 DEF FreeLocals
  <2> QED
    BY <2>1, <2>3, CallKeepsBlock
<1>4. CASE WalkDone
  BY <1>4, CallWalkDone
<1>5. CASE Insert
  BY <1>5, CallStays DEF Insert
<1> QED
  BY <1>1, <1>2, <1>3, <1>4, <1>5 DEF FreeStep

\* Every step of Spec keeps the block under the loops exact, while heads and
\* links are page addresses.
LEMMA NextCallInv ==
  ASSUME TypeOK, CallInv, [Next]_vars
  PROVE  CallInv'
<1> USE Facts
<1>1. CASE mm_init
  BY <1>1, CallStays DEF mm_init
<1>2. ASSUME NEW c \in Clients, Request(c)
      PROVE  CallInv'
  <2>1. ASSUME NEW o \in 0 .. MaxOrder, alloc_pages(c, o)
        PROVE  CallInv'
    BY <2>1, CallPop DEF alloc_pages
  <2>2. ASSUME NEW o \in 0 .. MaxOrder, AllocFails(c, o)
        PROVE  CallInv'
    BY <2>2, CallStays DEF AllocFails
  <2>3. ASSUME NEW n \in 1 .. 2^(MaxOrder - 1) + 1, phys_alloc(c, n)
        PROVE  CallInv'
    <3>1. n \in Nat
      OBVIOUS
    <3>2. PICK o \in Orders : Pop(c, o, "phys", n)
      BY <2>3 DEF phys_alloc
    <3> QED
      BY <3>1, <3>2, CallPop
  <2>4. ASSUME NEW n \in 0 .. MaxOrder, stack_alloc(c, n)
        PROVE  CallInv'
    BY <2>4, CallPop DEF stack_alloc
  <2> QED
    BY <1>2, <2>1, <2>2, <2>3, <2>4 DEF Request
<1>3. ASSUME NEW c \in Clients, Free(c)
      PROVE  CallInv'
  BY <1>3, CallFree
<1>4. ASSUME NEW c \in Clients, FreeMisaligned(c) \/ ClientWrite(c)
      PROVE  CallInv'
  BY <1>4, CallStays DEF FreeMisaligned, ClientWrite
<1>5. CASE Split
  BY <1>5, CallSplit
<1>6. CASE AllocReturns
  BY <1>6, CallStays DEF AllocReturns
<1>7. CASE FreeStep
  BY <1>7, CallFreeStep
<1>8. CASE UNCHANGED vars
  BY <1>8, CallStays DEF vars
<1> QED
  BY <1>1, <1>2, <1>3, <1>4, <1>5, <1>6, <1>7, <1>8 DEF Next

\* The block under the loops is exact as long as heads and links stay inside
\* physical memory.
THEOREM CallInvariance == Spec /\ []TypeOK => []CallInv
<1>1. Init => CallInv
  BY DEF Init, CallInv, SplitExact, CoalesceCovers
<1>2. TypeOK /\ CallInv /\ [Next]_vars => CallInv'
  BY NextCallInv
<1> QED
  BY <1>1, <1>2, PTL DEF Spec

\* However blocks of all orders are allocated and freed, the split loop of
\* alloc_pages works on the right end of the block it popped.
THEOREM SplitsExactly == Spec /\ []TypeOK => []SplitExact
<1>1. CallInv => SplitExact
  BY DEF CallInv
<1> QED
  BY CallInvariance, <1>1, PTL

\* However blocks of all orders are allocated and freed, and whatever the lists
\* hold, the block that free_pages coalesces is aligned to its size and contains
\* the block that was freed: the parity of the wrapped index is that of the
\* address at every order.
THEOREM CoalesceAlwaysCovers == Spec /\ []TypeOK => []CoalesceCovers
<1>1. CallInv => CoalesceCovers
  BY DEF CallInv
<1> QED
  BY CallInvariance, <1>1, PTL
============================================================================
