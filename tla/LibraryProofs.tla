--------------------------- MODULE LibraryProofs ---------------------------
(***************************************************************************)
(* memset, memcpy, memmove and memcmp for every memory, every pair of      *)
(* regions in it, overlapping or not, and every length; strlen, strchr,    *)
(* strcmp, strncmp, strstr, strcpy, strncpy and strcat for every memory and*)
(* all strings in it: they do what C says of them and touch nothing else.  *)
(* atol reads nothing beyond its string.  kmalloc_simple never returns     *)
(* overlapping blocks before alloc_ptr wraps, for every page size, word    *)
(* size, heap start and sizes asked for.                                   *)
(***************************************************************************)
EXTENDS StringLib, Syscall, TLAPS
----------------------------------------------------------------------------
(* The memory functions of string.c.                                       *)

\* A call of one of the four on two regions inside memory.
MemFunctions == {"memset", "memcpy", "memmove", "memcmp"}

MemInit ==
  \E f \in MemFunctions, d, s, len \in Nat, c \in Int, m \in [Addr -> Int] :
    d + len <= MemSize /\ s + len <= MemSize /\ Call(f, d, s, len, c, m)

MemSpec == MemInit /\ [][StringNext]_stringVars

\* memmove starts from the end.
Backward == fn = "memmove" /\ dst >= src

\* The copy is not disturbed by its own stores.
Undisturbed == fn = "memmove" \/ dst <= src \/ src + n <= dst

\* The arguments never change.
Arguments ==
  /\ fn \in MemFunctions
  /\ dst \in Nat /\ src \in Nat /\ n \in Nat /\ chr \in Int
  /\ dst + n <= MemSize /\ src + n <= MemSize
  /\ mem0 \in [Addr -> Int]

\* The pointers follow the counter.
Pointers ==
  /\ k \in 0 .. n
  /\ loop \in {"first", "done"}
  /\ loop = "done" /\ fn # "memcmp" => k = 0 /\ result = dst
  /\ IF Backward THEN p = dst + k /\ q = src + k
     ELSE p = dst + n - k /\ (fn # "memset" => q = src + n - k)

\* The bytes stored so far: n - k of them, at the start or, backward, at the
\* end of the destination.
Stored == IF Backward THEN dst + k .. dst + n - 1 ELSE dst .. dst + (n - k) - 1

Contents ==
  /\ mem \in [Addr -> Int]
  /\ fn \in {"memcpy", "memmove"} /\ Undisturbed =>
       \A a \in Addr : mem[a] = IF a \in Stored THEN mem0[src + (a - dst)] ELSE mem0[a]
  /\ fn = "memset" => \A a \in Addr : mem[a] = IF a \in Stored THEN chr ELSE mem0[a]
  /\ fn = "memcmp" => mem = mem0

\* memcmp has found the bytes before the counter equal.
Compared ==
  fn = "memcmp" =>
    /\ loop = "first" => \A x \in 0 .. (n - k) - 1 : mem0[dst + x] = mem0[src + x]
    /\ loop = "done" => result = Difference(mem0, dst, src, n)

\* What has been read and written.
Touched ==
  /\ reads \subseteq (dst .. dst + n - 1) \cup (src .. src + n - 1)
  /\ writes \subseteq IF fn = "memcmp" THEN {} ELSE dst .. dst + n - 1

\* The inductive invariant.
MemInv == Arguments /\ Pointers /\ Contents /\ Compared /\ Touched

\* A call establishes it.
LEMMA InitMemInv == MemInit => MemInv
<1> SUFFICES ASSUME NEW f \in MemFunctions, NEW d \in Nat, NEW s \in Nat, NEW len \in Nat,
                    NEW c \in Int, NEW m \in [Addr -> Int],
                    d + len <= MemSize, s + len <= MemSize, Call(f, d, s, len, c, m)
             PROVE  MemInv
  BY DEF MemInit
<1>1. /\ fn = f /\ dst = d /\ src = s /\ n = len /\ chr = c /\ mem0 = m /\ mem = m
      /\ p = (IF f = "memmove" /\ d >= s THEN d + len ELSE d)
      /\ q = (IF f = "memmove" /\ d >= s THEN s + len ELSE s)
      /\ loop = "first" /\ reads = {} /\ writes = {}
  BY DEF Call
<1>2. k = n
  BY <1>1 DEF Call, MemFunctions
<1>3. Arguments
  BY <1>1 DEF Arguments
<1>4. Pointers
  BY <1>1, <1>2 DEF Pointers, Backward
<1>5. Stored = {}
  BY <1>1, <1>2 DEF Stored
<1>6. Contents
  BY <1>1, <1>5 DEF Contents
<1>7. Compared /\ Touched
  BY <1>1, <1>2 DEF Compared, Touched
<1> QED
  BY <1>3, <1>4, <1>6, <1>7 DEF MemInv

\* Only four of the functions can take a step, and none changes an argument.
LEMMA StepsOfMem ==
  ASSUME Arguments, StringNext
  PROVE  /\ memset \/ memcpy \/ memmove \/ memcmp
         /\ UNCHANGED args
<1>1. memset \/ memcpy \/ memmove \/ memcmp
  BY Zenon DEF Arguments, MemFunctions, StringNext, In, strlen, strcmp, strncmp, strcpy, strncpy,
         strcat, strchr, strstr, atol
<1> QED
  BY <1>1 DEF memset, memcpy, memmove, memcmp, Move, Return

\* Unchanged arguments keep their ranges.
LEMMA ArgumentsSame == Arguments /\ UNCHANGED args => Arguments'
  BY DEF args, Arguments

\* The return of a function whose counter is 0.
LEMMA ReturnStep ==
  ASSUME MemInv, loop = "first", fn # "memcmp", k = 0, UNCHANGED args,
         Read({}), Return(dst)
  PROVE  MemInv'
<1>1. /\ loop' = "done" /\ result' = dst /\ UNCHANGED <<p, q, k, mem, writes>>
      /\ reads' = reads
      /\ UNCHANGED <<fn, dst, src, n, chr, mem0>>
  BY DEF Read, Return, args
<1>2. Arguments'
  BY ArgumentsSame DEF MemInv
<1>3. Pointers'
  BY <1>1 DEF MemInv, Pointers, Backward
<1>4. Contents'
  BY <1>1 DEF MemInv, Contents, Undisturbed, Stored, Backward
<1>5. Compared' /\ Touched'
  BY <1>1 DEF MemInv, Compared, Touched
<1> QED
  BY <1>2, <1>3, <1>4, <1>5 DEF MemInv

\* A store of v at address a, the next one of the destination, with the pointers
\* and the counter moved: the bytes stored are one more.
LEMMA StoreStep ==
  ASSUME MemInv, loop = "first", k > 0, UNCHANGED args,
         NEW a \in Addr, NEW v \in Int, Store(a, v),
         fn \in {"memset", "memcpy", "memmove"},
         a = (IF Backward THEN dst + k - 1 ELSE dst + (n - k)),
         k' = k - 1, UNCHANGED <<loop, result>>,
         reads' \subseteq (dst .. dst + n - 1) \cup (src .. src + n - 1),
         IF Backward THEN p' = p - 1 /\ q' = q - 1
         ELSE p' = p + 1 /\ (fn # "memset" => q' = q + 1),
         fn = "memset" => v = chr,
         fn # "memset" /\ Undisturbed => v = mem0[src + (a - dst)]
  PROVE  MemInv'
<1>1. /\ UNCHANGED <<fn, dst, src, n, chr, mem0>>
      /\ mem' = [mem EXCEPT ![a] = v] /\ writes' = writes \cup {a}
  BY DEF args, Store
<1>2. /\ dst \in Nat /\ src \in Nat /\ n \in Nat /\ k \in 1 .. n
      /\ dst + n <= MemSize /\ src + n <= MemSize
      /\ mem \in [Addr -> Int] /\ a \in dst .. dst + n - 1
  BY DEF MemInv, Arguments, Pointers, Contents
<1>3. Backward' = Backward /\ Undisturbed' = Undisturbed
  BY <1>1 DEF Backward, Undisturbed
<1>4. Pointers'
  <2>1. k' \in 0 .. n' /\ loop' = "first"
    BY <1>1, <1>2
  <2>2. IF Backward THEN p' = dst + k' /\ q' = src + k'
        ELSE p' = dst + n - k' /\ (fn # "memset" => q' = src + n - k')
    BY <1>2 DEF MemInv, Pointers
  <2> QED
    BY <1>1, <1>3, <2>1, <2>2 DEF Pointers
<1>5. \A b \in Addr : b \in Stored' <=> b = a \/ b \in Stored
  <2>1. Stored' = IF Backward THEN dst + (k - 1) .. dst + n - 1
                  ELSE dst .. dst + (n - (k - 1)) - 1
    BY <1>1, <1>3 DEF Stored
  <2>2. CASE Backward
    <3>1. Stored = dst + k .. dst + n - 1 /\ Stored' = dst + (k - 1) .. dst + n - 1
      BY <2>1, <2>2 DEF Stored
    <3>2. a = dst + k - 1
      BY <2>2
    <3> QED
      BY <1>2, <3>1, <3>2, StringConstants DEF Addr
  <2>3. CASE ~Backward
    <3>1. Stored = dst .. dst + (n - k) - 1 /\ Stored' = dst .. dst + (n - (k - 1)) - 1
      BY <2>1, <2>3 DEF Stored
    <3>2. a = dst + (n - k)
      BY <2>3
    <3> QED
      BY <1>2, <3>1, <3>2, StringConstants DEF Addr
  <2> QED
    BY <2>2, <2>3
<1>6. mem' \in [Addr -> Int] /\ \A b \in Addr : mem'[b] = IF b = a THEN v ELSE mem[b]
  BY <1>1, <1>2
<1>7. Contents'
  <2>1. ASSUME fn # "memset", Undisturbed, NEW b \in Addr
        PROVE  mem'[b] = IF b \in Stored' THEN mem0[src + (b - dst)] ELSE mem0[b]
    <3>1. mem[b] = IF b \in Stored THEN mem0[src + (b - dst)] ELSE mem0[b]
      BY <2>1 DEF MemInv, Contents
    <3> QED
      BY <1>5, <1>6, <2>1, <3>1, Zenon
  <2>2. ASSUME fn = "memset", NEW b \in Addr
        PROVE  mem'[b] = IF b \in Stored' THEN chr ELSE mem0[b]
    <3>1. mem[b] = IF b \in Stored THEN chr ELSE mem0[b]
      BY <2>2 DEF MemInv, Contents
    <3> QED
      BY <1>5, <1>6, <2>2, <3>1, Zenon
  <2> QED
    BY <1>1, <1>3, <1>6, <2>1, <2>2 DEF Contents
<1>8. Touched'
  BY <1>1, <1>2 DEF MemInv, Touched
<1>9. Compared' /\ Arguments'
  BY <1>1, ArgumentsSame DEF MemInv, Compared
<1> QED
  BY <1>4, <1>7, <1>8, <1>9 DEF MemInv

\* The byte a copy reads has not been overwritten by it.
LEMMA SourceIntact ==
  ASSUME MemInv, loop = "first", k > 0, fn \in {"memcpy", "memmove"}, NEW b \in Nat,
         b = (IF Backward THEN src + k - 1 ELSE src + (n - k))
  PROVE  /\ b \in Addr /\ b \in src .. src + n - 1
         /\ mem[b] \in Int
         /\ Undisturbed => mem[b] = mem0[b]
<1>1. /\ dst \in Nat /\ src \in Nat /\ n \in Nat /\ k \in 1 .. n
      /\ src + n <= MemSize /\ mem \in [Addr -> Int] /\ MemSize \in Nat
  BY StringConstants DEF MemInv, Arguments, Pointers, Contents
<1>2. b \in Addr /\ b \in src .. src + n - 1
  BY <1>1 DEF Addr
<1>3. Undisturbed => b \notin Stored
  BY <1>1 DEF Undisturbed, Stored, Backward
<1> QED
  BY <1>1, <1>2, <1>3 DEF MemInv, Contents

\* A step of memset.
LEMMA MemsetStep ==
  ASSUME MemInv, memset, UNCHANGED args
  PROVE  MemInv'
<1>1. fn = "memset" /\ loop = "first" /\ ~Backward
  BY DEF memset, In, Backward
<1>2. CASE k = 0
  BY <1>1, <1>2, ReturnStep DEF memset
<1>3. CASE k # 0
  <2>1. Store(p, chr) /\ UNCHANGED reads /\ Move(1, 0, -1)
    BY <1>3 DEF memset
  <2>2. /\ p = dst + (n - k) /\ k > 0 /\ chr \in Int /\ p \in Addr /\ k \in Int /\ p \in Int
    BY <1>1, <1>3, StringConstants DEF MemInv, Arguments, Pointers, Addr
  <2>3. p' = p + 1 /\ k' = k - 1 /\ UNCHANGED <<loop, result>>
    BY <2>1, <2>2 DEF Move
  <2>4. reads' \subseteq (dst .. dst + n - 1) \cup (src .. src + n - 1)
    BY <2>1 DEF MemInv, Touched
  <2> QED
    BY <1>1, <2>1, <2>2, <2>3, <2>4, StoreStep
<1> QED
  BY <1>2, <1>3

\* A step of memcpy or memmove.
LEMMA CopyStep ==
  ASSUME MemInv, memcpy \/ memmove, UNCHANGED args
  PROVE  MemInv'
<1>1. fn \in {"memcpy", "memmove"} /\ loop = "first"
  BY DEF memcpy, memmove, In
<1>2. CASE k = 0
  BY <1>1, <1>2, ReturnStep DEF memcpy, memmove
<1>3. CASE k # 0
  <2>1. /\ dst \in Nat /\ src \in Nat /\ n \in Nat /\ k \in 1 .. n
        /\ dst + n <= MemSize /\ src + n <= MemSize /\ MemSize \in Nat
        /\ IF Backward THEN p = dst + k /\ q = src + k
           ELSE p = dst + n - k /\ q = src + n - k
    BY <1>1, <1>3, StringConstants DEF MemInv, Arguments, Pointers
  <2>2. CASE ~Backward
    <3>1. Copy /\ Move(1, 1, -1)
      BY <1>1, <1>3, <2>1, <2>2 DEF memcpy, memmove, In, Backward
    <3>2. /\ p = dst + (n - k) /\ q = src + (n - k) /\ p \in Addr /\ q \in Nat
          /\ q - src = p - dst
      BY <2>1, <2>2 DEF Addr
    <3>3. /\ q \in src .. src + n - 1 /\ mem[q] \in Int
          /\ Undisturbed => mem[q] = mem0[src + (p - dst)]
      <4>1. src + (p - dst) = q
        BY <2>1, <3>2 DEF Addr
      <4> QED
        BY <1>1, <2>1, <2>2, <3>2, <4>1, SourceIntact
    <3>4. p' = p + 1 /\ q' = q + 1 /\ k' = k - 1 /\ UNCHANGED <<loop, result>>
      BY <2>1, <3>1 DEF Move
    <3>5. reads' \subseteq (dst .. dst + n - 1) \cup (src .. src + n - 1)
      BY <3>1, <3>3 DEF Copy, MemInv, Touched
    <3>6. Store(p, mem[q])
      BY <3>1 DEF Copy
    <3> QED
      BY <1>1, <2>1, <2>2, <3>2, <3>3, <3>4, <3>5, <3>6, StoreStep
  <2>3. CASE Backward
    <3>1. /\ Store(p - 1, mem[q - 1]) /\ reads' = reads \cup {q - 1}
          /\ Move(-1, -1, -1)
      BY <1>1, <1>3, <2>1, <2>3 DEF memcpy, memmove, In, Backward
    <3>2. /\ p - 1 = dst + k - 1 /\ q - 1 = src + k - 1 /\ p - 1 \in Addr /\ q - 1 \in Nat
          /\ (q - 1) - src = (p - 1) - dst
      BY <2>1, <2>3 DEF Addr
    <3>3. /\ q - 1 \in src .. src + n - 1 /\ mem[q - 1] \in Int
          /\ Undisturbed => mem[q - 1] = mem0[src + ((p - 1) - dst)]
      <4>1. src + ((p - 1) - dst) = q - 1
        BY <2>1, <2>3
      <4> QED
        BY <1>1, <2>1, <2>3, <3>2, <4>1, SourceIntact
    <3>4. p' = p - 1 /\ q' = q - 1 /\ k' = k - 1 /\ UNCHANGED <<loop, result>>
      BY <2>1, <2>3, <3>1 DEF Move
    <3>5. reads' \subseteq (dst .. dst + n - 1) \cup (src .. src + n - 1)
      BY <3>1, <3>3, Zenon DEF MemInv, Touched
    <3> QED
      BY <1>1, <2>1, <2>3, <3>1, <3>2, <3>3, <3>4, <3>5, StoreStep DEF Backward
  <2> QED
    BY <2>2, <2>3
<1> QED
  BY <1>2, <1>3 DEF MemInv, Pointers

\* The difference of two regions is that of the first bytes that differ.
LEMMA DifferenceAt ==
  ASSUME NEW m, NEW a, NEW b, NEW len \in Nat, NEW x \in 0 .. len - 1,
         m[a + x] # m[b + x], \A y \in 0 .. x - 1 : m[a + y] = m[b + y]
  PROVE  Difference(m, a, b, len) = m[a + x] - m[b + x]
<1> DEFINE D == {y \in 0 .. len - 1 : m[a + y] # m[b + y]}
           c == CHOOSE y \in D : \A z \in D : y <= z
<1>1. x \in D /\ \A z \in D : x <= z
  OBVIOUS
<1>2. c \in D /\ \A z \in D : c <= z
  BY <1>1
<1>3. c = x
  BY <1>1, <1>2
<1>4. Difference(m, a, b, len) = IF D = {} THEN 0 ELSE m[a + c] - m[b + c]
  BY DEF Difference
<1> QED
  BY <1>1, <1>3, <1>4

\* Equal regions have none.
LEMMA DifferenceNone ==
  ASSUME NEW m, NEW a, NEW b, NEW len \in Nat, \A y \in 0 .. len - 1 : m[a + y] = m[b + y]
  PROVE  Difference(m, a, b, len) = 0
<1>1. {y \in 0 .. len - 1 : m[a + y] # m[b + y]} = {}
  OBVIOUS
<1> QED BY <1>1 DEF Difference

\* A step of memcmp.
LEMMA MemcmpStep ==
  ASSUME MemInv, memcmp, UNCHANGED args
  PROVE  MemInv'
<1>1. /\ fn = "memcmp" /\ loop = "first" /\ ~Backward
      /\ UNCHANGED <<fn, dst, src, n, chr, mem0>>
  BY DEF memcmp, In, Backward, args
<1>2. /\ dst \in Nat /\ src \in Nat /\ n \in Nat /\ k \in 0 .. n /\ mem = mem0
      /\ p = dst + n - k /\ q = src + n - k /\ Arguments
      /\ \A x \in 0 .. (n - k) - 1 : mem0[dst + x] = mem0[src + x]
  BY <1>1 DEF MemInv, Arguments, Pointers, Contents, Compared
<1>3. UNCHANGED <<mem, writes>> /\ Arguments'
  BY <1>1, ArgumentsSame DEF memcmp, Read, MemInv
<1>4. Contents'
  BY <1>1, <1>3 DEF MemInv, Contents
<1>5. CASE k = 0
  <2>1. result' = 0 /\ loop' = "done" /\ UNCHANGED <<p, q, k>> /\ reads' = reads
    BY <1>1, <1>5 DEF memcmp, Read, Return
  <2>2. \A y \in 0 .. n - 1 : mem0[dst + y] = mem0[src + y]
    BY <1>2, <1>5
  <2>3. Difference(mem0, dst, src, n) = 0
    BY <1>2, <2>2, DifferenceNone
  <2>4. Pointers' /\ Touched'
    BY <1>1, <1>2, <1>3, <2>1 DEF MemInv, Pointers, Touched, Backward
  <2>5. Compared'
    BY <1>1, <2>1, <2>3 DEF Compared
  <2> QED
    BY <1>3, <1>4, <2>4, <2>5 DEF MemInv
<1>6. CASE k # 0
  <2> DEFINE x == n - k
  <2>1. x \in 0 .. n - 1 /\ p = dst + x /\ q = src + x
    BY <1>2, <1>6
  <2>2. reads' = reads \cup {p, q}
    BY <1>6 DEF memcmp, Read
  <2>3. Touched'
    <3>1. p \in dst .. dst + n - 1 /\ q \in src .. src + n - 1
      BY <1>2, <2>1
    <3> QED
      BY <1>1, <1>3, <2>2, <3>1 DEF MemInv, Touched
  <2>4. CASE mem[p] # mem[q]
    <3>1. result' = mem[p] - mem[q] /\ loop' = "done" /\ UNCHANGED <<p, q, k>>
      BY <1>6, <2>4 DEF memcmp, Return
    <3>2. Difference(mem0, dst, src, n) = mem0[p] - mem0[q]
      <4>1. mem0[dst + x] # mem0[src + x]
        BY <1>2, <2>1, <2>4
      <4>2. \A y \in 0 .. x - 1 : mem0[dst + y] = mem0[src + y]
        BY <1>2
      <4>3. n \in Nat /\ x \in 0 .. n - 1
        BY <1>2, <2>1
      <4> HIDE DEF x
      <4>4. Difference(mem0, dst, src, n) = mem0[dst + x] - mem0[src + x]
        BY <4>1, <4>2, <4>3, DifferenceAt
      <4> QED
        BY <2>1, <4>4, Zenon
    <3>3. Pointers'
      BY <1>1, <1>2, <3>1 DEF MemInv, Pointers, Backward
    <3>4. Compared'
      BY <1>1, <1>2, <3>1, <3>2 DEF Compared
    <3> QED
      BY <1>3, <1>4, <2>3, <3>3, <3>4 DEF MemInv
  <2>5. CASE mem[p] = mem[q]
    <3>1. p' = p + 1 /\ q' = q + 1 /\ k' = k - 1 /\ UNCHANGED <<loop, result>>
      BY <1>2, <1>6, <2>5 DEF memcmp, Move
    <3>2. Pointers'
      BY <1>1, <1>2, <1>6, <3>1 DEF Pointers, Backward
    <3>3. \A y \in 0 .. (n - k') - 1 : mem0[dst + y] = mem0[src + y]
      BY <1>2, <2>1, <2>5, <3>1
    <3>4. Compared'
      BY <1>1, <3>1, <3>3 DEF Compared
    <3> QED
      BY <1>3, <1>4, <2>3, <3>2, <3>4 DEF MemInv
  <2> QED
    BY <2>4, <2>5
<1> QED
  BY <1>5, <1>6

\* Every step preserves the invariant.
LEMMA NextMemInv == MemInv /\ [StringNext]_stringVars => MemInv'
<1> SUFFICES ASSUME MemInv, [StringNext]_stringVars PROVE MemInv'
  OBVIOUS
<1>1. CASE StringNext
  <2>1. (memset \/ memcpy \/ memmove \/ memcmp) /\ UNCHANGED args
    BY <1>1, StepsOfMem DEF MemInv
  <2> QED
    BY <2>1, MemsetStep, CopyStep, MemcmpStep
<1>2. CASE UNCHANGED stringVars
  <2>1. UNCHANGED args /\ UNCHANGED <<mem, p, q, k, loop, result, reads, writes>>
    BY <1>2 DEF stringVars
  <2>2. UNCHANGED <<fn, dst, src, n, chr, mem0>>
    BY <2>1 DEF args
  <2>3. Arguments' /\ Pointers'
    BY <2>1, <2>2, ArgumentsSame DEF MemInv, Pointers, Backward
  <2>4. Contents'
    BY <2>1, <2>2 DEF MemInv, Contents, Undisturbed, Stored, Backward
  <2>5. Compared' /\ Touched'
    BY <2>1, <2>2 DEF MemInv, Compared, Touched
  <2> QED
    BY <2>3, <2>4, <2>5 DEF MemInv
<1> QED
  BY <1>1, <1>2
----------------------------------------------------------------------------
\* The invariant of the four functions.
THEOREM MemInvariance == MemSpec => []MemInv
  BY InitMemInv, NextMemInv, PTL DEF MemSpec

\* memmove copies as if through a buffer for every overlap, memcpy whenever the
\* destination does not start inside the source, memset fills its region (what
\* MoveExact says of these three).
THEOREM MemMoveExact == MemSpec => []MoveExact
<1>1. MemInv => MoveExact
  <2> SUFFICES ASSUME MemInv, loop = "done" PROVE MoveExact
    BY DEF MoveExact, Done
  <2>1. mem \in [Addr -> Int]
    BY DEF MemInv, Contents
  <2>2. fn # "memcmp" => Stored = dst .. dst + n - 1
    BY DEF MemInv, Arguments, Pointers, Stored
  <2>3. fn \in {"memcpy", "memmove"} /\ Undisturbed => mem = Moved(mem0, dst, src, n)
    BY <2>1, <2>2, Zenon DEF MemInv, Contents, Moved
  <2>4. fn = "memset" => mem = Filled(mem0, dst, n, chr)
    BY <2>1, <2>2 DEF MemInv, Contents, Filled
  <2>5. fn \in MemFunctions
    BY DEF MemInv, Arguments
  <2> QED
    BY <2>3, <2>4, <2>5 DEF MoveExact, Done, Undisturbed, MemFunctions
<1> QED
  BY MemInvariance, <1>1, PTL

\* At every step the four functions have read and written only inside the
\* regions they were given.
THEOREM MemInBounds == MemSpec => []InBounds
<1>1. MemInv => InBounds
  <2> SUFFICES ASSUME MemInv PROVE InBounds
    OBVIOUS
  <2>1. Touched /\ fn \in {"memset", "memcpy", "memmove", "memcmp"}
    BY DEF MemInv, Arguments, MemFunctions
  <2> QED
    BY <2>1 DEF Touched, InBounds
<1> QED
  BY MemInvariance, <1>1, PTL

\* memcmp returns the difference of the first bytes that differ, the other
\* three their destination.
THEOREM MemResultExact == MemSpec => []ResultExact
<1>1. MemInv => ResultExact
  <2> SUFFICES ASSUME MemInv, loop = "done" PROVE result = Expected
    BY DEF ResultExact
  <2>1. fn \in {"memset", "memcpy", "memmove", "memcmp"}
    BY DEF MemInv, Arguments, MemFunctions
  <2>2. CASE fn = "memcmp"
    <3>1. Expected = Difference(mem0, dst, src, n)
      BY <2>2 DEF Expected
    <3> QED
      BY <2>2, <3>1 DEF MemInv, Compared
  <2>3. CASE fn # "memcmp"
    <3>1. Expected = dst
      BY <2>1, <2>3 DEF Expected
    <3> QED
      BY <2>3, <3>1 DEF MemInv, Pointers
  <2> QED
    BY <2>2, <2>3
<1> QED
  BY MemInvariance, <1>1, PTL
----------------------------------------------------------------------------
(* The functions of string.c that end at a terminator.                     *)

StrFunctions ==
  {"strlen", "strchr", "strcmp", "strncmp", "strstr", "strcpy", "strncpy", "strcat"}

\* A string of l characters at a, with its terminator inside memory.
IsString(m, a, l) ==
  /\ a \in Nat /\ l \in Nat /\ a + l < MemSize
  /\ m[a + l] = 0 /\ \A x \in 0 .. l - 1 : m[a + x] # 0

\* The bytes f stores from dst on, for strings of t characters at dst and l at src.
Room(f, len, t, l) ==
  CASE f = "strcpy" -> l + 1
    [] f = "strncpy" -> IF l < len THEN len + 1 ELSE len
    [] f = "strcat" -> t + l + 1

\* What f is to be called with: strings where it reads them and room where it
\* writes, apart from the source.
Callable(f, d, s, len, m, t, l) ==
  /\ IsString(m, s, l)
  /\ f \in {"strcmp", "strncmp", "strstr", "strcat"} => IsString(m, d, t)
  /\ f \in {"strcpy", "strncpy", "strcat"} =>
       LET r == Room(f, len, t, l)
       IN  d + r <= MemSize /\ (d + r <= s \/ s + l < d)

StrInit ==
  \E f \in StrFunctions, d, s, len, t, l \in Nat, c \in Int, m \in [Addr -> Int] :
    Callable(f, d, s, len, m, t, l) /\ Call(f, d, s, len, c, m)

StrSpec == StrInit /\ [][StringNext]_stringVars

Target == Length(mem0, dst)

\* The arguments never change.
StrArguments ==
  /\ fn \in StrFunctions
  /\ dst \in Nat /\ src \in Nat /\ n \in Nat /\ chr \in Int /\ mem0 \in [Addr -> Int]
  /\ Callable(fn, dst, src, n, mem0, Target, Source)

\* strlen and strchr are at q and have passed neither the terminator nor chr.
SearchInv ==
  /\ mem = mem0 /\ writes = {} /\ reads \subseteq src .. src + Source
  /\ loop = "first" =>
       /\ q \in src .. src + Source
       /\ fn = "strchr" => \A a \in src .. q - 1 : mem0[a] # chr
  /\ loop = "done" => result = Expected

\* strcmp and strncmp have found x characters equal.
CompareInv ==
  /\ mem = mem0 /\ writes = {}
  /\ reads \subseteq (dst .. dst + Target) \cup (src .. src + Source)
  /\ fn = "strncmp" => \A a \in reads : a \in (dst .. dst + Target) \cap (dst .. dst + n - 1)
                                          \/ a \in (src .. src + Source) \cap (src .. src + n - 1)
  /\ loop = "first" =>
       \E x \in Nat :
         /\ x <= Source /\ x <= Target /\ p = dst + x /\ q = src + x
         /\ fn = "strncmp" => k = n - x /\ (n = 0 \/ x < n)
         /\ \A y \in 0 .. x - 1 : mem0[dst + y] = mem0[src + y]
  /\ loop = "done" => result = Expected

\* The string at src begins with what is found at a.
Matches(a) == \A x \in 0 .. Source - 1 : mem0[a + x] = mem0[src + x]

\* strstr has found no match before p, and k characters equal at p.
StrstrInv ==
  /\ mem = mem0 /\ writes = {}
  /\ reads \subseteq (dst .. dst + Target) \cup (src .. src + Source)
  /\ loop = "first" =>
       /\ p \in Nat /\ dst <= p /\ q = src /\ k \in 0 .. Source /\ p + k <= dst + Target
       /\ \A x \in 0 .. k - 1 : mem0[p + x] = mem0[src + x]
       /\ \A a \in dst .. p - 1 : ~ Matches(a)
  /\ loop = "done" => result = Expected

\* Memory with the first x characters of the source at d.
CopiedTo(d, x) ==
  /\ mem \in [Addr -> Int]
  /\ \A a \in Addr : mem[a] = IF a \in d .. d + x - 1 THEN mem0[src + (a - d)] ELSE mem0[a]

\* strcpy has copied x characters.
CopyInv ==
  /\ reads \subseteq src .. src + Source /\ writes \subseteq dst .. dst + Source
  /\ loop = "first" =>
       \E x \in 0 .. Source : p = dst + x /\ q = src + x /\ CopiedTo(dst, x)
  /\ loop = "done" => result = dst /\ CopiedTo(dst, Source + 1)

\* strcat is at the end of its first argument, or has copied x characters there.
CatInv ==
  /\ reads \subseteq (dst .. dst + Target) \cup (src .. src + Source)
  /\ writes \subseteq dst + Target .. dst + Target + Source
  /\ loop = "first" => p \in dst .. dst + Target /\ q = src /\ mem = mem0
  /\ loop = "copy" =>
       \E x \in 0 .. Source :
         p = dst + Target + x /\ q = src + x /\ CopiedTo(dst + Target, x)
  /\ loop = "done" => result = dst /\ CopiedTo(dst + Target, Source + 1)

\* Memory with the source at dst and zeros behind it, up to the byte at dst + y.
PaddedTo(y) ==
  /\ mem \in [Addr -> Int]
  /\ \A a \in Addr : mem[a] = IF a \in dst .. dst + Source - 1 THEN mem0[src + (a - dst)]
                              ELSE IF a \in dst + Source .. dst + y - 1 THEN 0 ELSE mem0[a]

\* strncpy has copied x characters, and counted them, or stored y characters, and
\* not counted the terminator.
NCopyInv ==
  /\ reads \subseteq (src .. src + Source) \cap (src .. src + n - 1)
  /\ writes \subseteq dst .. dst + n
  /\ loop = "first" =>
       \E x \in 0 .. Source :
         x <= n /\ k = n - x /\ p = dst + x /\ q = src + x /\ CopiedTo(dst, x)
  /\ loop = "pad" =>
       /\ Source < n
       /\ \E y \in Source + 1 .. n + 1 : k = n + 1 - y /\ p = dst + y /\ PaddedTo(y)
  /\ loop = "done" =>
       /\ result = dst
       /\ IF Source >= n THEN CopiedTo(dst, n) ELSE PaddedTo(n + 1)

\* The inductive invariant.
StrInv ==
  /\ StrArguments
  /\ loop \in {"first", "copy", "pad", "done"}
  /\ loop = "copy" => fn = "strcat"
  /\ loop = "pad" => fn = "strncpy"
  /\ fn \in {"strlen", "strchr"} => SearchInv
  /\ fn \in {"strcmp", "strncmp"} => CompareInv
  /\ fn = "strstr" => StrstrInv
  /\ fn = "strcpy" => CopyInv
  /\ fn = "strcat" => CatInv
  /\ fn = "strncpy" => NCopyInv

\* The length of a string is where its terminator is.
LEMMA LengthIs ==
  ASSUME NEW m, NEW a, NEW l, IsString(m, a, l)
  PROVE  Length(m, a) = l
<1> DEFINE Q(x) == m[a + x] = 0 /\ \A y \in 0 .. x - 1 : m[a + y] # 0
<1>1. l \in 0 .. MemSize - 1 /\ Q(l)
  BY StringConstants DEF IsString
<1>2. \A x \in 0 .. MemSize - 1 : Q(x) => x = l
  <2> SUFFICES ASSUME NEW x \in 0 .. MemSize - 1, Q(x), x # l PROVE FALSE
    OBVIOUS
  <2>1. CASE x < l
    <3>1. x \in 0 .. l - 1
      BY <1>1, <2>1
    <3> QED BY <1>1, <3>1
  <2>2. CASE l < x
    <3>1. l \in 0 .. x - 1
      BY <1>1, <2>2
    <3> QED BY <1>1, <3>1
  <2>3. x \in Int /\ l \in Int
    BY <1>1
  <2> QED BY <2>1, <2>2, <2>3
<1> HIDE DEF Q
<1>3. \A x \in 0 .. MemSize - 1 : Q(x) <=> x = l
  BY <1>1, <1>2
<1>4. (CHOOSE x \in 0 .. MemSize - 1 : Q(x)) = l
  BY <1>1, <1>3
<1> QED BY <1>4 DEF Length, Q

\* The places of a string: none but the last holds a terminator.
LEMMA InString ==
  ASSUME NEW m \in [Addr -> Int], NEW a, NEW l, IsString(m, a, l),
         NEW b \in a .. a + l
  PROVE  /\ b \in Addr /\ m[b] \in Int /\ (m[b] = 0 <=> b = a + l)
         /\ a \in Nat /\ l \in Nat /\ b \in Nat
<1>1. a \in Nat /\ l \in Nat /\ b \in Nat /\ MemSize \in Nat /\ a + l < MemSize
  BY StringConstants DEF IsString
<1>2. b \in Addr
  BY <1>1 DEF Addr
<1>3. CASE b = a + l
  BY <1>1, <1>2, <1>3 DEF IsString
<1>4. CASE b # a + l
  <2>1. b - a \in 0 .. l - 1 /\ a + (b - a) = b
    BY <1>1, <1>4
  <2>2. m[a + (b - a)] # 0
    BY <2>1 DEF IsString
  <2> QED BY <1>1, <1>2, <1>4, <2>1, <2>2
<1> QED BY <1>3, <1>4

\* A call establishes the invariant.
LEMMA InitStrInv == StrInit => StrInv
<1> SUFFICES ASSUME NEW f \in StrFunctions, NEW d \in Nat, NEW s \in Nat, NEW len \in Nat,
                    NEW t \in Nat, NEW l \in Nat, NEW c \in Int, NEW m \in [Addr -> Int],
                    Callable(f, d, s, len, m, t, l), Call(f, d, s, len, c, m)
             PROVE  StrInv
  BY Zenon DEF StrInit
<1>1. /\ fn = f /\ dst = d /\ src = s /\ n = len /\ chr = c /\ mem0 = m /\ mem = m
      /\ loop = "first" /\ reads = {} /\ writes = {}
  BY DEF Call
<1>2. p = dst /\ q = src
  BY <1>1 DEF Call, StrFunctions
<1>3. k = IF f = "strstr" THEN 0 ELSE n
  BY <1>1 DEF Call, StrFunctions
<1>4. Source = l
  BY <1>1, LengthIs DEF Callable, Source
<1>5. f \in {"strcmp", "strncmp", "strstr", "strcat"} => Target = t
  BY <1>1, LengthIs DEF Callable, Target
<1>6. Callable(f, d, s, len, m, Target, l)
  <2>1. CASE f \in {"strcmp", "strncmp", "strstr", "strcat"}
    BY <1>5, <2>1
  <2>2. CASE f \notin {"strcmp", "strncmp", "strstr", "strcat"}
    BY <2>2 DEF Callable, Room
  <2> QED BY <2>1, <2>2
<1>7. StrArguments
  BY <1>1, <1>4, <1>6 DEF StrArguments
<1>8. fn \in {"strcmp", "strncmp", "strstr", "strcat"} => Target \in Nat
  BY <1>1, <1>5
<1>9. ASSUME fn \in {"strlen", "strchr"} PROVE SearchInv
  BY <1>1, <1>2, <1>4 DEF SearchInv
<1>10. ASSUME fn \in {"strcmp", "strncmp"} PROVE CompareInv
  <2>1. /\ 0 <= Source /\ 0 <= Target /\ p = dst + 0 /\ q = src + 0
        /\ fn = "strncmp" => k = n - 0 /\ (n = 0 \/ 0 < n)
        /\ \A y \in 0 .. 0 - 1 : mem0[dst + y] = mem0[src + y]
    BY <1>1, <1>2, <1>3, <1>4, <1>8, <1>10
  <2> QED BY <1>1, <2>1 DEF CompareInv
<1>11. ASSUME fn = "strstr" PROVE StrstrInv
  BY <1>1, <1>2, <1>3, <1>4, <1>8, <1>11 DEF StrstrInv
<1>12. ASSUME NEW b \in Nat PROVE CopiedTo(b, 0)
  BY <1>1 DEF CopiedTo
<1>13. ASSUME fn = "strcpy" PROVE CopyInv
  <2>1. 0 \in 0 .. Source /\ p = dst + 0 /\ q = src + 0 /\ CopiedTo(dst, 0)
    BY <1>1, <1>2, <1>4, <1>12
  <2> QED BY <1>1, <2>1 DEF CopyInv
<1>14. ASSUME fn = "strcat" PROVE CatInv
  BY <1>1, <1>2, <1>8, <1>14 DEF CatInv
<1>15. ASSUME fn = "strncpy" PROVE NCopyInv
  <2>1. /\ 0 \in 0 .. Source /\ p = dst + 0 /\ q = src + 0 /\ CopiedTo(dst, 0)
        /\ 0 <= n /\ k = n - 0
    BY <1>1, <1>2, <1>3, <1>4, <1>12, <1>15
  <2> QED BY <1>1, <2>1 DEF NCopyInv
<1> QED
  BY <1>1, <1>7, <1>9, <1>10, <1>11, <1>13, <1>14, <1>15, Zenon DEF StrInv

\* Unchanged arguments keep what they were called with.
LEMMA StrArgumentsSame ==
  ASSUME StrArguments, UNCHANGED args
  PROVE  /\ StrArguments' /\ Source' = Source /\ Target' = Target
         /\ UNCHANGED <<fn, dst, src, n, chr, mem0>> /\ Expected' = Expected
<1>1. UNCHANGED <<fn, dst, src, n, chr, mem0>>
  BY DEF args
<1>2. Source' = Source /\ Target' = Target
  BY <1>1, Zenon DEF Source, Target
<1>3. Expected' = Expected
  BY <1>1, <1>2, Zenon DEF Expected
<1>4. StrArguments'
  BY <1>1, <1>2 DEF StrArguments, Callable
<1> QED BY <1>1, <1>2, <1>3, <1>4

\* The least element of a set.
LEMMA FirstIs ==
  ASSUME NEW S \in SUBSET Int, NEW x \in S, \A y \in S : x <= y
  PROVE  First(S) = x
<1> DEFINE Q(z) == \A y \in S : z <= y
<1>1. \A z \in S : Q(z) <=> z = x
  OBVIOUS
<1> HIDE DEF Q
<1>2. (CHOOSE z \in S : Q(z)) = x
  BY <1>1
<1> QED BY <1>2 DEF First, Q

\* A step of strlen or strchr.
LEMMA SearchStep ==
  ASSUME StrArguments, SearchInv, UNCHANGED args, strlen \/ strchr
  PROVE  SearchInv' /\ loop' \in {"first", "done"}
<1>1. /\ UNCHANGED <<fn, dst, src, n, chr, mem0>> /\ Source' = Source
      /\ Expected' = Expected
  BY StrArgumentsSame
<1>2. PICK l \in Nat : l = Source /\ IsString(mem0, src, l)
  BY DEF StrArguments, Callable, IsString
<1>3. /\ loop = "first" /\ mem = mem0 /\ reads \subseteq src .. src + l /\ writes = {}
      /\ q \in src .. src + l /\ (fn = "strchr" => \A a \in src .. q - 1 : mem0[a] # chr)
  <2>1. loop = "first"
    BY Zenon DEF strlen, strchr, In
  <2> QED BY <1>2, <2>1 DEF SearchInv
<1>4. /\ q \in Addr /\ mem0[q] \in Int /\ (mem0[q] = 0 <=> q = src + l)
      /\ q \in Nat /\ src \in Nat
  <2>1. mem0 \in [Addr -> Int]
    BY DEF StrArguments
  <2> QED BY <1>2, <1>3, <2>1, InString
<1>5. mem' = mem0' /\ writes' = {} /\ reads' = reads \cup {q} /\ reads' \subseteq src' .. src' + Source'
  <2>1. Read({q})
    BY Zenon DEF strlen, strchr
  <2> QED BY <1>1, <1>2, <1>3, <2>1 DEF Read
<1>6. CASE strlen
  <2>1. fn = "strlen"
    BY <1>6 DEF strlen, In
  <2>2. CASE mem0[q] # 0
    <3>1. loop' = loop /\ q' = q + 1
      BY <1>3, <1>4, <1>6, <2>2 DEF strlen, Move
    <3>2. q' \in src .. src + l
      BY <1>2, <1>3, <1>4, <2>2, <3>1
    <3> QED BY <1>1, <1>2, <1>3, <1>5, <2>1, <3>1, <3>2 DEF SearchInv
  <2>3. CASE mem0[q] = 0
    <3>1. loop' = "done" /\ result' = l
      BY <1>2, <1>3, <1>4, <1>6, <2>3 DEF strlen, Return
    <3>2. Expected = Source
      BY <2>1 DEF Expected
    <3> QED BY <1>1, <1>2, <1>5, <3>1, <3>2 DEF SearchInv
  <2> QED BY <2>2, <2>3
<1>7. CASE strchr
  <2> DEFINE S == {a \in src .. src + Source : mem0[a] = chr}
  <2>1. fn = "strchr"
    BY <1>7 DEF strchr, In
  <2>2. Expected = First(S)
    BY <2>1 DEF Expected
  <2>3. CASE mem0[q] # 0 /\ mem0[q] # chr
    <3>1. Move(0, 1, 0)
      BY <1>3, <1>7, <2>3, Zenon DEF strchr
    <3>2. loop' = loop /\ q' = q + 1
      BY <3>1 DEF Move
    <3>3. q' \in src .. src + l /\ \A a \in src .. q' - 1 : mem0[a] # chr
      BY <1>2, <1>3, <1>4, <2>1, <2>3, <3>2
    <3> QED BY <1>1, <1>2, <1>3, <1>5, <3>2, <3>3 DEF SearchInv
  <2>4. CASE mem0[q] = chr
    <3>1. loop' = "done" /\ result' = q
      <4>1. CASE mem0[q] = 0
        <5>1. Return(IF chr = 0 THEN q ELSE NULL) /\ chr = 0
          BY <1>3, <1>7, <2>4, <4>1, Zenon DEF strchr
        <5> QED BY <5>1 DEF Return
      <4>2. CASE mem0[q] # 0
        <5>1. Return(q)
          BY <1>3, <1>7, <2>4, <4>2, Zenon DEF strchr
        <5> QED BY <5>1 DEF Return
      <4> QED BY <4>1, <4>2
    <3>2. q \in S /\ S \in SUBSET Int /\ \A a \in S : q <= a
      BY <1>2, <1>3, <1>4, <2>1, <2>4
    <3> HIDE DEF S
    <3>3. First(S) = q
      BY <3>2, FirstIs
    <3> QED BY <1>1, <1>5, <2>2, <3>1, <3>3 DEF SearchInv
  <2>5. CASE mem0[q] = 0 /\ chr # 0
    <3>1. loop' = "done" /\ result' = NULL
      BY <1>3, <1>4, <1>7, <2>5 DEF strchr, Return
    <3>2. S = {}
      BY <1>2, <1>3, <1>4, <2>1, <2>5
    <3>3. First(S) = NULL
      BY <3>2 DEF First
    <3> QED BY <1>1, <1>5, <2>2, <3>1, <3>3 DEF SearchInv
  <2> QED BY <2>3, <2>4, <2>5
<1> QED BY <1>6, <1>7

\* A step of strcmp or strncmp.
LEMMA CompareStep ==
  ASSUME StrArguments, CompareInv, UNCHANGED args, strcmp \/ strncmp
  PROVE  CompareInv' /\ loop' \in {"first", "done"}
<1>1. /\ UNCHANGED <<fn, dst, src, n, chr, mem0>> /\ Source' = Source /\ Target' = Target
      /\ Expected' = Expected
  BY StrArgumentsSame
<1>2. fn \in {"strcmp", "strncmp"} /\ loop = "first"
  BY Zenon DEF strcmp, strncmp, In
<1>3. PICK l \in Nat : l = Source /\ IsString(mem0, src, l)
  BY DEF StrArguments, Callable, IsString
<1>4. PICK t \in Nat : t = Target /\ IsString(mem0, dst, t)
  <2>1. IsString(mem0, dst, Target)
    BY <1>2, Zenon DEF StrArguments, Callable
  <2> QED BY <2>1 DEF IsString
<1>5. /\ dst \in Nat /\ src \in Nat /\ n \in Nat /\ mem0 \in [Addr -> Int] /\ mem = mem0
      /\ writes = {}
  BY DEF StrArguments, CompareInv
<1>6. PICK x \in Nat :
        /\ x <= l /\ x <= t /\ p = dst + x /\ q = src + x
        /\ fn = "strncmp" => k = n - x /\ (n = 0 \/ x < n)
        /\ \A y \in 0 .. x - 1 : mem0[dst + y] = mem0[src + y]
  BY <1>2, <1>3, <1>4 DEF CompareInv
<1>7. /\ p \in dst .. dst + t /\ mem0[p] \in Int /\ (mem0[p] = 0 <=> x = t)
      /\ q \in src .. src + l /\ mem0[q] \in Int /\ (mem0[q] = 0 <=> x = l)
  <2>1. p \in dst .. dst + t /\ q \in src .. src + l
    BY <1>5, <1>6
  <2>2. mem0[p] \in Int /\ (mem0[p] = 0 <=> p = dst + t)
    BY <1>4, <1>5, <2>1, InString
  <2>3. mem0[q] \in Int /\ (mem0[q] = 0 <=> q = src + l)
    BY <1>3, <1>5, <2>1, InString
  <2> QED BY <1>5, <1>6, <2>1, <2>2, <2>3
\* The characters compared, and those strncmp is to compare.
<1> DEFINE len == IF fn = "strcmp" THEN l + 1 ELSE Least(n, l + 1)
<1>8. Expected = Difference(mem0, dst, src, len) /\ len \in Nat
  <2>1. Least(n, l + 1) \in Nat
    BY <1>5 DEF Least
  <2> QED BY <1>2, <1>3, <2>1 DEF Expected
<1>9. UNCHANGED <<mem, writes>>
  BY Zenon DEF strcmp, strncmp, Read
<1>10. CASE fn = "strncmp" /\ n = 0
  <2>1. Read({}) /\ Return(0)
    BY <1>10, Zenon DEF strcmp, strncmp, In
  <2>2. reads' = reads /\ result' = 0 /\ loop' = "done"
    BY <2>1 DEF Read, Return
  <2>3. Difference(mem0, dst, src, len) = 0
    <3>1. len = 0
      BY <1>10 DEF Least
    <3>2. \A y \in 0 .. len - 1 : mem0[dst + y] = mem0[src + y]
      BY <3>1
    <3> HIDE DEF len
    <3> QED BY <1>8, <3>2, DifferenceNone
  <2> HIDE DEF len
  <2> QED BY <1>1, <1>5, <1>8, <1>9, <2>2, <2>3 DEF CompareInv
<1>11. CASE ~ (fn = "strncmp" /\ n = 0)
  <2>1. /\ reads' = reads \cup {p, q}
        /\ IF (fn = "strncmp" => k - 1 > 0) /\ mem0[p] # 0 /\ mem0[p] = mem0[q]
           THEN p' = p + 1 /\ q' = q + 1 /\ k' = k + (IF fn = "strcmp" THEN 0 ELSE -1) /\ loop' = loop
           ELSE result' = mem0[p] - mem0[q] /\ loop' = "done"
    <3>1. CASE strcmp
      <4>1. fn = "strcmp" /\ Read({p, q})
        BY <3>1 DEF strcmp, In
      <4>2. CASE mem0[p] # 0 /\ mem0[p] = mem0[q]
        <5>1. Move(1, 1, 0)
          BY <1>5, <3>1, <4>2 DEF strcmp
        <5> QED BY <4>1, <4>2, <5>1 DEF Read, Move
      <4>3. CASE ~ (mem0[p] # 0 /\ mem0[p] = mem0[q])
        <5>1. Return(mem0[p] - mem0[q])
          BY <1>5, <3>1, <4>3 DEF strcmp
        <5> QED BY <4>1, <4>3, <5>1 DEF Read, Return
      <4> QED BY <4>2, <4>3
    <3>2. CASE strncmp
      <4>1. fn = "strncmp" /\ Read({p, q})
        BY <1>11, <3>2 DEF strncmp, In
      <4>2. CASE k - 1 > 0 /\ mem0[p] # 0 /\ mem0[p] = mem0[q]
        <5>1. Move(1, 1, -1)
          BY <1>5, <1>11, <3>2, <4>1, <4>2 DEF strncmp
        <5> QED BY <4>1, <4>2, <5>1 DEF Read, Move
      <4>3. CASE ~ (k - 1 > 0 /\ mem0[p] # 0 /\ mem0[p] = mem0[q])
        <5>1. Return(mem0[p] - mem0[q])
          BY <1>5, <1>11, <3>2, <4>1, <4>3 DEF strncmp
        <5> QED BY <4>1, <4>3, <5>1 DEF Read, Return
      <4> QED BY <4>2, <4>3
    <3> QED BY <3>1, <3>2
  <2>2. /\ reads' \subseteq (dst .. dst + t) \cup (src .. src + l)
        /\ fn = "strncmp" => \A a \in reads' : a \in (dst .. dst + t) \cap (dst .. dst + n - 1)
                                                 \/ a \in (src .. src + l) \cap (src .. src + n - 1)
    <3>1. reads \subseteq (dst .. dst + t) \cup (src .. src + l)
      BY <1>3, <1>4 DEF CompareInv
    <3>2. ASSUME fn = "strncmp"
          PROVE  /\ p \in dst .. dst + n - 1 /\ q \in src .. src + n - 1
                 /\ \A a \in reads : a \in (dst .. dst + t) \cap (dst .. dst + n - 1)
                                       \/ a \in (src .. src + l) \cap (src .. src + n - 1)
      BY <1>3, <1>4, <1>5, <1>6, <1>11, <3>2 DEF CompareInv
    <3> QED BY <1>7, <2>1, <3>1, <3>2, Zenon
  <2>3. CASE (fn = "strncmp" => k - 1 > 0) /\ mem0[p] # 0 /\ mem0[p] = mem0[q]
    <3>1. /\ x + 1 \in Nat /\ x + 1 <= l /\ x + 1 <= t /\ p' = dst + (x + 1) /\ q' = src + (x + 1)
          /\ fn = "strncmp" => k' = n - (x + 1) /\ (n = 0 \/ x + 1 < n)
      BY <1>5, <1>6, <1>7, <2>1, <2>3
    <3>2. \A y \in 0 .. (x + 1) - 1 : mem0[dst + y] = mem0[src + y]
      BY <1>6, <2>3
    <3>3. loop' = "first"
      BY <1>2, <2>1, <2>3
    <3> HIDE DEF len
    <3> QED BY <1>1, <1>3, <1>4, <1>5, <1>9, <2>2, <3>1, <3>2, <3>3 DEF CompareInv
  <2>4. CASE ~ ((fn = "strncmp" => k - 1 > 0) /\ mem0[p] # 0 /\ mem0[p] = mem0[q])
    <3>1. result' = mem0[p] - mem0[q] /\ loop' = "done"
      BY <2>1, <2>4
    <3>2. Difference(mem0, dst, src, len) = mem0[p] - mem0[q]
      <4>1. x \in 0 .. len - 1
        BY <1>2, <1>5, <1>6, <1>11 DEF Least
      <4>2. CASE mem0[p] # mem0[q]
        <5> HIDE DEF len
        <5> QED BY <1>6, <1>8, <4>1, <4>2, DifferenceAt
      <4>3. CASE mem0[p] = mem0[q]
        <5>1. mem0[p] = 0 \/ (fn = "strncmp" /\ k - 1 <= 0)
          BY <1>5, <1>6, <2>4, <4>3
        <5>2. len - 1 <= x
          BY <1>2, <1>5, <1>6, <1>7, <1>11, <4>3, <5>1 DEF Least
        <5>3. \A y \in 0 .. len - 1 : mem0[dst + y] = mem0[src + y]
          <6> HIDE DEF len
          <6> QED BY <1>6, <1>8, <4>3, <5>2
        <5> HIDE DEF len
        <5>4. Difference(mem0, dst, src, len) = 0
          BY <1>8, <5>3, DifferenceNone
        <5> QED BY <1>7, <4>3, <5>4
      <4> QED BY <4>2, <4>3
    <3> HIDE DEF len
    <3> QED BY <1>1, <1>3, <1>4, <1>5, <1>8, <1>9, <2>2, <3>1, <3>2 DEF CompareInv
  <2> QED BY <2>3, <2>4
<1> QED BY <1>10, <1>11

\* A step of strstr.
LEMMA StrstrStep ==
  ASSUME StrArguments, StrstrInv, UNCHANGED args, strstr
  PROVE  StrstrInv' /\ loop' \in {"first", "done"}
<1>1. /\ UNCHANGED <<fn, dst, src, n, chr, mem0>> /\ Source' = Source /\ Target' = Target
      /\ Expected' = Expected
  BY StrArgumentsSame
<1>2. fn = "strstr" /\ loop = "first"
  BY Zenon DEF strstr, In
<1>3. PICK l \in Nat : l = Source /\ IsString(mem0, src, l)
  BY DEF StrArguments, Callable, IsString
<1>4. PICK t \in Nat : t = Target /\ IsString(mem0, dst, t)
  <2>1. IsString(mem0, dst, Target)
    BY <1>2, Zenon DEF StrArguments, Callable
  <2> QED BY <2>1 DEF IsString
<1>5. dst \in Nat /\ src \in Nat /\ mem0 \in [Addr -> Int] /\ mem = mem0 /\ writes = {}
  BY DEF StrArguments, StrstrInv
<1>6. /\ p \in Nat /\ dst <= p /\ q = src /\ k \in 0 .. l /\ p + k <= dst + t
      /\ \A x \in 0 .. k - 1 : mem0[p + x] = mem0[src + x]
      /\ \A a \in dst .. p - 1 : ~ Matches(a)
  BY <1>2, <1>3, <1>4 DEF StrstrInv
<1>7. /\ p + k \in dst .. dst + t /\ mem0[p + k] \in Int /\ (mem0[p + k] = 0 <=> p + k = dst + t)
      /\ q + k \in src .. src + l /\ mem0[q + k] \in Int /\ (mem0[q + k] = 0 <=> k = l)
  <2>1. p + k \in dst .. dst + t /\ q + k \in src .. src + l
    BY <1>5, <1>6
  <2>2. mem0[p + k] \in Int /\ (mem0[p + k] = 0 <=> p + k = dst + t)
    BY <1>4, <1>5, <2>1, InString
  <2>3. mem0[q + k] \in Int /\ (mem0[q + k] = 0 <=> q + k = src + l)
    BY <1>3, <1>5, <2>1, InString
  <2> QED BY <1>5, <1>6, <2>1, <2>2, <2>3
<1>8. p + 0 = p /\ q + 0 = q
  BY <1>5, <1>6
<1> DEFINE S == {a \in dst .. dst + Target : Matches(a)}
<1>9. Expected = First(S)
  BY <1>2 DEF Expected, Matches, Target
<1>10. /\ UNCHANGED <<mem, writes>> /\ reads' \subseteq (dst .. dst + t) \cup (src .. src + l)
  <2>1. Read({p + k, q + k})
    BY DEF strstr
  <2>2. reads \subseteq (dst .. dst + t) \cup (src .. src + l)
    BY <1>3, <1>4 DEF StrstrInv
  <2>3. reads' = reads \cup {p + k, q + k} /\ UNCHANGED <<mem, writes>>
    BY <2>1 DEF Read
  <2> QED BY <1>7, <2>2, <2>3, Zenon
<1>11. CASE k = 0 /\ mem0[q] # 0 /\ mem0[p] = 0
  <2>1. Return(NULL)
    BY <1>5, <1>8, <1>11, Zenon DEF strstr
  <2>2. S = {}
    <3>1. p = dst + t /\ l > 0
      BY <1>5, <1>6, <1>7, <1>8, <1>11
    <3>2. ASSUME Matches(p) PROVE FALSE
      <4>1. mem0[p + 0] = mem0[src + 0]
        BY <1>3, <3>1, <3>2 DEF Matches
      <4> QED BY <1>6, <1>8, <1>11, <4>1
    <3>3. ASSUME NEW a \in S PROVE FALSE
      <4>1. a \in dst .. p - 1 \/ a = p
        BY <1>4, <1>5, <3>1, <3>3
      <4> QED BY <1>6, <3>2, <4>1, Zenon
    <3> QED BY <3>3, Zenon
  <2>3. First(S) = NULL
    BY <2>2 DEF First
  <2>4. result' = NULL /\ loop' = "done"
    BY <2>1 DEF Return
  <2> HIDE DEF S
  <2> QED BY <1>1, <1>3, <1>4, <1>5, <1>9, <1>10, <2>3, <2>4 DEF StrstrInv
<1>12. CASE mem0[q + k] = 0
  <2>1. Return(p)
    <3>1. ~ (k = 0 /\ mem0[q] # 0)
      BY <1>8, <1>12
    <3> QED BY <1>5, <1>12, <3>1, Zenon DEF strstr
  <2>2. p \in S
    <3>1. Matches(p)
      BY <1>3, <1>6, <1>7, <1>12 DEF Matches
    <3>2. p \in dst .. dst + t
      BY <1>5, <1>6
    <3> QED BY <1>4, <3>1, <3>2
  <2>3. \A a \in S : p <= a
    BY <1>5, <1>6
  <2>4. S \in SUBSET Int
    BY <1>4, <1>5
  <2> HIDE DEF S
  <2>5. First(S) = p
    BY <2>2, <2>3, <2>4, FirstIs
  <2>6. result' = p /\ loop' = "done"
    BY <2>1 DEF Return
  <2> QED BY <1>1, <1>3, <1>4, <1>5, <1>9, <1>10, <2>5, <2>6 DEF StrstrInv
<1>13. CASE mem0[q + k] # 0 /\ mem0[p + k] = mem0[q + k]
  <2>1. Move(0, 0, 1)
    <3>1. ~ (k = 0 /\ mem0[q] # 0 /\ mem0[p] = 0) /\ mem0[p + k] # 0
      BY <1>8, <1>13
    <3> QED BY <1>5, <1>13, <3>1, Zenon DEF strstr
  <2>2. p' = p /\ q' = q /\ k' = k + 1 /\ loop' = "first"
    BY <1>2, <1>5, <1>6, <2>1 DEF Move
  <2>3. k' \in 0 .. l /\ p' + k' <= dst + t
    BY <1>5, <1>6, <1>7, <1>13, <2>2
  <2>4. \A x \in 0 .. k' - 1 : mem0[p' + x] = mem0[src + x]
    BY <1>6, <1>13, <2>2
  <2>5. \A a \in dst .. p' - 1 : ~ Matches(a)'
    BY <1>1, <1>6, <2>2, Zenon DEF Matches
  <2> HIDE DEF S
  <2> QED BY <1>1, <1>3, <1>4, <1>5, <1>6, <1>10, <2>2, <2>3, <2>4, <2>5 DEF StrstrInv
<1>14. CASE /\ mem0[q + k] # 0 /\ mem0[p + k] # mem0[q + k]
            /\ ~ (k = 0 /\ mem0[q] # 0 /\ mem0[p] = 0)
  <2>1. Move(1, 0, -k)
    BY <1>5, <1>14, Zenon DEF strstr
  <2>2. p' = p + 1 /\ q' = q /\ k' = 0 /\ loop' = "first"
    BY <1>2, <1>5, <1>6, <2>1 DEF Move
  <2>3. k < l /\ p < dst + t
    <3>1. k < l
      BY <1>6, <1>7, <1>14
    <3>2. CASE k = 0
      BY <1>5, <1>6, <1>7, <1>8, <1>14, <3>1, <3>2
    <3>3. CASE k # 0
      BY <1>5, <1>6, <3>1, <3>3
    <3> QED BY <3>1, <3>2, <3>3
  <2>4. ~ Matches(p)
    <3>1. k \in 0 .. Source - 1
      BY <1>3, <1>6, <2>3
    <3> QED BY <1>6, <1>14, <3>1 DEF Matches
  <2>5. ASSUME NEW a \in dst .. p' - 1 PROVE ~ Matches(a)'
    <3>1. a \in dst .. p - 1 \/ a = p
      BY <1>5, <1>6, <2>2
    <3>2. ~ Matches(a)
      BY <1>6, <2>4, <3>1, Zenon
    <3> QED BY <1>1, <3>2, Zenon DEF Matches
  <2>6. /\ p' \in Nat /\ dst <= p' /\ k' \in 0 .. l /\ p' + k' <= dst + t
        /\ \A x \in 0 .. k' - 1 : mem0[p' + x] = mem0[src + x]
    BY <1>5, <1>6, <2>2, <2>3
  <2> HIDE DEF S
  <2> QED BY <1>1, <1>3, <1>4, <1>5, <1>6, <1>10, <2>2, <2>5, <2>6 DEF StrstrInv
<1> QED BY <1>11, <1>12, <1>13, <1>14, Zenon

\* One character more is copied: the source is intact, being apart.
LEMMA CopyOne ==
  ASSUME StrArguments, Copy, NEW d \in Nat, NEW x \in Nat, x <= Source, CopiedTo(d, x),
         d + x < MemSize, d + x < src \/ src + Source < d, p = d + x, q = src + x
  PROVE  /\ mem[q] = mem0[q] /\ (mem0[q] = 0 <=> x = Source)
         /\ mem' \in [Addr -> Int]
         /\ \A a \in Addr : mem'[a] = IF a \in d .. d + (x + 1) - 1 THEN mem0[src + (a - d)]
                                      ELSE mem0[a]
         /\ reads' = reads \cup {q} /\ q \in src .. src + Source
         /\ writes' = writes \cup {p}
<1>1. PICK l \in Nat : l = Source /\ IsString(mem0, src, l)
  BY DEF StrArguments, Callable, IsString
<1>2. /\ src \in Nat /\ mem0 \in [Addr -> Int] /\ mem \in [Addr -> Int] /\ MemSize \in Nat
      /\ \A a \in Addr : mem[a] = IF a \in d .. d + x - 1 THEN mem0[src + (a - d)] ELSE mem0[a]
  BY StringConstants DEF StrArguments, CopiedTo
<1>3. q \in src .. src + l /\ q \notin d .. d + x - 1 /\ p \in Addr
  BY <1>1, <1>2 DEF Addr
<1>4. /\ q \in Addr /\ mem0[q] \in Int /\ (mem0[q] = 0 <=> x = l)
  <2>1. q \in Addr /\ mem0[q] \in Int /\ (mem0[q] = 0 <=> q = src + l)
    BY <1>1, <1>2, <1>3, InString
  <2> QED BY <1>1, <1>2, <2>1
<1>5. mem[q] = mem0[q]
  BY <1>2, <1>3, <1>4
<1>6. /\ mem' = [mem EXCEPT ![p] = mem0[q]] /\ writes' = writes \cup {p}
      /\ reads' = reads \cup {q}
  BY <1>5 DEF Copy, Store
<1>7. mem' \in [Addr -> Int] /\ \A a \in Addr : mem'[a] = IF a = p THEN mem0[q] ELSE mem[a]
  BY <1>2, <1>3, <1>4, <1>6
<1>8. ASSUME NEW a \in Addr
      PROVE  mem'[a] = IF a \in d .. d + (x + 1) - 1 THEN mem0[src + (a - d)] ELSE mem0[a]
  <2>1. a \in Int
    BY DEF Addr
  <2>2. CASE a = p
    <3>1. a \in d .. d + (x + 1) - 1 /\ src + (a - d) = q
      BY <1>2, <2>2
    <3> QED BY <1>7, <2>2, <3>1
  <2>3. CASE a # p
    <3>1. a \in d .. d + (x + 1) - 1 <=> a \in d .. d + x - 1
      BY <2>1, <2>3
    <3> QED BY <1>2, <1>7, <2>3, <3>1, Zenon
  <2> QED BY <2>2, <2>3
<1> QED BY <1>1, <1>3, <1>4, <1>5, <1>6, <1>7, <1>8

\* A step of strcpy.
LEMMA StrcpyStep ==
  ASSUME StrArguments, CopyInv, UNCHANGED args, fn = "strcpy", strcpy
  PROVE  CopyInv' /\ loop' \in {"first", "done"}
<1>1. UNCHANGED <<fn, dst, src, n, chr, mem0>> /\ Source' = Source
  BY StrArgumentsSame
<1>2. loop = "first" /\ Copy
  BY Zenon DEF strcpy, In
<1>3. PICK l \in Nat : l = Source
  BY DEF StrArguments, Callable, IsString
<1>4. /\ dst \in Nat /\ src \in Nat /\ MemSize \in Nat /\ dst + (l + 1) <= MemSize
      /\ dst + (l + 1) <= src \/ src + l < dst
  <2>1. Room("strcpy", n, Target, l) = l + 1
    BY DEF Room
  <2> QED BY <1>3, <2>1, StringConstants DEF StrArguments, Callable
<1>5. PICK x \in 0 .. l : p = dst + x /\ q = src + x /\ CopiedTo(dst, x)
  BY <1>2, <1>3 DEF CopyInv
<1>6. x \in Nat /\ x <= Source /\ dst + x < MemSize /\ (dst + x < src \/ src + Source < dst)
  BY <1>3, <1>4, <1>5
<1>7. /\ mem[q] = mem0[q] /\ (mem0[q] = 0 <=> x = l)
      /\ mem' \in [Addr -> Int]
      /\ \A a \in Addr : mem'[a] = IF a \in dst .. dst + (x + 1) - 1 THEN mem0[src + (a - dst)]
                                   ELSE mem0[a]
      /\ reads' = reads \cup {q} /\ q \in src .. src + l
      /\ writes' = writes \cup {p}
  BY <1>2, <1>3, <1>4, <1>5, <1>6, CopyOne
<1>8. CopiedTo(dst, x + 1)'
  BY <1>1, <1>7, Zenon DEF CopiedTo
<1>9. reads' \subseteq src .. src + l /\ writes' \subseteq dst .. dst + l
  <2>1. p \in dst .. dst + l
    BY <1>4, <1>5
  <2>2. reads \subseteq src .. src + l /\ writes \subseteq dst .. dst + l
    BY <1>3 DEF CopyInv
  <2> QED BY <1>7, <2>1, <2>2, Zenon
<1>10. CASE mem0[q] # 0
  <2>1. Move(1, 1, 0)
    BY <1>7, <1>10, Zenon DEF strcpy
  <2>2. p' = dst + (x + 1) /\ q' = src + (x + 1) /\ loop' = "first" /\ x + 1 \in 0 .. l
    BY <1>2, <1>4, <1>5, <1>7, <1>10, <2>1 DEF Move
  <2> QED BY <1>1, <1>3, <1>8, <1>9, <2>2 DEF CopyInv
<1>11. CASE mem0[q] = 0
  <2>1. Return(dst)
    BY <1>7, <1>11, Zenon DEF strcpy
  <2>2. result' = dst /\ loop' = "done" /\ x = l
    BY <1>7, <1>11, <2>1 DEF Return
  <2> QED BY <1>1, <1>3, <1>8, <1>9, <2>2 DEF CopyInv
<1> QED BY <1>10, <1>11

\* A step of strcat, in the loop to the end of its first argument or in the copy.
LEMMA StrcatStep ==
  ASSUME StrArguments, CatInv, UNCHANGED args, fn = "strcat", strcat \/ strcpy
  PROVE  CatInv' /\ loop' \in {"first", "copy", "done"}
<1>1. UNCHANGED <<fn, dst, src, n, chr, mem0>> /\ Source' = Source /\ Target' = Target
  BY StrArgumentsSame
<1>2. PICK l \in Nat : l = Source
  BY DEF StrArguments, Callable, IsString
<1>3. PICK t \in Nat : t = Target /\ IsString(mem0, dst, t)
  <2>1. IsString(mem0, dst, Target)
    BY Zenon DEF StrArguments, Callable
  <2> QED BY <2>1 DEF IsString
<1>4. /\ dst \in Nat /\ src \in Nat /\ MemSize \in Nat /\ dst + (t + l + 1) <= MemSize
      /\ dst + (t + l + 1) <= src \/ src + l < dst
      /\ mem0 \in [Addr -> Int]
  <2>1. Room("strcat", n, t, l) = t + l + 1
    BY DEF Room
  <2> QED BY <1>2, <1>3, <2>1, StringConstants DEF StrArguments, Callable
<1>5. /\ reads \subseteq (dst .. dst + t) \cup (src .. src + l)
      /\ writes \subseteq dst + t .. dst + t + l
  BY <1>2, <1>3 DEF CatInv
<1>6. CASE strcat
  <2>1. loop = "first" /\ Read({p})
    BY <1>6, Zenon DEF strcat, In
  <2>2. p \in dst .. dst + t /\ q = src /\ mem = mem0
    BY <1>3, <2>1 DEF CatInv
  <2>3. mem0[p] = 0 <=> p = dst + t
    BY <1>3, <1>4, <2>2, InString
  <2>4. mem' = mem0 /\ writes' = writes /\ reads' \subseteq (dst .. dst + t) \cup (src .. src + l)
    <3>1. mem' = mem0 /\ writes' = writes /\ reads' = reads \cup {p}
      BY <2>1, <2>2 DEF Read
    <3> QED BY <1>5, <2>2, <3>1, Zenon
  <2>5. CASE mem0[p] # 0
    <3>1. Move(1, 0, 0)
      BY <1>6, <2>2, <2>5, Zenon DEF strcat
    <3>2. p' \in dst .. dst + t /\ q' = src /\ loop' = "first"
      BY <1>4, <2>1, <2>2, <2>3, <2>5, <3>1 DEF Move
    <3> QED BY <1>1, <1>2, <1>3, <1>5, <2>4, <3>2 DEF CatInv
  <2>6. CASE mem0[p] = 0
    <3>1. Goto("copy")
      BY <1>6, <2>2, <2>6, Zenon DEF strcat
    <3>2. p' = dst + t + 0 /\ q' = src + 0 /\ loop' = "copy" /\ 0 \in 0 .. l
      BY <1>4, <2>2, <2>3, <2>6, <3>1 DEF Goto
    <3>3. \A a \in Addr : a \notin dst + t .. dst + t + 0 - 1
      BY <1>4 DEF Addr
    <3>4. CopiedTo(dst + Target, 0)'
      BY <1>1, <1>3, <1>4, <2>4, <3>3, Zenon DEF CopiedTo
    <3> QED BY <1>1, <1>2, <1>3, <1>5, <2>4, <3>2, <3>4 DEF CatInv
  <2> QED BY <2>5, <2>6
<1>7. CASE strcpy
  <2>1. loop = "copy" /\ Copy
    BY <1>7, Zenon DEF strcpy, In
  <2>2. PICK e \in Nat : e = dst + t
    BY <1>4
  <2>3. PICK x \in 0 .. l : p = e + x /\ q = src + x /\ CopiedTo(e, x)
    BY <1>2, <1>3, <2>1, <2>2 DEF CatInv
  <2>4. x \in Nat /\ x <= Source /\ e + x < MemSize /\ (e + x < src \/ src + Source < e)
    BY <1>2, <1>4, <2>2, <2>3
  <2>5. /\ mem[q] = mem0[q] /\ (mem0[q] = 0 <=> x = l)
        /\ mem' \in [Addr -> Int]
        /\ \A a \in Addr : mem'[a] = IF a \in e .. e + (x + 1) - 1 THEN mem0[src + (a - e)]
                                     ELSE mem0[a]
        /\ reads' = reads \cup {q} /\ q \in src .. src + l
        /\ writes' = writes \cup {p}
    BY <1>2, <2>1, <2>2, <2>3, <2>4, CopyOne
  <2>6. CopiedTo(dst + Target, x + 1)'
    BY <1>1, <1>3, <2>2, <2>5, Zenon DEF CopiedTo
  <2>7. /\ reads' \subseteq (dst .. dst + t) \cup (src .. src + l)
        /\ writes' \subseteq dst + t .. dst + t + l
    <3>1. p \in dst + t .. dst + t + l
      BY <1>4, <2>2, <2>3
    <3> QED BY <1>5, <2>5, <3>1, Zenon
  <2>8. CASE mem0[q] # 0
    <3>1. Move(1, 1, 0)
      BY <1>7, <2>5, <2>8, Zenon DEF strcpy
    <3>2. p' = dst + t + (x + 1) /\ q' = src + (x + 1) /\ loop' = "copy" /\ x + 1 \in 0 .. l
      BY <1>4, <2>1, <2>2, <2>3, <2>5, <2>8, <3>1 DEF Move
    <3> QED BY <1>1, <1>2, <1>3, <2>6, <2>7, <3>2 DEF CatInv
  <2>9. CASE mem0[q] = 0
    <3>1. Return(dst)
      BY <1>7, <2>5, <2>9, Zenon DEF strcpy
    <3>2. result' = dst /\ loop' = "done" /\ x = l
      BY <2>5, <2>9, <3>1 DEF Return
    <3> QED BY <1>1, <1>2, <1>3, <2>6, <2>7, <3>2 DEF CatInv
  <2> QED BY <2>8, <2>9
<1> QED BY <1>6, <1>7

\* A step of strncpy, in the copy or in the padding behind a shorter string.
LEMMA StrncpyStep ==
  ASSUME StrArguments, NCopyInv, UNCHANGED args, strncpy
  PROVE  NCopyInv' /\ loop' \in {"first", "pad", "done"}
<1>1. UNCHANGED <<fn, dst, src, n, chr, mem0>> /\ Source' = Source
  BY StrArgumentsSame
<1>2. fn = "strncpy" /\ loop \in {"first", "pad"}
  BY Zenon DEF strncpy, In
<1>3. PICK l \in Nat : l = Source
  BY DEF StrArguments, Callable, IsString
<1>4. /\ dst \in Nat /\ src \in Nat /\ n \in Nat /\ MemSize \in Nat
      /\ dst + (IF l < n THEN n + 1 ELSE n) <= MemSize
      /\ dst + (IF l < n THEN n + 1 ELSE n) <= src \/ src + l < dst
  <2>1. Room("strncpy", n, Target, l) = IF l < n THEN n + 1 ELSE n
    BY DEF Room
  <2> QED BY <1>2, <1>3, <2>1, StringConstants DEF StrArguments, Callable
<1>5. /\ reads \subseteq (src .. src + l) \cap (src .. src + n - 1)
      /\ writes \subseteq dst .. dst + n
  BY <1>3 DEF NCopyInv
<1>6. CASE loop = "first"
  <2>1. PICK x \in 0 .. l :
          x <= n /\ k = n - x /\ p = dst + x /\ q = src + x /\ CopiedTo(dst, x)
    BY <1>3, <1>6 DEF NCopyInv
  <2>2. CASE k = 0
    <3>1. Read({}) /\ Return(dst)
      BY <1>6, <2>2, Zenon DEF strncpy
    <3>2. mem' = mem /\ writes' = writes /\ reads' = reads /\ result' = dst /\ loop' = "done"
      BY <3>1 DEF Read, Return
    <3>3. x = n /\ l >= n
      BY <1>4, <2>1, <2>2
    <3>4. CopiedTo(dst, n)'
      BY <1>1, <2>1, <3>2, <3>3, Zenon DEF CopiedTo
    <3> QED BY <1>1, <1>3, <1>5, <3>2, <3>3, <3>4 DEF NCopyInv
  <2>3. CASE k # 0
    <3>1. Copy
      BY <1>6, <2>3, Zenon DEF strncpy
    <3>2. /\ x \in Nat /\ x < n /\ x <= Source /\ dst + x < MemSize
          /\ (dst + x < src \/ src + Source < dst)
      BY <1>3, <1>4, <2>1, <2>3
    <3>3. /\ mem[q] = mem0[q] /\ (mem0[q] = 0 <=> x = l)
          /\ mem' \in [Addr -> Int]
          /\ \A a \in Addr : mem'[a] = IF a \in dst .. dst + (x + 1) - 1 THEN mem0[src + (a - dst)]
                                       ELSE mem0[a]
          /\ reads' = reads \cup {q} /\ q \in src .. src + l
          /\ writes' = writes \cup {p}
      BY <1>3, <1>4, <2>1, <3>1, <3>2, CopyOne
    <3>4. /\ reads' \subseteq (src .. src + l) \cap (src .. src + n - 1)
          /\ writes' \subseteq dst .. dst + n
      <4>1. q \in src .. src + n - 1 /\ p \in dst .. dst + n
        BY <1>4, <2>1, <3>2
      <4> QED BY <1>5, <3>3, <4>1, Zenon
    <3>5. CASE mem0[q] # 0
      <4>1. Move(1, 1, -1)
        BY <1>6, <2>3, <3>3, <3>5, Zenon DEF strncpy
      <4>2. /\ p' = dst + (x + 1) /\ q' = src + (x + 1) /\ k' = n - (x + 1) /\ loop' = "first"
            /\ x + 1 \in 0 .. l /\ x + 1 <= n
        BY <1>4, <1>6, <2>1, <3>2, <3>3, <3>5, <4>1 DEF Move
      <4>3. CopiedTo(dst, x + 1)'
        BY <1>1, <3>3, Zenon DEF CopiedTo
      <4> QED BY <1>1, <1>3, <3>4, <4>2, <4>3 DEF NCopyInv
    <3>6. CASE mem0[q] = 0
      <4>1. p' = p + 1 /\ q' = q + 1 /\ loop' = "pad" /\ UNCHANGED k
        BY <1>6, <2>3, <3>3, <3>6, Zenon DEF strncpy
      <4>2. x = l
        BY <3>3, <3>6
      <4>3. /\ l < n /\ l + 1 \in Source + 1 .. n + 1 /\ k' = n + 1 - (l + 1) /\ p' = dst + (l + 1)
        BY <1>3, <1>4, <2>1, <3>2, <4>1, <4>2
      <4>4. ASSUME NEW a \in Addr
            PROVE  mem'[a] = IF a \in dst .. dst + l - 1 THEN mem0[src + (a - dst)]
                             ELSE IF a \in dst + l .. dst + (l + 1) - 1 THEN 0 ELSE mem0[a]
        <5>1. a \in Int
          BY DEF Addr
        <5>2. CASE a = dst + l
          <6>1. src + (a - dst) = q /\ a \in dst .. dst + (x + 1) - 1
            BY <1>4, <2>1, <4>2, <5>2
          <6> QED BY <1>4, <3>3, <3>6, <5>2, <6>1
        <5>3. CASE a # dst + l
          <6>1. /\ a \in dst .. dst + (x + 1) - 1 <=> a \in dst .. dst + l - 1
                /\ a \notin dst + l .. dst + (l + 1) - 1
            BY <1>4, <4>2, <5>1, <5>3
          <6> QED BY <3>3, <6>1, Zenon
        <5> QED BY <5>2, <5>3
      <4>5. PaddedTo(l + 1)'
        BY <1>1, <1>3, <3>3, <4>4, Zenon DEF PaddedTo
      <4> QED BY <1>1, <1>3, <3>4, <4>1, <4>3, <4>5 DEF NCopyInv
    <3> QED BY <3>5, <3>6
  <2> QED BY <2>2, <2>3
<1>7. CASE loop = "pad"
  <2>1. PICK y \in l + 1 .. n + 1 : l < n /\ k = n + 1 - y /\ p = dst + y /\ PaddedTo(y)
    BY <1>3, <1>7 DEF NCopyInv
  <2>2. CASE k = 0
    <3>1. Read({}) /\ Return(dst)
      BY <1>7, <2>2, Zenon DEF strncpy, In
    <3>2. mem' = mem /\ writes' = writes /\ reads' = reads /\ result' = dst /\ loop' = "done"
      BY <3>1 DEF Read, Return
    <3>3. y = n + 1 /\ ~ (l >= n)
      BY <1>4, <2>1, <2>2
    <3>4. PaddedTo(n + 1)'
      BY <1>1, <2>1, <3>2, <3>3, Zenon DEF PaddedTo
    <3> QED BY <1>1, <1>3, <1>5, <3>2, <3>3, <3>4 DEF NCopyInv
  <2>3. CASE k # 0
    <3>1. Store(p, 0) /\ UNCHANGED reads /\ Move(1, 0, -1)
      BY <1>7, <2>3, Zenon DEF strncpy, In
    <3>2. y \in Nat /\ y <= n /\ p \in Addr /\ p \in dst .. dst + n
      BY <1>4, <2>1, <2>3 DEF Addr
    <3>3. /\ p' = dst + (y + 1) /\ k' = n + 1 - (y + 1) /\ loop' = "pad"
          /\ y + 1 \in l + 1 .. n + 1
      BY <1>4, <1>7, <2>1, <3>1, <3>2 DEF Move
    <3>4. mem' \in [Addr -> Int] /\ \A a \in Addr : mem'[a] = IF a = p THEN 0 ELSE mem[a]
      BY <2>1, <3>1, <3>2 DEF PaddedTo, Store
    <3>5. ASSUME NEW a \in Addr
          PROVE  mem'[a] = IF a \in dst .. dst + l - 1 THEN mem0[src + (a - dst)]
                           ELSE IF a \in dst + l .. dst + (y + 1) - 1 THEN 0 ELSE mem0[a]
      <4>1. a \in Int
        BY DEF Addr
      <4>2. mem[a] = IF a \in dst .. dst + l - 1 THEN mem0[src + (a - dst)]
                     ELSE IF a \in dst + l .. dst + y - 1 THEN 0 ELSE mem0[a]
        BY <1>3, <2>1 DEF PaddedTo
      <4>3. CASE a = p
        <5>1. a \notin dst .. dst + l - 1 /\ a \in dst + l .. dst + (y + 1) - 1
          BY <1>4, <2>1, <4>3
        <5> QED BY <3>4, <4>3, <5>1
      <4>4. CASE a # p
        <5>1. a \in dst + l .. dst + (y + 1) - 1 <=> a \in dst + l .. dst + y - 1
          BY <1>4, <2>1, <4>1, <4>4
        <5> QED BY <3>4, <4>2, <4>4, <5>1, Zenon
      <4> QED BY <4>3, <4>4
    <3>6. PaddedTo(y + 1)'
      BY <1>1, <1>3, <3>4, <3>5, Zenon DEF PaddedTo
    <3>7. reads' = reads /\ writes' \subseteq dst .. dst + n
      BY <1>5, <3>1, <3>2, Zenon DEF Store
    <3> QED BY <1>1, <1>3, <1>5, <2>1, <3>3, <3>6, <3>7 DEF NCopyInv
  <2> QED BY <2>2, <2>3
<1> QED BY <1>2, <1>6, <1>7

\* Every step preserves the invariant.
LEMMA NextStrInv == StrInv /\ [StringNext]_stringVars => StrInv'
<1> SUFFICES ASSUME StrInv, [StringNext]_stringVars PROVE StrInv'
  OBVIOUS
<1>1. StrArguments /\ fn \in StrFunctions
  BY DEF StrInv, StrArguments
<1>2. CASE StringNext
  <2>1. UNCHANGED args
    BY <1>2, Zenon DEF StringNext, strlen, strchr, strcmp, strncmp, strstr, strcpy, strncpy, strcat,
       memset, memcpy, memmove, memcmp, atol, Move, Return, Goto
  <2>2. StrArguments' /\ fn' = fn
    BY <1>1, <2>1, StrArgumentsSame
  <2>3. CASE fn \in {"strlen", "strchr"}
    <3>1. strlen \/ strchr
      BY <1>2, <2>3, Zenon DEF StringNext, In, strlen, strchr, strcmp, strncmp, strstr, strcpy,
         strncpy, strcat, memset, memcpy, memmove, memcmp, atol
    <3>2. SearchInv' /\ loop' \in {"first", "done"}
      BY <1>1, <2>1, <2>3, <3>1, SearchStep DEF StrInv
    <3> QED BY <2>2, <2>3, <3>2 DEF StrInv
  <2>4. CASE fn \in {"strcmp", "strncmp"}
    <3>1. strcmp \/ strncmp
      BY <1>2, <2>4, Zenon DEF StringNext, In, strlen, strchr, strcmp, strncmp, strstr, strcpy,
         strncpy, strcat, memset, memcpy, memmove, memcmp, atol
    <3>2. CompareInv' /\ loop' \in {"first", "done"}
      BY <1>1, <2>1, <2>4, <3>1, CompareStep DEF StrInv
    <3> QED BY <2>2, <2>4, <3>2 DEF StrInv
  <2>5. CASE fn = "strstr"
    <3>1. strstr
      BY <1>2, <2>5, Zenon DEF StringNext, In, strlen, strchr, strcmp, strncmp, strcpy,
         strncpy, strcat, memset, memcpy, memmove, memcmp, atol
    <3>2. StrstrInv' /\ loop' \in {"first", "done"}
      BY <1>1, <2>1, <2>5, <3>1, StrstrStep DEF StrInv
    <3> QED BY <2>2, <2>5, <3>2 DEF StrInv
  <2>6. CASE fn = "strcpy"
    <3>1. strcpy
      BY <1>2, <2>6, Zenon DEF StringNext, In, strlen, strchr, strcmp, strncmp, strstr,
         strncpy, strcat, memset, memcpy, memmove, memcmp, atol
    <3>2. CopyInv' /\ loop' \in {"first", "done"}
      BY <1>1, <2>1, <2>6, <3>1, StrcpyStep DEF StrInv
    <3> QED BY <2>2, <2>6, <3>2 DEF StrInv
  <2>7. CASE fn = "strcat"
    <3>1. strcat \/ strcpy
      BY <1>2, <2>7, Zenon DEF StringNext, In, strlen, strchr, strcmp, strncmp, strstr,
         strncpy, memset, memcpy, memmove, memcmp, atol
    <3>2. CatInv' /\ loop' \in {"first", "copy", "done"}
      BY <1>1, <2>1, <2>7, <3>1, StrcatStep DEF StrInv
    <3> QED BY <2>2, <2>7, <3>2 DEF StrInv
  <2>8. CASE fn = "strncpy"
    <3>1. strncpy
      BY <1>2, <2>8, Zenon DEF StringNext, In, strlen, strchr, strcmp, strncmp, strstr, strcpy,
         strcat, memset, memcpy, memmove, memcmp, atol
    <3>2. NCopyInv' /\ loop' \in {"first", "pad", "done"}
      BY <1>1, <2>1, <2>8, <3>1, StrncpyStep DEF StrInv
    <3> QED BY <2>2, <2>8, <3>2 DEF StrInv
  <2> QED BY <1>1, <2>3, <2>4, <2>5, <2>6, <2>7, <2>8, Zenon DEF StrFunctions
<1>3. CASE UNCHANGED stringVars
  <2>1. UNCHANGED args /\ UNCHANGED <<mem, p, q, k, loop, result, reads, writes>>
    BY <1>3 DEF stringVars
  <2>2. /\ StrArguments' /\ Source' = Source /\ Target' = Target /\ Expected' = Expected
        /\ UNCHANGED <<fn, dst, src, n, chr, mem0>>
    BY <1>1, <2>1, StrArgumentsSame
  <2>3. SearchInv => SearchInv'
    BY <2>1, <2>2, Zenon DEF SearchInv
  <2>4. CompareInv => CompareInv'
    BY <2>1, <2>2, Zenon DEF CompareInv
  <2>5. StrstrInv => StrstrInv'
    BY <2>1, <2>2, Zenon DEF StrstrInv, Matches
  <2>6. CopyInv => CopyInv'
    BY <2>1, <2>2, Zenon DEF CopyInv, CopiedTo
  <2>7. CatInv => CatInv'
    BY <2>1, <2>2, Zenon DEF CatInv, CopiedTo
  <2>8. NCopyInv => NCopyInv'
    BY <2>1, <2>2, Zenon DEF NCopyInv, CopiedTo, PaddedTo
  <2> QED
    BY <2>1, <2>2, <2>3, <2>4, <2>5, <2>6, <2>7, <2>8, Zenon DEF StrInv
<1> QED
  BY <1>2, <1>3

\* The invariant of the eight functions.
THEOREM StrInvariance == StrSpec => []StrInv
  BY InitStrInv, NextStrInv, PTL DEF StrSpec

\* strcpy copies the string with its terminator, strcat appends it, and strncpy
\* copies n characters or the string with n - Source + 1 zeros behind it: the rest
\* of memory is as before (what MoveExact says of these three).
THEOREM StrMoveExact == StrSpec => []MoveExact
<1>1. StrInv => MoveExact
  <2> SUFFICES ASSUME StrInv, loop = "done" PROVE MoveExact
    BY DEF MoveExact, Done
  <2>1. fn \in StrFunctions /\ Source \in Nat /\ n \in Nat /\ dst \in Nat
    BY DEF StrInv, StrArguments, Callable, IsString
  <2>2. ASSUME NEW d, NEW x, CopiedTo(d, x) PROVE mem = Moved(mem0, d, src, x)
    BY <2>2, Zenon DEF CopiedTo, Moved
  <2>3. fn = "strcpy" => mem = Moved(mem0, dst, src, Source + 1)
    BY <2>2 DEF StrInv, CopyInv
  <2>4. fn = "strcat" => mem = Moved(mem0, dst + Length(mem0, dst), src, Source + 1)
    BY <2>2 DEF StrInv, CatInv, Target
  <2>5. ASSUME fn = "strncpy"
        PROVE  mem = IF Source >= n THEN Moved(mem0, dst, src, n)
                     ELSE Filled(Moved(mem0, dst, src, Source), dst + Source, n - Source + 1, 0)
    <3>1. CASE Source >= n
      BY <2>2, <2>5, <3>1 DEF StrInv, NCopyInv
    <3>2. CASE ~ (Source >= n)
      <4>1. PICK l \in Nat : l = Source
        BY <2>1
      <4>2. PaddedTo(n + 1)
        BY <2>5, <3>2 DEF StrInv, NCopyInv
      <4> DEFINE u == Moved(mem0, dst, src, l)
                 v == Filled(u, dst + l, n - l + 1, 0)
      <4>3. ASSUME NEW a \in Addr PROVE mem[a] = v[a]
        <5>1. mem[a] = IF a \in dst .. dst + l - 1 THEN mem0[src + (a - dst)]
                       ELSE IF a \in dst + l .. dst + (n + 1) - 1 THEN 0 ELSE mem0[a]
          BY <4>1, <4>2 DEF PaddedTo
        <5>2. v[a] = IF a \in dst + l .. dst + l + (n - l + 1) - 1 THEN 0 ELSE u[a]
          BY Zenon DEF Filled
        <5>3. u[a] = IF a \in dst .. dst + l - 1 THEN mem0[src + (a - dst)] ELSE mem0[a]
          BY Zenon DEF Moved
        <5>4. dst + l + (n - l + 1) - 1 = dst + (n + 1) - 1
          BY <2>1, <4>1
        <5>5. ~ (a \in dst .. dst + l - 1 /\ a \in dst + l .. dst + (n + 1) - 1)
          BY <2>1, <4>1
        <5> HIDE DEF u, v
        <5> QED BY <5>1, <5>2, <5>3, <5>4, <5>5, Zenon
      <4>4. v = [a \in Addr |-> v[a]] /\ mem = [a \in Addr |-> mem[a]]
        BY <4>2 DEF PaddedTo, Filled
      <4>5. mem = v
        <5> HIDE DEF v
        <5> QED BY <4>3, <4>4
      <4> QED BY <3>2, <4>1, <4>5
    <3> QED BY <3>1, <3>2
  <2> QED
    BY <2>1, <2>3, <2>4, <2>5, Zenon DEF MoveExact, Done, StrFunctions
<1> QED
  BY StrInvariance, <1>1, PTL

\* At every step the eight functions have read only bytes of the strings they were
\* given, terminators included, strncmp and strncpy only the first n of them, and
\* have written only where they are to.
THEOREM StrInBounds == StrSpec => []InBounds
<1>1. StrInv => InBounds
  <2> SUFFICES ASSUME StrInv PROVE InBounds
    OBVIOUS
  <2>1. fn \in StrFunctions /\ dst \in Nat /\ n \in Nat /\ Source \in Nat
    BY DEF StrInv, StrArguments, Callable, IsString
  <2>2. CASE fn \in {"strlen", "strchr"}
    <3>1. reads \subseteq src .. src + Length(mem0, src) /\ writes = {}
      BY <2>2 DEF StrInv, SearchInv, Source
    <3> QED BY <2>2, <3>1 DEF InBounds
  <2>3. CASE fn = "strcmp"
    <3>1. /\ reads \subseteq (dst .. dst + Length(mem0, dst)) \cup (src .. src + Length(mem0, src))
          /\ writes = {}
      BY <2>3 DEF StrInv, CompareInv, Source, Target
    <3> QED BY <2>3, <3>1 DEF InBounds
  <2>4. CASE fn = "strncmp"
    <3>1. /\ \A a \in reads :
               \/ a \in (dst .. dst + Length(mem0, dst)) \cap (dst .. dst + n - 1)
               \/ a \in (src .. src + Length(mem0, src)) \cap (src .. src + n - 1)
          /\ writes = {}
      BY <2>4, Zenon DEF StrInv, CompareInv, Source, Target
    <3> QED BY <2>4, <3>1 DEF InBounds
  <2>5. CASE fn = "strstr"
    <3>1. /\ reads \subseteq (dst .. dst + Length(mem0, dst)) \cup (src .. src + Length(mem0, src))
          /\ writes = {}
      BY <2>5 DEF StrInv, StrstrInv, Source, Target
    <3> QED BY <2>5, <3>1 DEF InBounds
  <2>6. CASE fn = "strcpy"
    <3>1. reads \subseteq src .. src + Length(mem0, src) /\ writes \subseteq dst .. dst + Source
      BY <2>6 DEF StrInv, CopyInv, Source
    <3> QED BY <2>6, <3>1 DEF InBounds
  <2>7. CASE fn = "strcat"
    <3>1. /\ reads \subseteq (dst .. dst + Length(mem0, dst)) \cup (src .. src + Length(mem0, src))
          /\ writes \subseteq dst + Length(mem0, dst) .. dst + Length(mem0, dst) + Source
      BY <2>7 DEF StrInv, CatInv, Source, Target
    <3>2. Length(mem0, dst) \in Nat
      BY <2>7 DEF StrInv, StrArguments, Callable, IsString, Target
    <3>3. writes \subseteq dst .. dst + Length(mem0, dst) + Source
      BY <2>1, <3>1, <3>2
    <3> QED BY <2>7, <3>1, <3>3 DEF InBounds
  <2>8. CASE fn = "strncpy"
    <3>1. /\ reads \subseteq (src .. src + Length(mem0, src)) \cap (src .. src + n - 1)
          /\ writes \subseteq dst .. dst + n
      BY <2>8 DEF StrInv, NCopyInv, Source
    <3> QED BY <2>8, <3>1 DEF InBounds
  <2> QED
    BY <2>1, <2>2, <2>3, <2>4, <2>5, <2>6, <2>7, <2>8, Zenon DEF StrFunctions
<1> QED
  BY StrInvariance, <1>1, PTL

\* The eight functions return what C says: a length, the difference of the first
\* characters that differ, the first place of a character or of a string, or their
\* destination.
THEOREM StrResultExact == StrSpec => []ResultExact
<1>1. StrInv => ResultExact
  <2> SUFFICES ASSUME StrInv, loop = "done" PROVE result = Expected
    BY DEF ResultExact
  <2>1. fn \in StrFunctions
    BY DEF StrInv, StrArguments
  <2>2. CASE fn \in {"strlen", "strchr", "strcmp", "strncmp", "strstr"}
    BY <2>2 DEF StrInv, SearchInv, CompareInv, StrstrInv
  <2>3. CASE fn \in {"strcpy", "strncpy", "strcat"}
    <3>1. Expected = dst
      BY <2>3 DEF Expected
    <3> QED BY <2>3, <3>1 DEF StrInv, CopyInv, NCopyInv, CatInv
  <2> QED
    BY <2>1, <2>2, <2>3, Zenon DEF StrFunctions
<1> QED
  BY StrInvariance, <1>1, PTL

\* A call of atol on a string.
AtolInit ==
  \E d, s, l \in Nat, m \in [Addr -> Int] : IsString(m, s, l) /\ Call("atol", d, s, 0, 0, m)

AtolSpec == AtolInit /\ [][StringNext]_stringVars

\* atol has passed blanks, a sign and digits, and never the terminator.
AtolInv ==
  /\ fn = "atol" /\ mem0 \in [Addr -> Int] /\ IsString(mem0, src, Source)
  /\ mem = mem0 /\ writes = {} /\ reads \subseteq src .. src + Source
  /\ loop # "done" => q \in src .. src + Source

\* At every step atol has read only bytes of the string, whatever is in it, and
\* written nothing.
THEOREM AtolInBounds == AtolSpec => []InBounds
<1>1. AtolInit => AtolInv
  <2> SUFFICES ASSUME NEW d \in Nat, NEW s \in Nat, NEW l \in Nat, NEW m \in [Addr -> Int],
                      IsString(m, s, l), Call("atol", d, s, 0, 0, m)
               PROVE  AtolInv
    BY Zenon DEF AtolInit
  <2>1. /\ fn = "atol" /\ src = s /\ mem0 = m /\ mem = m /\ q = s /\ reads = {} /\ writes = {}
    BY DEF Call
  <2>2. Source = l
    BY <2>1, LengthIs DEF Source
  <2> QED BY <2>1, <2>2 DEF AtolInv
<1>2. AtolInv /\ [StringNext]_stringVars => AtolInv'
  <2> SUFFICES ASSUME AtolInv, [StringNext]_stringVars PROVE AtolInv'
    OBVIOUS
  <2>1. CASE UNCHANGED stringVars
    BY <2>1, Zenon DEF stringVars, args, AtolInv, Source
  <2>2. CASE StringNext
    <3>1. atol
      BY <2>2, Zenon DEF AtolInv, StringNext, In, strlen, strchr, strcmp, strncmp, strstr, strcpy,
         strncpy, strcat, memset, memcpy, memmove, memcmp
    <3>2. Read({q}) /\ UNCHANGED args /\ loop # "done"
      BY <3>1, Zenon DEF atol, Move, Return
    <3>3. /\ UNCHANGED <<fn, src, mem0, mem, writes>> /\ reads' = reads \cup {q}
      BY <3>2 DEF Read, args
    <3>4. Source' = Source
      BY <3>3, Zenon DEF Source
    <3>5. PICK l \in Nat : l = Source /\ IsString(mem0, src, l)
      BY DEF AtolInv, IsString
    <3>6. /\ q \in src .. src + l /\ q \in Nat /\ src \in Nat /\ mem = mem0
          /\ mem0[q] # 0 => q + 1 \in src .. src + l
      <4>1. q \in src .. src + l /\ mem0 \in [Addr -> Int] /\ mem = mem0
        BY <3>2, <3>5 DEF AtolInv
      <4>2. (mem0[q] = 0 <=> q = src + l) /\ q \in Nat /\ src \in Nat
        BY <3>5, <4>1, InString
      <4> QED BY <4>1, <4>2
    <3>7. loop' = "done" \/ q' \in src .. src + l
      <4>1. CASE loop = "first"
        <5>1. CASE mem[q] \in {32, 9, 10}
          <6>1. Move(0, 1, 0)
            BY <3>1, <4>1, <5>1, Zenon DEF atol
          <6> QED BY <3>6, <5>1, <6>1 DEF Move
        <5>2. CASE mem[q] \notin {32, 9, 10}
          <6>1. q' = IF mem[q] \in {43, 45} THEN q + 1 ELSE q
            BY <3>1, <4>1, <5>2, Zenon DEF atol
          <6> QED BY <3>6, <6>1
        <5> QED BY <5>1, <5>2
      <4>2. CASE loop = "digits"
        <5>1. CASE mem[q] \in 48 .. 57
          <6>1. q' = q + 1
            BY <3>1, <4>2, <5>1, Zenon DEF atol
          <6> QED BY <3>6, <5>1, <6>1
        <5>2. CASE mem[q] \notin 48 .. 57
          <6>1. Return(k * result)
            BY <3>1, <4>2, <5>2, Zenon DEF atol
          <6> QED BY <6>1 DEF Return
        <5> QED BY <5>1, <5>2
      <4> QED BY <3>1, <4>1, <4>2 DEF atol
    <3>8. reads' \subseteq src .. src + l
      BY <3>3, <3>5, <3>6 DEF AtolInv
    <3> QED BY <3>3, <3>4, <3>5, <3>7, <3>8 DEF AtolInv
  <2> QED BY <2>1, <2>2
<1>3. AtolInv => InBounds
  <2> SUFFICES ASSUME AtolInv PROVE InBounds
    OBVIOUS
  <2>1. fn = "atol" /\ reads \subseteq src .. src + Length(mem0, src) /\ writes = {}
    BY DEF AtolInv, Source
  <2> QED BY <2>1 DEF InBounds
<1> QED
  BY <1>1, <1>2, <1>3, PTL DEF AtolSpec
----------------------------------------------------------------------------
(* The system calls and kmalloc_simple.                                    *)

\* The blocks lie below alloc_ptr in the order of the calls.
Stacked ==
  /\ alloc_ptr \in 0 .. Word - 1
  /\ wrapped \in BOOLEAN
  /\ calls \in Nat
  /\ blocks \subseteq [id : Nat, base : Nat, len : Nat, asked : Sizes]
  /\ \A b \in blocks : b.id < calls
  /\ ~wrapped => \A b \in blocks : b.base + b.len <= alloc_ptr
  /\ \A b \in blocks : b.asked <= Word - PageSize => b.asked <= b.len
  /\ BlocksDisjoint

\* A remainder is at most the number divided.
LEMMA RemainderAtMost ==
  ASSUME NEW s \in Nat, NEW d \in Nat \ {0}
  PROVE  s % d \in Nat /\ s % d <= s
  OBVIOUS

\* A number below the modulus is its own remainder.
LEMMA SmallRemainder ==
  ASSUME NEW x \in Nat, NEW w \in Nat \ {0}, ~ (x >= w)
  PROVE  x % w = x
  OBVIOUS

\* Rounding gives a natural number, also where the addition overflows.
LEMMA RoundedNat == ASSUME NEW size \in Sizes PROVE Rounded(size) \in Nat
<1>1. size \in Nat /\ PageSize \in Nat \ {0} /\ Word \in Nat \ {0}
  BY SyscallConstants
<1> DEFINE s == (size + PageSize - 1) % Word
<1>2. s \in Nat
  BY <1>1
<1> HIDE DEF s
<1>3. s % PageSize \in Nat /\ s % PageSize <= s
  BY <1>1, <1>2, RemainderAtMost
<1>4. s - (s % PageSize) \in Nat
  BY <1>2, <1>3
<1> QED
  BY <1>4 DEF Rounded, s

\* A size that is not within a page of the end of the word is rounded up.
LEMMA RoundedLarge ==
  ASSUME NEW size \in Sizes, size <= Word - PageSize PROVE size <= Rounded(size)
<1> DEFINE s == size + PageSize - 1
<1>1. size \in Nat /\ PageSize \in Nat \ {0} /\ Word \in Nat \ {0} /\ s \in Nat
  BY SyscallConstants
<1>2. ~ (s >= Word)
  BY <1>1
<1>3. s % Word = s
  BY <1>1, <1>2, SmallRemainder
<1>4. s % PageSize \in Nat /\ s % PageSize <= PageSize - 1
  <2> HIDE DEF s
  <2> QED BY <1>1
<1>5. size <= s - (s % PageSize)
  <2> DEFINE r == s % PageSize
  <2> HIDE DEF r
  <2> QED BY <1>1, <1>4 DEF r
<1> QED
  BY <1>3, <1>5 DEF Rounded

\* Nothing is allocated at the start.
LEMMA InitStacked == Init => Stacked
<1> SUFFICES ASSUME Init PROVE Stacked
  OBVIOUS
<1>1. alloc_ptr \in 0 .. Word - 1 /\ calls \in Nat
  BY SyscallConstants DEF Init
<1>2. wrapped \in BOOLEAN /\ blocks = {}
  BY Zenon DEF Init
<1> QED
  BY <1>1, <1>2 DEF Stacked, BlocksDisjoint

\* A new block starts where all others end.
LEMMA MallocStacked ==
  ASSUME Stacked, NEW size \in Sizes, Malloc(size)
  PROVE  Stacked'
<1> DEFINE m == Rounded(size)
           new == [id |-> calls, base |-> alloc_ptr, len |-> m, asked |-> size]
<1>1. m \in Nat /\ Word \in Nat \ {0}
  BY RoundedNat, SyscallConstants
<1>2. /\ calls' = calls + 1
      /\ alloc_ptr' = (alloc_ptr + m) % Word
      /\ wrapped' = (wrapped \/ alloc_ptr + m >= Word)
      /\ blocks' = blocks \cup {new}
  BY DEF Malloc, Enter, kmalloc_simple
<1> HIDE DEF m
<1>3. alloc_ptr' \in 0 .. Word - 1 /\ wrapped' \in BOOLEAN /\ calls' \in Nat
  BY <1>1, <1>2 DEF Stacked
<1>4. ~wrapped' => ~wrapped /\ alloc_ptr' = alloc_ptr + m
  <2>1. ~wrapped' => ~wrapped /\ ~ (alloc_ptr + m >= Word)
    BY <1>2, Zenon
  <2>2. alloc_ptr + m \in Nat
    BY <1>1, SyscallConstants DEF Stacked
  <2>3. ~ (alloc_ptr + m >= Word) => alloc_ptr' = alloc_ptr + m
    BY <1>1, <1>2, <2>2, SmallRemainder
  <2> QED
    BY <2>1, <2>3, Zenon
<1>5. new \in [id : Nat, base : Nat, len : Nat, asked : Sizes]
  BY <1>1 DEF Stacked
<1>6. /\ new.id = calls /\ new.base = alloc_ptr /\ new.len = m
      /\ new.asked <= Word - PageSize => new.asked <= new.len
  BY RoundedLarge DEF m
<1> HIDE DEF new
<1>7. \A b \in blocks' : b.id < calls'
  BY <1>2, <1>6 DEF Stacked
<1>8. ~wrapped' => \A b \in blocks' : b.base + b.len <= alloc_ptr'
  BY <1>1, <1>2, <1>4, <1>6 DEF Stacked
<1>9. \A b \in blocks' : b.asked <= Word - PageSize => b.asked <= b.len
  BY <1>2, <1>6 DEF Stacked
<1>10. BlocksDisjoint'
  <2> SUFFICES ASSUME ~wrapped', NEW a \in blocks', NEW b \in blocks', a.id < b.id
               PROVE  /\ a.base + a.len <= b.base
                      /\ a.asked <= Word - PageSize => a.base + a.asked <= b.base
    BY DEF BlocksDisjoint
  <2>1. a \in blocks
    BY <1>2, <1>6 DEF Stacked
  <2>2. CASE b \in blocks
    BY <1>4, <2>1, <2>2 DEF Stacked, BlocksDisjoint
  <2>3. CASE b = new
    <3>1. a.base + a.len <= alloc_ptr /\ b.base = alloc_ptr
      BY <1>4, <1>6, <2>1, <2>3 DEF Stacked
    <3>2. a.asked <= Word - PageSize => a.asked <= a.len
      BY <2>1 DEF Stacked
    <3>3. a.base \in Nat /\ a.len \in Nat /\ a.asked \in Nat /\ alloc_ptr \in Nat
      <4>1. a \in [id : Nat, base : Nat, len : Nat, asked : Sizes]
        BY <2>1 DEF Stacked
      <4>2. Sizes \subseteq Nat /\ alloc_ptr \in Nat
        BY SyscallConstants DEF Stacked
      <4> QED
        BY <4>1, <4>2, Zenon
    <3> QED
      BY <3>1, <3>2, <3>3
  <2> QED
    BY <1>2, <2>2, <2>3
<1> QED
  BY <1>2, <1>3, <1>5, <1>7, <1>8, <1>9, <1>10 DEF Stacked

\* Every system call keeps the blocks stacked below alloc_ptr.
LEMMA NextStacked == Stacked /\ [Next]_vars => Stacked'
<1> SUFFICES ASSUME Stacked, [Next]_vars PROVE Stacked'
  OBVIOUS
<1>1. ASSUME NEW size \in Sizes, Malloc(size)
      PROVE  Stacked'
  BY <1>1, MallocStacked
<1>2. CASE UNCHANGED <<alloc_ptr, wrapped, blocks>> /\ calls' \in {calls, calls + 1}
  BY <1>2 DEF Stacked, BlocksDisjoint
<1>3. ASSUME \/ Exit
             \/ \E call \in DOMAIN Stubs : Stub(call)
             \/ \E fd \in 0 .. 2, count \in Sizes : Write(fd, count)
      PROVE  UNCHANGED <<alloc_ptr, wrapped, blocks>> /\ calls' \in {calls, calls + 1}
  BY <1>3 DEF Exit, Stub, Write, Enter
<1> QED
  BY <1>1, <1>2, <1>3 DEF Next, vars

\* kmalloc_simple hands out disjoint blocks in ascending order until alloc_ptr
\* wraps, through every sequence of system calls.
THEOREM MallocDisjoint == Spec => []BlocksDisjoint
<1>1. Stacked => BlocksDisjoint
  BY DEF Stacked
<1> QED
  BY InitStacked, NextStacked, <1>1, PTL DEF Spec
----------------------------------------------------------------------------
\* A number that a page size divides is a multiple of it, and conversely.
Multiple(x, d) == \E j \in Int : x = d * j

\* The division of a number.
LEMMA Division ==
  ASSUME NEW x \in Nat, NEW d \in Nat \ {0}
  PROVE  x \div d \in Nat /\ x = d * (x \div d) + (x % d)
  OBVIOUS

\* Divisible numbers are multiples.
LEMMA DivisibleMultiple ==
  ASSUME NEW x \in Nat, NEW d \in Nat \ {0}
  PROVE  x % d = 0 <=> Multiple(x, d)
<1>1. x % d = 0 => Multiple(x, d)
  <2> SUFFICES ASSUME x % d = 0 PROVE \E j \in Int : x = d * j
    BY DEF Multiple
  <2> DEFINE t == x \div d
  <2>1. t \in Nat /\ x = d * t + (x % d)
    BY Division
  <2> HIDE DEF t
  <2>2. t \in Int /\ x = d * t
    BY <2>1
  <2> QED
    BY <2>2, Zenon
<1>2. ASSUME NEW j \in Int, x = d * j
      PROVE  x % d = 0
  BY <1>2
<1> QED
  BY <1>1, <1>2, Zenon DEF Multiple

\* Sums of multiples.
LEMMA SumMultiple ==
  ASSUME NEW x \in Int, NEW y \in Int, NEW d \in Nat, Multiple(x, d), Multiple(y, d)
  PROVE  Multiple(x + y, d)
<1>1. PICK j \in Int : x = d * j
  BY Zenon DEF Multiple
<1>2. PICK l \in Int : y = d * l
  BY Zenon DEF Multiple
<1>3. j + l \in Int /\ x + y = d * (j + l)
  BY <1>1, <1>2
<1> QED
  BY <1>3, Zenon DEF Multiple

\* A multiple stays one when it wraps at a word that is one.
LEMMA WrappedMultiple ==
  ASSUME NEW x \in Nat, NEW d \in Nat \ {0}, NEW w \in Nat \ {0}, Multiple(x, d), Multiple(w, d)
  PROVE  Multiple((x % w), d)
<1> DEFINE t == x \div w
<1>1. t \in Nat /\ x = w * t + (x % w) /\ (x % w) \in Nat
  BY Division
<1> HIDE DEF t
<1>2. PICK j \in Int : w = d * j
  BY Zenon DEF Multiple
<1>3. -(j * t) \in Int /\ -(w * t) = d * (-(j * t))
  BY <1>1, <1>2
<1>4. Multiple(-(w * t), d)
  BY <1>3, Zenon DEF Multiple
<1>5. Multiple(x + (-(w * t)), d)
  BY <1>1, <1>4, SumMultiple
<1>6. x + (-(w * t)) = (x % w)
  <2> DEFINE r == x % w
  <2> HIDE DEF r
  <2> QED BY <1>1 DEF r
<1> QED
  BY <1>5, <1>6

\* A rounded size is a multiple of a page.
LEMMA RoundedMultiple == ASSUME NEW size \in Sizes PROVE Multiple(Rounded(size), PageSize)
<1> DEFINE s == (size + PageSize - 1) % Word
<1>1. PageSize \in Nat \ {0} /\ s \in Nat
  BY SyscallConstants
<1> HIDE DEF s
<1>2. s \div PageSize \in Nat /\ s - (s % PageSize) = PageSize * (s \div PageSize)
  <2> DEFINE r == s % PageSize
             t == s \div PageSize
  <2>1. t \in Nat /\ s = PageSize * t + r /\ r \in Nat
    BY <1>1, Division
  <2> HIDE DEF r, t
  <2>2. s - r = PageSize * t
    BY <1>1, <2>1
  <2> QED BY <2>1, <2>2 DEF r, t
<1> QED
  BY <1>2 DEF Rounded, Multiple, s

\* alloc_ptr stays on a page boundary, and so does every block.
PointerAligned ==
  /\ Stacked
  /\ alloc_ptr % PageSize = 0
  /\ BlocksAligned

\* Every system call keeps the boundaries.
LEMMA NextAligned == PointerAligned /\ [Next]_vars => PointerAligned'
<1> SUFFICES ASSUME PointerAligned, [Next]_vars PROVE PointerAligned'
  OBVIOUS
<1>1. Stacked'
  BY NextStacked DEF PointerAligned
<1>2. PageSize \in Nat \ {0} /\ Word \in Nat \ {0} /\ alloc_ptr \in Nat
  BY SyscallConstants DEF PointerAligned, Stacked
<1>3. ASSUME NEW size \in Sizes, Malloc(size)
      PROVE  alloc_ptr' % PageSize = 0 /\ BlocksAligned'
  <2>1. Rounded(size) \in Nat /\ Multiple(Rounded(size), PageSize)
    BY RoundedNat, RoundedMultiple
  <2>2. Multiple(alloc_ptr, PageSize) /\ Multiple(Word, PageSize)
    BY <1>2, DivisibleMultiple, SyscallConstants DEF PointerAligned
  <2>3. Multiple(alloc_ptr + Rounded(size), PageSize) /\ alloc_ptr + Rounded(size) \in Nat
    <3>1. PageSize \in Nat /\ alloc_ptr \in Int /\ Rounded(size) \in Int
      BY <1>2, <2>1
    <3>2. alloc_ptr + Rounded(size) \in Nat
      BY <1>2, <2>1
    <3> QED
      BY <2>1, <2>2, <3>1, <3>2, SumMultiple, Zenon
  <2>4. alloc_ptr' = (alloc_ptr + Rounded(size)) % Word
    BY <1>3 DEF Malloc, kmalloc_simple
  <2>5. Multiple(alloc_ptr', PageSize)
    BY <1>2, <2>2, <2>3, <2>4, WrappedMultiple
  <2>6. alloc_ptr' \in Nat
    BY <1>1, <1>2 DEF Stacked
  <2>7. alloc_ptr' % PageSize = 0
    BY <1>2, <2>5, <2>6, DivisibleMultiple, Zenon
  <2>8. BlocksAligned'
    BY <1>3 DEF Malloc, kmalloc_simple, PointerAligned, BlocksAligned
  <2> QED
    BY <2>7, <2>8
<1>4. CASE UNCHANGED <<alloc_ptr, blocks>>
  BY <1>1, <1>4 DEF PointerAligned, BlocksAligned
<1>5. ASSUME \/ Exit
             \/ \E call \in DOMAIN Stubs : Stub(call)
             \/ \E fd \in 0 .. 2, count \in Sizes : Write(fd, count)
             \/ UNCHANGED vars
      PROVE  UNCHANGED <<alloc_ptr, blocks>>
  BY <1>5 DEF Exit, Stub, Write, vars
<1> QED
  BY <1>1, <1>3, <1>4, <1>5 DEF Next, PointerAligned

\* Blocks of kmalloc_simple start on page boundaries, whatever sizes are asked
\* for and also after alloc_ptr has wrapped.
THEOREM MallocAligned == Spec => []BlocksAligned
<1>1. Init => PointerAligned
  BY InitStacked, SyscallConstants DEF Init, PointerAligned, BlocksAligned
<1>2. PointerAligned => BlocksAligned
  BY DEF PointerAligned
<1> QED
  BY NextAligned, <1>1, <1>2, PTL DEF Spec
----------------------------------------------------------------------------
\* The value of a call is an int, whatever the 64-bit value was.
LEMMA IntInRange ==
  ASSUME NEW v \in Int
  PROVE  ToInt(v) \in -(IntWord \div 2) .. IntWord \div 2 - 1
<1> DEFINE h == IntWord \div 2
           w == v % IntWord
<1>1. h \in Nat /\ IntWord = 2 * h /\ h > 0
  BY SyscallConstants
<1>2. w \in 0 .. IntWord - 1
  BY SyscallConstants
<1>3. ToInt(v) = IF w < h THEN w ELSE w - IntWord
  BY DEF ToInt
<1> HIDE DEF h, w
<1>4. ToInt(v) \in -h .. h - 1
  BY <1>1, <1>2, <1>3
<1> QED
  BY <1>4 DEF h

\* A rounded size fits in a word.
LEMMA RoundedBelow == ASSUME NEW size \in Sizes PROVE Rounded(size) \in 0 .. Word - 1
<1> DEFINE s == (size + PageSize - 1) % Word
<1>1. size \in Nat /\ PageSize \in Nat \ {0} /\ Word \in Nat \ {0}
  BY SyscallConstants
<1>2. s \in 0 .. Word - 1
  BY <1>1
<1> HIDE DEF s
<1>3. s % PageSize \in Nat /\ s % PageSize <= s
  BY <1>1, <1>2, RemainderAtMost
<1>4. s - (s % PageSize) \in 0 .. Word - 1
  BY <1>1, <1>2, <1>3
<1> QED
  BY <1>4 DEF Rounded, s

\* The parts of TypeOK: numbers and blocks, flags.
Numbers ==
  /\ alloc_ptr \in 0 .. Word - 1
  /\ blocks \subseteq Block
  /\ ret \in -(IntWord \div 2) .. IntWord \div 2 - 1
  /\ calls \in 0 .. MaxCalls

Flags == wrapped \in BOOLEAN /\ halted \in BOOLEAN

\* A system call keeps the ranges.
LEMMA NextNumbers == Numbers /\ [Next]_vars => Numbers'
<1> SUFFICES ASSUME Numbers, [Next]_vars PROVE Numbers'
  OBVIOUS
<1>1. ASSUME Enter PROVE calls' \in 0 .. MaxCalls
  BY <1>1, SyscallConstants DEF Enter, Numbers
<1>2. ASSUME Exit PROVE Numbers'
  BY <1>1, <1>2 DEF Exit, Numbers
<1>3. ASSUME NEW call \in DOMAIN Stubs, Stub(call) PROVE Numbers'
  <2>1. Stubs[call] \in Int
    BY DEF Stubs
  <2> QED
    BY <1>1, <1>3, <2>1, IntInRange DEF Stub, Leave, Numbers
<1>4. ASSUME NEW fd \in 0 .. 2, NEW count \in Sizes, Write(fd, count) PROVE Numbers'
  <2>1. (IF fd \in {1, 2} THEN count ELSE 0) \in Int
    BY SyscallConstants
  <2> QED
    BY <1>1, <1>4, <2>1, IntInRange DEF Write, Leave, Numbers
<1>5. ASSUME NEW size \in Sizes, Malloc(size) PROVE Numbers'
  <2>1. alloc_ptr \in Int /\ Word \in Nat \ {0} /\ calls \in Nat /\ size \in 0 .. Word - 1
    BY SyscallConstants DEF Numbers
  <2>2. Rounded(size) \in 0 .. Word - 1
    BY RoundedBelow
  <2>3. alloc_ptr' \in 0 .. Word - 1
    BY <1>5, <2>1, <2>2 DEF Malloc, kmalloc_simple
  <2>4. [id |-> calls, base |-> alloc_ptr, len |-> Rounded(size), asked |-> size] \in Block
    BY <2>1, <2>2 DEF Block, Numbers
  <2>5. ret' \in -(IntWord \div 2) .. IntWord \div 2 - 1 /\ calls' \in 0 .. MaxCalls
    BY <1>1, <1>5, <2>1, IntInRange DEF Malloc, Leave
  <2> QED
    BY <1>5, <2>3, <2>4, <2>5 DEF Malloc, kmalloc_simple, Numbers
<1>6. CASE UNCHANGED vars
  BY <1>6 DEF vars, Numbers
<1> QED
  BY <1>2, <1>3, <1>4, <1>5, <1>6 DEF Next

\* A system call keeps the flags Boolean.
LEMMA NextFlags == Flags /\ [Next]_vars => Flags'
<1> SUFFICES ASSUME Flags, [Next]_vars PROVE Flags'
  OBVIOUS
<1>1. ASSUME NEW size \in Sizes, Malloc(size) PROVE Flags'
  BY <1>1, Zenon DEF Malloc, kmalloc_simple, Leave, Flags
<1>2. ASSUME \/ Exit
             \/ \E call \in DOMAIN Stubs : Stub(call)
             \/ \E fd \in 0 .. 2, count \in Sizes : Write(fd, count)
      PROVE  Flags'
  BY <1>2, Zenon DEF Exit, Stub, Write, Leave, Flags
<1>3. CASE UNCHANGED vars
  BY <1>3 DEF vars, Flags
<1> QED
  BY <1>1, <1>2, <1>3 DEF Next

\* The system calls are type correct: alloc_ptr and the blocks stay words, and
\* what is printed as the result is an int.
THEOREM SyscallTypeCorrect == Spec => []TypeOK
<1>1. Init => Numbers
  <2>1. 0 \in -(IntWord \div 2) .. IntWord \div 2 - 1
    <3>1. IntWord \in Nat \ {0} /\ IntWord % 2 = 0
      BY SyscallConstants
    <3> QED
      BY <3>1
  <2> QED
    BY <2>1, SyscallConstants DEF Init, Numbers
<1>2. Init => Flags
  BY Zenon DEF Init, Flags
<1>3. Numbers /\ Flags => TypeOK
  BY Zenon DEF Numbers, Flags, TypeOK
<1> QED
  BY NextNumbers, NextFlags, <1>1, <1>2, <1>3, PTL DEF Spec
=============================================================================
