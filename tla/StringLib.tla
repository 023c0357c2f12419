----------------------------- MODULE StringLib -----------------------------
(***************************************************************************)
(* lib/string.c, without the formatting functions: one call of one of the   *)
(* functions, one iteration of its loop per step.  Characters are their     *)
(* codes, memory is one array of them, and 0 terminates a string.           *)
(***************************************************************************)
EXTENDS Integers

CONSTANTS
  MemSize,  \* bytes of memory
  NULL      \* the null pointer

ASSUME StringConstants == MemSize \in Nat \ {0} /\ NULL \notin Int

VARIABLES
  fn,        \* the function called, "none" when there is no such call
  dst, src,  \* its pointer arguments; src alone for one
  n,         \* its size argument
  chr,       \* its character argument
  mem0,      \* memory at the call
  mem,
  p, q, k,   \* the pointers and the counter of its loop
  loop,      \* which of its loops runs, or "done"
  result,
  reads,     \* addresses read and written so far
  writes

args       == <<fn, dst, src, n, chr, mem0>>
stringVars == <<args, mem, p, q, k, loop, result, reads, writes>>

Addr == 0 .. MemSize - 1

\* A call: the registers after the declarations of the function.
Call(f, d, s, len, c, m) ==
  /\ fn = f /\ dst = d /\ src = s /\ n = len /\ chr = c
  /\ mem0 = m /\ mem = m
  /\ LET back == f = "memmove" /\ d >= s
     IN  p = (IF back THEN d + len ELSE d) /\ q = (IF back THEN s + len ELSE s)
  /\ k = IF f \in {"strstr", "atol"} THEN 0 ELSE len
  /\ loop = "first" /\ result = 0 /\ reads = {} /\ writes = {}

NoCall ==
  /\ fn = "none" /\ dst = 0 /\ src = 0 /\ n = 0 /\ chr = 0
  /\ mem0 = [a \in Addr |-> 0] /\ mem = mem0
  /\ p = 0 /\ q = 0 /\ k = 0 /\ loop = "done" /\ result = 0
  /\ reads = {} /\ writes = {}
----------------------------------------------------------------------------
(* Steps of a loop.                                                        *)

Read(s)     == reads' = reads \cup s /\ UNCHANGED <<mem, writes>>
Store(a, v) == mem' = [mem EXCEPT ![a] = v] /\ writes' = writes \cup {a}
Copy        == Store(p, mem[q]) /\ reads' = reads \cup {q}
Move(dp, dq, dk) ==
  p' = p + dp /\ q' = q + dq /\ k' = k + dk /\ UNCHANGED <<args, loop, result>>
Return(v) == result' = v /\ loop' = "done" /\ UNCHANGED <<args, p, q, k>>
Goto(l)   == loop' = l /\ UNCHANGED <<args, p, q, k, result>>

In(f) == fn = f /\ loop = "first"

strlen ==
  /\ In("strlen") /\ Read({q})
  /\ IF mem[q] # 0 THEN Move(0, 1, 0) ELSE Return(q - src)

strcmp ==
  /\ In("strcmp") /\ Read({p, q})
  /\ IF mem[p] # 0 /\ mem[p] = mem[q] THEN Move(1, 1, 0) ELSE Return(mem[p] - mem[q])

\* Mutant of strncmp: the counter is tested before it is decremented.
strncmpPost ==
  /\ In("strncmp")
  /\ IF n = 0 THEN Read({}) /\ Return(0)
     ELSE /\ Read({p, q})
          /\ IF k > 0 /\ mem[p] # 0 /\ mem[p] = mem[q] THEN Move(1, 1, -1)
             ELSE Return(mem[p] - mem[q])

strncmp ==
  /\ In("strncmp")
  /\ IF n = 0 THEN Read({}) /\ Return(0)
     ELSE /\ Read({p, q})
          /\ IF k - 1 > 0 /\ mem[p] # 0 /\ mem[p] = mem[q] THEN Move(1, 1, -1)
             ELSE Return(mem[p] - mem[q])

strcpy ==
  /\ \/ In("strcpy")
     \/ fn = "strcat" /\ loop = "copy"
  /\ Copy
  /\ IF mem[q] # 0 THEN Move(1, 1, 0) ELSE Return(dst)

\* The terminator is copied and not counted.
strncpy ==
  \/ /\ In("strncpy")
     /\ IF k = 0 THEN Read({}) /\ Return(dst)
        ELSE /\ Copy
             /\ IF mem[q] # 0 THEN Move(1, 1, -1)
                ELSE p' = p + 1 /\ q' = q + 1 /\ loop' = "pad" /\ UNCHANGED <<args, k, result>>
  \/ /\ fn = "strncpy" /\ loop = "pad"
     /\ IF k = 0 THEN Read({}) /\ Return(dst)
        ELSE Store(p, 0) /\ UNCHANGED reads /\ Move(1, 0, -1)

strcat ==
  /\ In("strcat") /\ Read({p})
  /\ IF mem[p] # 0 THEN Move(1, 0, 0) ELSE Goto("copy")

strchr ==
  /\ In("strchr") /\ Read({q})
  /\ CASE mem[q] # 0 /\ mem[q] = chr -> Return(q)
       [] mem[q] # 0 /\ mem[q] # chr -> Move(0, 1, 0)
       [] mem[q] = 0 -> Return(IF chr = 0 THEN q ELSE NULL)

\* Mutant of strstr: a mismatch skips what was compared.
strstrSkips ==
  /\ In("strstr")
  /\ Read({p + k, q + k})
  /\ CASE k = 0 /\ mem[q] # 0 /\ mem[p] = 0 -> Return(NULL)
       [] mem[q + k] = 0 -> Return(p)
       [] mem[p + k] # 0 /\ mem[p + k] = mem[q + k] -> Move(0, 0, 1)
       [] OTHER -> Move(k + 1, 0, -k)

\* haystack is p, needle is q, and k characters have matched.
strstr ==
  /\ In("strstr")
  /\ Read({p + k, q + k})
  /\ CASE k = 0 /\ mem[q] # 0 /\ mem[p] = 0 -> Return(NULL)
       [] mem[q + k] = 0 -> Return(p)
       [] mem[p + k] # 0 /\ mem[q + k] # 0 /\ mem[p + k] = mem[q + k] -> Move(0, 0, 1)
       [] OTHER -> Move(1, 0, -k)

memset ==
  /\ In("memset")
  /\ IF k = 0 THEN Read({}) /\ Return(dst)
     ELSE Store(p, chr) /\ UNCHANGED reads /\ Move(1, 0, -1)

memcpy ==
  /\ In("memcpy")
  /\ IF k = 0 THEN Read({}) /\ Return(dst) ELSE Copy /\ Move(1, 1, -1)

\* Mutant of memmove: always from the front.
memmoveForward ==
  /\ In("memmove")
  /\ IF k = 0 THEN Read({}) /\ Return(dst)
     ELSE LET d == dst + n - k s == src + n - k IN
          /\ Store(d, mem[s]) /\ reads' = reads \cup {s} /\ Move(0, 0, -1)

\* From the front when dst is below src, else from the end.
memmove ==
  /\ In("memmove")
  /\ IF k = 0 THEN Read({}) /\ Return(dst)
     ELSE IF dst < src THEN Copy /\ Move(1, 1, -1)
     ELSE /\ Store(p - 1, mem[q - 1]) /\ reads' = reads \cup {q - 1}
          /\ Move(-1, -1, -1)

memcmp ==
  /\ In("memcmp")
  /\ IF k = 0 THEN Read({}) /\ Return(0)
     ELSE /\ Read({p, q})
          /\ IF mem[p] # mem[q] THEN Return(mem[p] - mem[q]) ELSE Move(1, 1, -1)

\* Blanks; then a sign, kept in k; then digits, kept in result.
atol ==
  /\ fn = "atol" /\ Read({q})
  /\ \/ /\ loop = "first"
        /\ IF mem[q] \in {32, 9, 10} THEN Move(0, 1, 0)
           ELSE /\ loop' = "digits"
                /\ k' = IF mem[q] = 45 THEN -1 ELSE 1
                /\ q' = IF mem[q] \in {43, 45} THEN q + 1 ELSE q
                /\ UNCHANGED <<args, p, result>>
     \/ /\ loop = "digits"
        /\ IF mem[q] \in 48 .. 57
           THEN q' = q + 1 /\ result' = result * 10 + (mem[q] - 48) /\ UNCHANGED <<args, p, k, loop>>
           ELSE Return(k * result)

StringNext ==
  \/ strlen \/ strcmp \/ strncmp \/ strcpy \/ strncpy \/ strcat \/ strchr
  \/ strstr \/ memset \/ memcpy \/ memmove \/ memcmp \/ atol
----------------------------------------------------------------------------
(* What the functions compute.                                             *)

\* The length of the string at a.
Length(m, a) ==
  CHOOSE l \in 0 .. MemSize - 1 : m[a + l] = 0 /\ \A x \in 0 .. l - 1 : m[a + x] # 0

\* Memory m with the len bytes at s copied to d, all at once.
Moved(m, d, s, len) ==
  [a \in Addr |-> IF a \in d .. d + len - 1 THEN m[s + (a - d)] ELSE m[a]]

Filled(m, d, len, v) == [a \in Addr |-> IF a \in d .. d + len - 1 THEN v ELSE m[a]]

\* The difference of the first len bytes at a and b.
Difference(m, a, b, len) ==
  LET D == {x \in 0 .. len - 1 : m[a + x] # m[b + x]}
      x == CHOOSE y \in D : \A z \in D : y <= z
  IN  IF D = {} THEN 0 ELSE m[a + x] - m[b + x]

\* The first address from a on, of those in S.
First(S) == IF S = {} THEN NULL ELSE CHOOSE x \in S : \A y \in S : x <= y

Least(a, b) == IF a < b THEN a ELSE b

Source == Length(mem0, src)
Done(fs) == fn \in fs /\ loop = "done"

\* What atol is to return: the decimal value after blanks and one sign.
Decimal(m, a) ==
  LET b   == First({x \in Addr : x >= a /\ m[x] \notin {32, 9, 10}})
      d   == IF m[b] \in {43, 45} THEN b + 1 ELSE b
      e   == First({x \in Addr : x >= d /\ m[x] \notin 48 .. 57})
      sum[x \in d - 1 .. e - 1] ==
        IF x < d THEN 0 ELSE sum[x - 1] + (m[x] - 48) * 10^(e - 1 - x)
  IN  IF m[b] = 45 THEN -sum[e - 1] ELSE sum[e - 1]

Expected ==
  CASE fn = "strlen" -> Source
    [] fn = "strcmp" -> Difference(mem0, dst, src, Source + 1)
    [] fn = "strncmp" -> Difference(mem0, dst, src, Least(n, Source + 1))
    [] fn = "memcmp" -> Difference(mem0, dst, src, n)
    [] fn = "strchr" -> First({a \in src .. src + Source : mem0[a] = chr})
    [] fn = "strstr" -> First({a \in dst .. dst + Length(mem0, dst) :
                                 \A x \in 0 .. Source - 1 : mem0[a + x] = mem0[src + x]})
    [] fn = "atol" -> Decimal(mem0, src)
    [] OTHER -> dst
----------------------------------------------------------------------------
(* Properties.                                                             *)

\* memmove copies as if through a buffer, however the regions overlap; memcpy
\* does too unless dst lies inside the source; memset fills n bytes.  strcpy and
\* strcat copy the string with its terminator to apart regions.  strncpy copies up
\* to n characters, and clears n + 1 bytes in all when the string is shorter than n:
\* process names rely on the size argument being one less than the field.
MoveExact ==
  /\ Done({"memmove"}) => mem = Moved(mem0, dst, src, n)
  /\ Done({"memcpy"}) /\ (dst <= src \/ src + n <= dst) => mem = Moved(mem0, dst, src, n)
  /\ Done({"memset"}) => mem = Filled(mem0, dst, n, chr)
  /\ Done({"strcpy"}) => mem = Moved(mem0, dst, src, Source + 1)
  /\ Done({"strcat"}) => mem = Moved(mem0, dst + Length(mem0, dst), src, Source + 1)
  /\ Done({"strncpy"}) =>
       mem = IF Source >= n THEN Moved(mem0, dst, src, n)
             ELSE Filled(Moved(mem0, dst, src, Source), dst + Source, n - Source + 1, 0)

\* Every function returns what C says of it: a difference, a length, a
\* place, a value, or its first argument.
ResultExact == loop = "done" /\ fn # "none" => result = Expected

\* At every step, only bytes of the strings and regions passed have been read,
\* terminators included, and only the n bytes of the destination written, one
\* more by strncpy.
InBounds ==
  LET Str(a) == a .. a + Length(mem0, a)
      Len(a) == a .. a + n - 1
  IN  /\ reads \subseteq
           CASE fn \in {"memset", "memcpy", "memmove", "memcmp"} -> Len(dst) \cup Len(src)
             [] fn \in {"strncmp", "strncpy"} ->
                  (Str(dst) \cap Len(dst)) \cup (Str(src) \cap Len(src))
             [] OTHER -> Str(dst) \cup Str(src)
      /\ writes \subseteq
           CASE fn \in {"memset", "memcpy", "memmove"} -> Len(dst)
             [] fn = "strncpy" -> dst .. dst + n
             [] fn = "strcpy" -> dst .. dst + Source
             [] fn = "strcat" -> dst .. dst + Length(mem0, dst) + Source
             [] OTHER -> {}
============================================================================
