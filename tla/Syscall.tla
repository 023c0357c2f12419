------------------------------ MODULE Syscall ------------------------------
(***************************************************************************)
(* syscall_handler of lib/syscall.c and kmalloc_simple of mmu.c, the bump  *)
(* allocator behind SYS_MALLOC.  Calls are handled one at a time.          *)
(*                                                                         *)
(* Addresses and sizes are 64-bit words in the code and natural numbers    *)
(* below Word here; the value of a system call passes through an int.      *)
(***************************************************************************)
EXTENDS Integers

CONSTANTS
  Word,      \* 2^64
  IntWord,   \* 2^32
  PageSize,  \* kmalloc_simple rounds sizes up to it
  HeapStart, \* initial alloc_ptr
  Sizes,     \* arguments of SYS_MALLOC and SYS_WRITE
  MaxCalls   \* bound on the calls of a behaviour

ASSUME SyscallConstants ==
  /\ PageSize \in Nat \ {0} /\ IntWord \in Nat \ {0} /\ IntWord % 2 = 0
  /\ Word \in Nat \ {0} /\ Word % PageSize = 0
  /\ HeapStart \in 0 .. Word - 1 /\ HeapStart % PageSize = 0
  /\ Sizes \subseteq 0 .. Word - 1
  /\ MaxCalls \in Nat

VARIABLES
  alloc_ptr,
  wrapped,   \* alloc_ptr has passed the end of the address space
  blocks,    \* the blocks returned, numbered by the call that asked
  ret,       \* the ret of the last call, which is printed and not returned
  halted,    \* SYS_EXIT waits for interrupts for ever
  calls

vars == <<alloc_ptr, wrapped, blocks, ret, halted, calls>>

\* (size + 0xFFF) & ~0xFFF, in 64 bits.
Rounded(size) ==
  LET s == (size + PageSize - 1) % Word IN s - (s % PageSize)

\* The assignment of a 64-bit value to an int.
ToInt(v) ==
  LET w == v % IntWord IN IF w < IntWord \div 2 THEN w ELSE w - IntWord

\* The value of the calls that only print.
Stubs == [fork |-> -1, read |-> -1, open |-> -1, close |-> 0, getpid |-> 1,
          free |-> 0, time |-> 0, unknown |-> -1]
----------------------------------------------------------------------------
Init ==
  /\ alloc_ptr = HeapStart /\ wrapped = FALSE /\ blocks = {}
  /\ ret = 0
  /\ halted = FALSE /\ calls = 0

\* A system call is made.
Enter ==
  /\ ~halted
  /\ calls < MaxCalls /\ calls' = calls + 1

\* The tail of syscall_handler: ret is printed.
Leave(v) == ret' = ToInt(v) /\ UNCHANGED halted

Exit ==
  /\ Enter /\ halted' = TRUE
  /\ UNCHANGED <<alloc_ptr, wrapped, blocks, ret>>

Stub(call) ==
  /\ Enter /\ Leave(Stubs[call])
  /\ UNCHANGED <<alloc_ptr, wrapped, blocks>>

\* The bytes go to the UART; other descriptors than 1 and 2 are ignored.
Write(fd, count) ==
  /\ Enter /\ Leave(IF fd \in {1, 2} THEN count ELSE 0)
  /\ UNCHANGED <<alloc_ptr, wrapped, blocks>>

\* Mutant of kmalloc_simple: alloc_ptr moves by the size asked for.
kmalloc_simpleUnrounded(size) ==
  /\ alloc_ptr' = (alloc_ptr + size) % Word
  /\ wrapped' = (wrapped \/ alloc_ptr + size >= Word)
  /\ blocks' = blocks \cup {[id |-> calls, base |-> alloc_ptr, len |-> Rounded(size),
                             asked |-> size]}

kmalloc_simple(size) ==
  /\ alloc_ptr' = (alloc_ptr + Rounded(size)) % Word
  /\ wrapped' = (wrapped \/ alloc_ptr + Rounded(size) >= Word)
  /\ blocks' = blocks \cup {[id |-> calls, base |-> alloc_ptr, len |-> Rounded(size),
                             asked |-> size]}

Malloc(size) == Enter /\ kmalloc_simple(size) /\ Leave(alloc_ptr)

Next ==
  \/ Exit
  \/ \E call \in DOMAIN Stubs : Stub(call)
  \/ \E fd \in 0 .. 2, n \in Sizes : Write(fd, n)
  \/ \E size \in Sizes : Malloc(size)

Spec == Init /\ [][Next]_vars
----------------------------------------------------------------------------
(* Properties.                                                             *)

Block == [id : Nat, base : 0 .. Word - 1, len : 0 .. Word - 1, asked : 0 .. Word - 1]

\* Type invariant.
TypeOK ==
  /\ alloc_ptr \in 0 .. Word - 1
  /\ wrapped \in BOOLEAN /\ halted \in BOOLEAN
  /\ blocks \subseteq Block
  /\ ret \in -(IntWord \div 2) .. IntWord \div 2 - 1
  /\ calls \in 0 .. MaxCalls

\* Until alloc_ptr wraps, the bytes asked for in one call of kmalloc_simple,
\* and the whole pages given, never overlap those of a later call.  A size
\* within a page of the end of the word is rounded to an empty block; even that
\* disturbs no other block.
BlocksDisjoint ==
  ~wrapped => \A a, b \in blocks : a.id < b.id =>
                /\ a.base + a.len <= b.base
                /\ a.asked <= Word - PageSize => a.base + a.asked <= b.base

\* Blocks start on page boundaries, also after alloc_ptr has wrapped.
BlocksAligned == \A b \in blocks : b.base % PageSize = 0
============================================================================
