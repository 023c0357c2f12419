-------------------------------- MODULE Boot --------------------------------
(***************************************************************************)
(* From _start to init_process: .bss is cleared, mmu_enable builds the      *)
(* tables (PageTables) and calls kernel_main, which calls mm_init, then     *)
(* interrupt_init (Pic on x86_64) and the rest, one call after the other,   *)
(* while devices raise interrupts and instructions raise exceptions.        *)
(*                                                                         *)
(* The kernel runs only where its own pages translate to themselves; when   *)
(* they do not, phase is "lost" and the model says no more.  On arm64 that  *)
(* is where WriteSctlr leads: see Translate.                                *)
(***************************************************************************)
EXTENDS PageTables, Pic

CONSTANTS
  WordBytes,   \* 8, the bytes of a store of the loops that clear .bss
  BssSizes,    \* __bss_end - __bss_start
  KernelPages, \* 2MB pages of the image, its tables and its stack
  PoolPages    \* 2MB pages of the pool that mm_init links

ASSUME BootConstants ==
  /\ WordBytes \in Nat \ {0} /\ BssSizes \subseteq Nat
  /\ KernelPages \cup PoolPages \subseteq 0 .. Dirs * Entries - 1

VARIABLES
  phase,  \* the call _start or kernel_main makes next
  size,   \* of .bss
  bytes,  \* of memory from __bss_start, and a word past the end
  cursor  \* rdi or x1, from __bss_start

bootVars == <<phase, size, bytes, cursor>>
all      == <<tableVars, vars, bootVars>>

Phases == {"bss", "mmu", "mm", "irq", "fs", "usr", "init_process", "lost"}

BootInit ==
  /\ TablesInit /\ Init
  /\ phase = "bss" /\ cursor = 0
  /\ size \in BssSizes
  /\ bytes = [b \in 0 .. size + 2 * WordBytes - 1 |-> Junk]

\* The processor is not in a handler and not stopped.
Running == pc \in {"init", "main"}

\* Mutant of MoreWords: x86_64 compares before the last word.
MoreWordsShort == cursor + 2 * WordBytes <= size

\* rep stosq counts whole words; the loop of arm64 goes on while bytes are left.
MoreWords ==
  IF arch = "x86_64" THEN cursor + WordBytes <= size ELSE cursor < size

ClearBss ==
  /\ Running /\ phase = "bss" /\ MoreWords
  /\ bytes' = [b \in DOMAIN bytes |->
                 IF b \in cursor .. cursor + WordBytes - 1 THEN 0 ELSE bytes[b]]
  /\ cursor' = cursor + WordBytes
  /\ UNCHANGED <<phase, size, tableVars, vars>>

BssCleared ==
  /\ Running /\ phase = "bss" /\ ~MoreWords /\ phase' = "mmu"
  /\ UNCHANGED <<size, bytes, cursor, tableVars, vars>>

\* The pages the kernel uses: mm_init writes to the pool, later calls too.
Used == KernelPages \cup (IF phase \in {"bss", "mmu"} THEN {} ELSE PoolPages)

Mapped == \A p \in Used : Translate(p) = p

BuildTables ==
  /\ Running /\ phase = "mmu" /\ mmu_init
  /\ UNCHANGED <<bootVars, vars>>

Lose ==
  /\ Running /\ phase # "lost" /\ ~Mapped /\ phase' = "lost"
  /\ UNCHANGED <<size, bytes, cursor, tableVars, vars>>

\* mmu_enable calls kernel_main.
EnterKernel ==
  /\ Running /\ phase = "mmu" /\ mmu = "done" /\ Mapped /\ phase' = "mm"
  /\ UNCHANGED <<size, bytes, cursor, tableVars, vars>>

\* The calls of kernel_main that leave tables and controllers alone.
Order == [mm |-> "irq", fs |-> "usr", usr |-> "init_process"]

KernelCall ==
  /\ Running /\ Mapped
  /\ phase \in DOMAIN Order /\ phase' = Order[phase]
  /\ UNCHANGED <<size, bytes, cursor, tableVars, vars>>

InterruptInit ==
  /\ phase = "irq" /\ Mapped /\ InitStep
  /\ phase' = IF pc' = "main" THEN "fs" ELSE "irq"
  /\ UNCHANGED <<size, bytes, cursor, tableVars>>

KernelStep ==
  ClearBss \/ BssCleared \/ BuildTables \/ EnterKernel \/ KernelCall \/ InterruptInit \/ Lose

\* What devices, the processor and the handlers of x86_64 do meanwhile.
Interrupts ==
  /\ arch = "x86_64"
  /\ \/ \E line \in Lines : Raise(line)
     \/ EnableInterrupts
     \/ TakeIrq
     \/ handle_irq
     \/ \E v \in Vectors : handle_exception(v)
  /\ UNCHANGED <<bootVars, tableVars>>

BootNext == KernelStep \/ Interrupts

BootSpec == BootInit /\ [][BootNext]_all

\* The processor goes on executing, also out of the handler.
FairBootSpec ==
  /\ BootSpec
  /\ WF_all(KernelStep)
  /\ WF_all(handle_irq /\ UNCHANGED <<bootVars, tableVars>>)
----------------------------------------------------------------------------
(* Properties.                                                             *)

\* When mmu_enable is called, every whole word of .bss is zero, on arm64 the
\* last bytes too, and nothing from the next word boundary on was written.
BssZeroed ==
  phase # "bss" =>
    \A b \in DOMAIN bytes :
      /\ b < size - (size % WordBytes) => bytes[b] = 0
      /\ b < size /\ arch = "arm64" => bytes[b] = 0
      /\ b >= size + WordBytes - 1 => bytes[b] = Junk

\* At no step of the boot does an x86_64 kernel lose the pages it runs in, and
\* mm_init finds the pool mapped.
StaysMapped == arch = "x86_64" => Mapped /\ phase # "lost"

\* Unless a fatal exception stops it, the x86_64 kernel gets to init_process,
\* whatever interrupts arrive on the way.
ReachesInit == arch = "x86_64" => <>(phase = "init_process" \/ pc = "halted")
============================================================================
