------------------------------ MODULE Process ------------------------------
(***************************************************************************)
(* The process table and the scheduler of lib/process.c: create_process,   *)
(* schedule, context_switch and init_process.  The kernel runs them one    *)
(* at a time: nothing in the tree calls schedule from an interrupt.        *)
(*                                                                         *)
(* Of a process control block the model keeps pid, state, entry, the user  *)
(* stack and three words of regs: word 0, word 30 and the word of the      *)
(* register in which the compiled context_switch holds its argument "next" *)
(* (rbx, word 1, in the x86_64 build).  Names, parents, exit codes and the *)
(* zero words of a new stack frame are left out.                           *)
(***************************************************************************)
EXTENDS Integers, FiniteSets

CONSTANTS
  MAX_PROCESSES,  \* slots of process_table
  InitTicks,      \* calls of schedule made by init_process
  Arch,           \* "x86_64" or "arm64"
  Clobbers,       \* the outcomes of the asm of restore_context, see Resumed
  Entries         \* entry points processes are created with

ASSUME ProcessConstants ==
  /\ MAX_PROCESSES \in Nat \ {0}
  /\ InitTicks \in Nat
  /\ Arch \in {"x86_64", "arm64"}
  /\ Clobbers \subseteq BOOLEAN /\ Clobbers # {}
  /\ Entries \cap {"zero", "live", "sp_el0", "init_process"} = {}

Slots == 0 .. MAX_PROCESSES - 1
NULL  == -1                      \* the null process_t pointer

RUNNING  == 0                    \* PROC_RUNNING, also what .bss holds
SLEEPING == 1                    \* PROC_SLEEPING

\* Words of regs and of entry, told apart by where they come from.
Zero     == "zero"
Live     == "live"               \* what the processor held at save_context
SpEl0    == "sp_el0"
InitFn   == "init_process"
EntryWords == Entries \cup {Zero, SpEl0, InitFn}
Words      == EntryWords \cup {Live}

\* How much of a stack the caller passed, and where user_stack points.
Spaces == {"none", "empty", "sized"}
Stacks == {"null", "top", "frame", "kernel"}

VARIABLES
  pid, state, entry, space, user_stack, regs,  \* process_table, by field
  current,      \* current_process
  next_pid,
  last_idx,     \* the static of schedule
  ticks         \* iterations left of the loop of init_process

vars == <<pid, state, entry, space, user_stack, regs, current, next_pid, last_idx,
          ticks>>

Image == [x0 : Words, next : Slots \cup {NULL}, lr : Words]

Blank == [x0 |-> Zero, next |-> NULL, lr |-> Zero]

\* The table and the statics of process.c in .bss.
Init ==
  /\ pid        = [i \in Slots |-> 0]
  /\ state      = [i \in Slots |-> RUNNING]
  /\ entry      = [i \in Slots |-> Zero]
  /\ space      = [i \in Slots |-> "none"]
  /\ user_stack = [i \in Slots |-> "null"]
  /\ regs       = [i \in Slots |-> Blank]
  /\ current    = NULL
  /\ next_pid   = 1
  /\ last_idx   = 0
  /\ ticks      = 0

Used(i)     == pid[i] # 0
Runnable(i) == Used(i) /\ state[i] = RUNNING
----------------------------------------------------------------------------
(* Contexts.                                                               *)

\* Mutants: save_context that saves nothing; that stores a word too many.
SavedNothing(image, held) == image
SavedEntryOverrun(i)      == Live

\* save_context: the registers of the processor.  x86_64 stores sixteen words
\* and leaves word 30; arm64 stores all 31 and then sp_el0 in the word after
\* regs[30], which is entry.
Saved(image, held) == [x0 |-> Live, next |-> held,
                       lr |-> IF Arch = "arm64" THEN Live ELSE image.lr]

SavedEntry(i) == IF Arch = "arm64" THEN SpEl0 ELSE entry[i]

\* create_process: words 0 and 30 are set, the others are left.
Created(image, e) == [x0 |-> e, next |-> image.next, lr |-> Zero]

\* Mutant of Fresh: a word of regs is not cleared.
FreshUncleared(e) == [x0 |-> e, next |-> 0, lr |-> e]

\* setup_context: regs is cleared, words 0 and 30 are the entry point.
Fresh(e) == [x0 |-> e, next |-> NULL, lr |-> e]

FreshStack(sp) == IF sp = "none" THEN "kernel" ELSE "frame"

\* Mutant of Resumed: the pointer is lost to the first slot.
ResumedFirst(nxt, image, clobbered) == IF clobbered THEN 0 ELSE nxt

\* context_switch's "next" after restore_context.  The asm loads registers it
\* does not declare as clobbered: where the compiler keeps "next" in one of
\* them, the variable is afterwards the word saved for that register.
Resumed(nxt, image, clobbered) == IF clobbered THEN image.next ELSE nxt

\* context_switch(prev, nxt): prev is saved and put to sleep; nxt is set up
\* if it is not PROC_RUNNING (so always when nxt = prev), marked running and
\* restored, and the variable next becomes current.
context_switch(prev, nxt) ==
  /\ prev # NULL \/ nxt # NULL
  /\ LET image  == [i \in Slots |-> IF i = prev THEN Saved(regs[i], nxt) ELSE regs[i]]
         ent    == [i \in Slots |-> IF i = prev THEN SavedEntry(i) ELSE entry[i]]
         asleep == [i \in Slots |-> IF i = prev THEN SLEEPING ELSE state[i]]
         setup  == nxt # NULL /\ asleep[nxt] # RUNNING
     IN  /\ entry' = ent
         /\ state' = [i \in Slots |-> IF i = nxt THEN RUNNING ELSE asleep[i]]
         /\ regs'  = [i \in Slots |-> IF i = nxt /\ setup THEN Fresh(ent[i])
                                                          ELSE image[i]]
         /\ user_stack' = [i \in Slots |-> IF i = nxt /\ setup
                                           THEN FreshStack(space[i])
                                           ELSE user_stack[i]]
         /\ IF nxt = NULL
            THEN current' = NULL
            ELSE \E clobbered \in Clobbers : current' = Resumed(nxt, regs'[nxt], clobbered)
----------------------------------------------------------------------------
(* Operations.                                                             *)

\* Mutants: any free slot; the counter of pids stays.
FreeSlotAny(i)  == ~ Used(i)
TakePidStuck(i) == pid' = [pid EXCEPT ![i] = next_pid] /\ UNCHANGED next_pid

\* The first free slot, and the pid it gets.
FreeSlot(i) == ~ Used(i) /\ \A j \in 0 .. i - 1 : Used(j)

TakePid(i) == pid' = [pid EXCEPT ![i] = next_pid] /\ next_pid' = next_pid + 1

\* create_process with entry point e and a stack of kind sp.
create_process(e, sp) ==
  /\ ticks = 0
  /\ \E i \in Slots :
       /\ FreeSlot(i)
       /\ TakePid(i)
       /\ state' = [state EXCEPT ![i] = RUNNING]
       /\ entry' = [entry EXCEPT ![i] = e]
       /\ space' = [space EXCEPT ![i] = sp]
       /\ user_stack' = IF sp = "sized" THEN [user_stack EXCEPT ![i] = "top"]
                                        ELSE user_stack
       /\ regs' = IF sp = "sized"
                  THEN [regs EXCEPT ![i] = Created(regs[i], e)]
                  ELSE regs
  /\ UNCHANGED <<current, last_idx, ticks>>

\* "Cannot create process: table full" is not a step: it changes nothing.

\* Mutant of Distance: the search starts at slot 0.
DistanceFromZero(i) == i + 1

\* The slot the round-robin search from last_idx+1 finds: no slot between the
\* two is runnable, and the search ends at last_idx itself.
Distance(i) == IF i > last_idx THEN i - last_idx ELSE i - last_idx + MAX_PROCESSES

Chosen(i) == Runnable(i) /\ \A j \in Slots : Runnable(j) => Distance(i) <= Distance(j)

\* schedule.  Without a current process, or without a runnable one, it returns
\* before it changes anything; when the choice is the current process only
\* last_idx moves.
schedule ==
  /\ current # NULL
  /\ \E i \in Slots :
       /\ Chosen(i)
       /\ last_idx' = i
       /\ IF i = current
          THEN UNCHANGED <<state, entry, user_stack, regs, current>>
          ELSE context_switch(current, i)
  /\ UNCHANGED <<pid, space, next_pid>>

ScheduleReturns ==
  /\ current = NULL \/ \A i \in Slots : ~ Runnable(i)
  /\ UNCHANGED <<pid, state, entry, space, user_stack, regs, current, next_pid, last_idx>>

\* schedule called by kernel code.
Yield == ticks = 0 /\ schedule /\ UNCHANGED ticks

\* init_process up to its loop: slot 0 becomes process 1, whoever had it.
init_process ==
  /\ ticks = 0
  /\ pid'   = [pid EXCEPT ![0] = 1]
  /\ state' = [state EXCEPT ![0] = RUNNING]
  /\ entry' = [entry EXCEPT ![0] = InitFn]
  /\ space' = [space EXCEPT ![0] = "none"]
  /\ regs'  = [regs EXCEPT ![0] = Fresh(InitFn)]
  /\ user_stack' = [user_stack EXCEPT ![0] = FreshStack("none")]
  /\ current' = 0
  /\ ticks'   = InitTicks
  /\ UNCHANGED <<next_pid, last_idx>>

\* One iteration of its loop.
InitTick ==
  /\ ticks > 0
  /\ ticks' = ticks - 1
  /\ schedule \/ ScheduleReturns

\* context_switch called by kernel code, with processes of the table.
Switch(prev, nxt) ==
  /\ ticks = 0
  /\ \A p \in {prev, nxt} : p # NULL => Used(p)
  /\ context_switch(prev, nxt)
  /\ UNCHANGED <<pid, space, next_pid, last_idx, ticks>>
----------------------------------------------------------------------------
Create == \E e \in Entries, sp \in Spaces : create_process(e, sp)

\* kernel_main calls init_process once, first; switches come from schedule.
Boot == current = NULL /\ pid[0] = 0 /\ init_process

KernelNext == Boot \/ InitTick \/ (Used(0) /\ Create) \/ Yield

KernelSpec == Init /\ [][KernelNext]_vars

\* Every exported function, in any order.
Next == init_process \/ InitTick \/ Create \/ Yield
        \/ \E p, n \in Slots \cup {NULL} : Switch(p, n)

Spec == Init /\ [][Next]_vars

\* The processor executes the loop of init_process, and afterwards schedule is
\* called again and again, by the timer init_process has as a TODO.
FairKernelSpec == KernelSpec /\ WF_vars(Boot) /\ WF_vars(InitTick) /\ WF_vars(Yield)
----------------------------------------------------------------------------
(* Properties.                                                             *)

\* Type invariant of the process table and the scheduler's statics.
TypeOK ==
  /\ pid \in [Slots -> Nat]
  /\ state \in [Slots -> {RUNNING, SLEEPING}]
  /\ entry \in [Slots -> EntryWords]
  /\ space \in [Slots -> Spaces]
  /\ user_stack \in [Slots -> Stacks]
  /\ regs \in [Slots -> Image]
  /\ current \in Slots \cup {NULL}
  /\ next_pid \in Nat \ {0}
  /\ last_idx \in Slots
  /\ ticks \in 0 .. InitTicks

\* current_process is NULL or points to a used slot in PROC_RUNNING, whatever
\* exported functions are called and whatever restore_context does to "next".
CurrentRunnable == current # NULL => Runnable(current)

\* The registers context_switch restores are always an initial image: a
\* process in PROC_RUNNING has no saved context in its regs, so the pointer
\* that may replace "next" is NULL and never another process.
RestoresInitialImage ==
  \A i \in Slots : Runnable(i) => regs[i].x0 # Live /\ regs[i].next = NULL

\* Processes made by create_process have different pids; only the slot that
\* init_process fills, with pid 1 and without moving next_pid, can collide.
PidsDistinct ==
  \A i, j \in Slots : Used(i) /\ pid[i] = pid[j] /\ i # j => 0 \in {i, j} /\ pid[i] = 1

\* The used slots are the first ones: create_process fails only when all of
\* them are in use, and init_process either finds slot 0 free with no process
\* in the table or takes over a process.
TableIsPrefix == \A i, j \in Slots : Used(i) /\ j < i => Used(j)

\* Under schedule, a process leaves current_process only with its registers
\* saved and asleep.
SwitchSaves ==
  [][\A i \in Slots : current = i /\ current' # i =>
       regs'[i].x0 = Live /\ state'[i] = SLEEPING]_vars

\* The entry point of a process is what it was created with: only
\* init_process, on slot 0, replaces it.
EntryStable ==
  [][\A i \in Slots : Used(i) /\ entry'[i] # entry[i] => i = 0 /\ entry'[i] = InitFn]_vars

\* schedule "finds the next runnable process and performs a context switch":
\* no runnable process is passed over for ever.
EveryRunnableIsDispatched ==
  \A i \in Slots : (Runnable(i) /\ current # NULL) ~> (current = i)

\* schedule is "round-robin": every process comes to run again and again.
RoundRobin == \A i \in Slots : [](Used(i) => <>(current = i))
============================================================================
