-------------------------------- MODULE Pic --------------------------------
(***************************************************************************)
(* Interrupts and exceptions on x86_64: interrupt_init (pic_remap,         *)
(* pic_mask_all, pic_unmask) and handle_irq of interrupt.c, one port access *)
(* per step, and handle_exception of exception.c.                          *)
(*                                                                         *)
(* The pair of 8259A controllers is external: a write to a command port    *)
(* with ICW1 starts an initialisation that takes the next three writes to  *)
(* the data port, and every other write to the data port sets the mask.    *)
(* So are the interrupt gates and sti, which the sources do not contain.   *)
(***************************************************************************)
EXTENDS Integers, Sequences, FiniteSetsExt

CONSTANTS
  Lines,      \* the interrupt lines devices use, 0 .. 15
  BiosMasks,  \* the masks firmware may leave in either controller
  Vectors     \* the exception vectors that occur

ASSUME PicConstants ==
  /\ Lines \subseteq 0 .. 15 /\ BiosMasks \subseteq 0 .. 255 /\ Vectors \subseteq 0 .. 31

Chips == {1, 2}
ICW1  == 17   \* ICW1_INIT | ICW1_ICW4

VARIABLES
  imr, irr, isr,  \* mask, request and service registers of each controller
  base,           \* the vector of line 0 of each controller
  icw,            \* the initialisation word the data port takes next, or 0
  mask,           \* mask1 and mask2 of pic_remap
  step,           \* accesses of interrupt_init made so far
  sti,            \* the processor takes interrupts
  pc,             \* "init", "main", "irq", "halted"
  vector          \* of the interrupt being handled

vars == <<imr, irr, isr, base, icw, mask, step, sti, pc, vector>>

Bit(v, b) == (v \div 2^b) % 2
NoVector  == -1

Clear(v, b) == v - Bit(v, b) * 2^b
----------------------------------------------------------------------------
(* The controllers.                                                        *)

Chip(line) == IF line < 8 THEN 1 ELSE 2
Pin(line)  == line % 8

\* What controller k can ask for: requested, unmasked, and of a lower number
\* than everything in service.
Ready(k, requests) ==
  {b \in requests : icw[k] = 0 /\ Bit(imr[k], b) = 0 /\ \A s \in isr[k] : b < s}

\* The second controller asks through pin 2 of the first.
Cascade == IF Ready(2, irr[2]) # {} THEN {2} ELSE {}
Asked   == Ready(1, irr[1] \cup Cascade)

outCmd(k) ==
  /\ icw' = [icw EXCEPT ![k] = 2]
  /\ imr' = [imr EXCEPT ![k] = 0]
  /\ irr' = [irr EXCEPT ![k] = {}]
  /\ isr' = [isr EXCEPT ![k] = {}]
  /\ UNCHANGED base

outData(k, v) ==
  /\ base' = IF icw[k] = 2 THEN [base EXCEPT ![k] = v] ELSE base
  /\ imr'  = IF icw[k] = 0 THEN [imr EXCEPT ![k] = v] ELSE imr
  /\ icw'  = [icw EXCEPT ![k] = CASE @ = 2 -> 3 [] @ = 3 -> 4 [] OTHER -> 0]
  /\ UNCHANGED <<irr, isr>>
----------------------------------------------------------------------------
Init ==
  /\ imr \in [Chips -> BiosMasks]
  /\ irr = [k \in Chips |-> {}] /\ isr = [k \in Chips |-> {}]
  /\ base = [k \in Chips |-> IF k = 1 THEN 8 ELSE 112]
  /\ icw = [k \in Chips |-> 0]
  /\ mask = [k \in Chips |-> 0]
  /\ step = 0 /\ sti = FALSE /\ pc = "init" /\ vector = NoVector

\* The accesses of interrupt_init: pic_remap, pic_mask_all, pic_unmask(1).
\* <<controller, kind, value>>; "restore" writes the mask read at the start.
pic_remap ==
  << <<1, "save", 0>>,    <<2, "save", 0>>,
     <<1, "cmd", ICW1>>,  <<2, "cmd", ICW1>>,
     <<1, "data", 32>>,   <<2, "data", 40>>,
     <<1, "data", 4>>,    <<2, "data", 2>>,
     <<1, "data", 1>>,    <<2, "data", 1>>,
     <<1, "restore", 0>>, <<2, "restore", 0>> >>

pic_mask_all == << <<1, "data", 255>>, <<2, "data", 255>> >>

pic_unmask(line) == << <<Chip(line), "unmask", Pin(line)>> >>

\* Mutant of interrupt_init: the lines are masked last.
interrupt_initMasksLast == pic_remap \o pic_unmask(1) \o pic_mask_all

interrupt_init == pic_remap \o pic_mask_all \o pic_unmask(1)

Access(k, kind, v) ==
  \/ kind = "save" /\ mask' = [mask EXCEPT ![k] = imr[k]]
                   /\ UNCHANGED <<imr, irr, isr, base, icw>>
  \/ kind = "cmd" /\ outCmd(k) /\ UNCHANGED mask
  \/ kind = "data" /\ outData(k, v) /\ UNCHANGED mask
  \/ kind = "restore" /\ outData(k, mask[k]) /\ UNCHANGED mask
  \/ kind = "unmask" /\ outData(k, Clear(imr[k], v)) /\ UNCHANGED mask

InitStep ==
  /\ pc = "init"
  /\ step' = step + 1
  /\ LET a == interrupt_init[step + 1] IN Access(a[1], a[2], a[3])
  /\ pc' = IF step' = Len(interrupt_init) THEN "main" ELSE "init"
  /\ UNCHANGED <<sti, vector>>
----------------------------------------------------------------------------
\* A device requests service.
Raise(line) ==
  /\ Pin(line) \notin irr[Chip(line)]
  /\ irr' = [irr EXCEPT ![Chip(line)] = @ \cup {Pin(line)}]
  /\ UNCHANGED <<imr, isr, base, icw, mask, step, sti, pc, vector>>

EnableInterrupts ==
  /\ pc = "main" /\ ~sti /\ sti' = TRUE
  /\ UNCHANGED <<imr, irr, isr, base, icw, mask, step, pc, vector>>

\* The processor takes the interrupt the controllers ask for.
TakeIrq ==
  /\ pc = "main" /\ sti /\ Asked # {}
  /\ LET pin   == Min(Asked)
         slave == Ready(2, irr[2])
         k     == IF pin = 2 /\ slave # {} THEN 2 ELSE 1
         b     == IF k = 2 THEN Min(slave) ELSE pin
     IN  /\ vector' = base[k] + b
         /\ irr' = [irr EXCEPT ![k] = @ \ {b}]
         /\ isr' = [j \in Chips |-> isr[j] \cup (IF j = k THEN {b} ELSE {})
                                           \cup (IF j = 1 THEN {pin} ELSE {})]
  /\ pc' = "irq"
  /\ UNCHANGED <<imr, base, icw, mask, step, sti>>

\* Mutant of handle_irq: it does not return.
handle_irqStays ==
  /\ pc = "irq" /\ pc' = pc /\ vector' = vector
  /\ UNCHANGED <<imr, irr, isr, base, icw, mask, step, sti>>

\* handle_irq prints the vector and returns.
handle_irq ==
  /\ pc = "irq" /\ pc' = "main" /\ vector' = NoVector
  /\ UNCHANGED <<imr, irr, isr, base, icw, mask, step, sti>>

\* handle_exception: divide error, invalid opcode, double fault, protection
\* and page faults stop the kernel; it returns from every other.
Fatal == {0, 6, 8, 13, 14}

handle_exception(v) ==
  /\ pc \in {"init", "main"}
  /\ pc' = IF v \in Fatal THEN "halted" ELSE pc
  /\ UNCHANGED <<imr, irr, isr, base, icw, mask, step, sti, vector>>

Next ==
  \/ InitStep
  \/ \E line \in Lines : Raise(line)
  \/ EnableInterrupts
  \/ TakeIrq
  \/ handle_irq
  \/ \E v \in Vectors : handle_exception(v)

Spec == Init /\ [][Next]_vars
----------------------------------------------------------------------------
(* Properties.                                                             *)

\* Type invariant.
TypeOK ==
  /\ imr \in [Chips -> 0 .. 255] /\ mask \in [Chips -> 0 .. 255]
  /\ irr \in [Chips -> SUBSET (0 .. 7)] /\ isr \in [Chips -> SUBSET (0 .. 7)]
  /\ base \in [Chips -> 0 .. 255] /\ icw \in [Chips -> {0, 2, 3, 4}]
  /\ step \in 0 .. Len(interrupt_init) /\ sti \in BOOLEAN
  /\ pc \in {"init", "main", "irq", "halted"}
  /\ vector \in {NoVector} \cup 0 .. 255

\* Whatever firmware left in the controllers, the fifteen accesses of
\* interrupt_init end with both ready, at vectors 0x20-0x2F, and only line 1
\* unmasked.
Remapped ==
  pc \in {"main", "irq"} =>
                 /\ icw = [k \in Chips |-> 0]
                 /\ base = [k \in Chips |-> IF k = 1 THEN 32 ELSE 40]
                 /\ imr = [k \in Chips |-> IF k = 1 THEN 253 ELSE 255]

\* The vector of an interrupt is never one handle_exception is called for.
VectorsApart == pc = "irq" => vector \notin 0 .. 31
============================================================================
