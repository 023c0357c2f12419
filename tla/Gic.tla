-------------------------------- MODULE Gic --------------------------------
(***************************************************************************)
(* Interrupts and exceptions on arm64: handle_exception of exception.c,    *)
(* handle_irq and interrupt_init of interrupt.c, and the dispatch table of *)
(* lib/interrupt_dispatch.c, against devices that raise and withdraw       *)
(* interrupts at any moment.  One processor; it takes no interrupt while   *)
(* it handles one.                                                         *)
(*                                                                         *)
(* The GIC and the processor's exception entry are external: the GIC       *)
(* answers a read of IAR with the most urgent pending interrupt and makes  *)
(* it active until it is written to EOIR; an interrupt, unlike a           *)
(* synchronous exception, leaves the syndrome register ESR_EL1 as it was.  *)
(***************************************************************************)
EXTENDS Integers, FiniteSets

CONSTANTS
  Irqs,       \* the interrupt numbers devices use
  Handlers,   \* handler functions
  NoHandler,       \* no handler
  Wild,       \* what a read past the end of irq_dispatch_table may find
  Classes,    \* the exception classes (ESR_EL1 bits 31:26) that occur
  Distributor \* whether firmware left the distributor on: GICD_CTLR is not written

ASSUME GicConstants ==
  /\ Irqs \subseteq 0 .. 1019
  /\ NoHandler \notin Handlers /\ Wild \notin Handlers \cup {NoHandler}
  /\ Classes \subseteq 0 .. 63 /\ Distributor \in BOOLEAN

MAX_IRQ_HANDLERS   == 256
GIC_MAX_INTERRUPTS == 1020
Spurious           == 1023  \* IAR when nothing is pending
NoIrq              == -1

VARIABLES
  table,     \* irq_dispatch_table, for the numbers in Irqs it has room for
  enabled,   \* GICD_ISENABLER
  priority,  \* GICD_IPRIORITYR; a lower number is more urgent
  cpu_if,    \* GICC_CTLR and GICC_PMR let interrupts through
  pending,
  active,
  masked,    \* PSTATE.I outside exception handlers
  esr,       \* the class in ESR_EL1
  pc,        \* "main", the step of handle_irq, "handler", or "halted"
  irq_num,   \* handle_irq's local
  handler    \* the handler that runs

gicVars == <<table, enabled, priority, cpu_if, pending, active, masked, esr, pc,
             irq_num, handler>>

hardware == <<enabled, priority, cpu_if>>
TableSlots == {i \in Irqs : i < MAX_IRQ_HANDLERS}
----------------------------------------------------------------------------
GicInit ==
  /\ table = [i \in TableSlots |-> NoHandler]
  /\ enabled = {} /\ priority = [i \in Irqs |-> 0] /\ cpu_if = FALSE
  /\ pending = {} /\ active = {}
  /\ masked = TRUE
  /\ esr \in Classes
  /\ pc = "main" /\ irq_num = NoIrq /\ handler = NoHandler

\* The registers interrupt_init writes: four of GICD_ISENABLER and 32 of
\* GICD_IPRIORITYR, 16 bytes apart, each covering 32 and 4 interrupts.
EnabledByInit(i)  == \E k \in 0 .. 3 : i \div 32 = 4 * k
PriorityByInit(i) == \E k \in 0 .. 31 : i \div 4 = 4 * k

interrupt_init ==
  /\ pc = "main" /\ ~cpu_if
  /\ priority' = [i \in Irqs |-> IF PriorityByInit(i) THEN 128 ELSE priority[i]]
  /\ enabled' = enabled \cup {i \in Irqs : EnabledByInit(i)}
  /\ cpu_if' = TRUE
  /\ UNCHANGED <<table, pending, active, masked, esr, pc, irq_num, handler>>

\* irq_register and irq_unregister, from the main flow or from a handler; a
\* number outside the table is refused.
irq_register(i, h) ==
  /\ pc \in {"main", "handler"} /\ i \in TableSlots
  /\ table' = [table EXCEPT ![i] = h]
  /\ UNCHANGED <<hardware, pending, active, masked, esr, pc, irq_num, handler>>

irq_unregister(i) ==
  /\ pc \in {"main", "handler"} /\ i \in TableSlots
  /\ table' = [table EXCEPT ![i] = NoHandler]
  /\ UNCHANGED <<hardware, pending, active, masked, esr, pc, irq_num, handler>>

\* interrupts_enable and interrupts_disable: declared, not defined.
SetMask(m) ==
  /\ pc = "main" /\ masked' = m
  /\ UNCHANGED <<table, hardware, pending, active, esr, pc, irq_num, handler>>
----------------------------------------------------------------------------
(* Devices and the GIC.                                                    *)

Raise(i) ==
  /\ i \notin pending /\ pending' = pending \cup {i}
  /\ UNCHANGED <<table, hardware, active, masked, esr, pc, irq_num, handler>>

\* A level-sensitive line drops before it is acknowledged.
Withdraw(i) ==
  /\ i \in pending /\ pending' = pending \ {i}
  /\ UNCHANGED <<table, hardware, active, masked, esr, pc, irq_num, handler>>

\* The interrupts the GIC presents: enabled, pending, more urgent than the
\* active one.
Presented ==
  {i \in pending \cap enabled :
     Distributor /\ cpu_if /\ \A a \in active : priority[i] < priority[a]}

\* i goes before j: lower priority value, then lower number.
Before(i, j) == priority[i] < priority[j] \/ (priority[i] = priority[j] /\ i <= j)

Acknowledged ==
  IF Presented = {} THEN Spurious
  ELSE CHOOSE i \in Presented : \A j \in Presented : Before(i, j)
----------------------------------------------------------------------------
(* handle_exception.                                                       *)

\* The classes handle_exception panics on, and the one it takes for an
\* interrupt; on every other class it returns.
PanicClasses == {21, 22, 34, 35}   \* 0x15, 0x16, 0x22, 0x23
IrqClass     == 36                 \* 0x24

handle_exception(ec) ==
  pc' = IF ec \in PanicClasses THEN "halted"
        ELSE IF ec = IrqClass THEN "iar" ELSE "main"

\* A synchronous exception of class ec in the main flow.
Sync(ec) ==
  /\ pc = "main"
  /\ esr' = ec /\ handle_exception(ec)
  /\ UNCHANGED <<table, hardware, pending, active, masked, irq_num, handler>>

\* An interrupt: el1_irq passes on whatever class ESR_EL1 holds.
TakeIrq ==
  /\ pc = "main" /\ ~masked /\ Presented # {}
  /\ handle_exception(esr)
  /\ UNCHANGED <<table, hardware, pending, active, masked, esr, irq_num, handler>>
----------------------------------------------------------------------------
(* handle_irq.                                                             *)

ReadIar ==
  /\ pc = "iar"
  /\ irq_num' = Acknowledged
  /\ pending' = pending \ {irq_num'}
  /\ active' = active \cup ({irq_num'} \cap Irqs)
  /\ pc' = IF irq_num' \in {1020, 1021} THEN "return" ELSE "eoi"
  /\ UNCHANGED <<table, hardware, masked, esr, handler>>

\* Mutants of WriteEoi: only interrupts with a handler are completed; the
\* check against GIC_MAX_INTERRUPTS is dropped.
WriteEoiIfHandled ==
  /\ pc = "eoi"
  /\ active' = IF irq_num \in TableSlots /\ table[irq_num] # NoHandler THEN active \ {irq_num}
                                                             ELSE active
  /\ pc' = IF irq_num < GIC_MAX_INTERRUPTS THEN "dispatch" ELSE "return"
  /\ UNCHANGED <<table, hardware, pending, masked, esr, irq_num, handler>>

WriteEoiUnchecked ==
  /\ pc = "eoi"
  /\ active' = active \ {irq_num}
  /\ pc' = "dispatch"
  /\ UNCHANGED <<table, hardware, pending, masked, esr, irq_num, handler>>

WriteEoi ==
  /\ pc = "eoi"
  /\ active' = active \ {irq_num}
  /\ pc' = IF irq_num < GIC_MAX_INTERRUPTS THEN "dispatch" ELSE "return"
  /\ UNCHANGED <<table, hardware, pending, masked, esr, irq_num, handler>>

\* The read of irq_dispatch_table[irq_num] and the call.  Past the table's end
\* the read finds whatever the linker put there.
Entry(i) == IF i \in TableSlots THEN {table[i]} ELSE {NoHandler, Wild}

Dispatch ==
  /\ pc = "dispatch"
  /\ handler' \in Entry(irq_num)
  /\ pc' = IF handler' = NoHandler THEN "return" ELSE "handler"
  /\ UNCHANGED <<table, hardware, pending, active, masked, esr, irq_num>>

HandlerReturns ==
  /\ pc = "handler" /\ pc' = "return"
  /\ UNCHANGED <<table, hardware, pending, active, masked, esr, irq_num, handler>>

\* The return from the exception.
Return ==
  /\ pc = "return" /\ pc' = "main" /\ irq_num' = NoIrq /\ handler' = NoHandler
  /\ UNCHANGED <<table, hardware, pending, active, masked, esr>>

HandleIrq == ReadIar \/ WriteEoi \/ Dispatch \/ HandlerReturns \/ Return

GicNext ==
  \/ interrupt_init
  \/ \E i \in Irqs : Raise(i) \/ Withdraw(i) \/ irq_unregister(i)
                       \/ \E h \in Handlers : irq_register(i, h)
  \/ \E m \in BOOLEAN : SetMask(m)
  \/ \E ec \in Classes : Sync(ec)
  \/ TakeIrq
  \/ HandleIrq

GicSpec == GicInit /\ [][GicNext]_gicVars

\* The processor keeps executing, and takes an interrupt it keeps being offered.
GicFairSpec == GicSpec /\ WF_gicVars(TakeIrq) /\ WF_gicVars(HandleIrq)
----------------------------------------------------------------------------
(* Properties.                                                             *)

\* Type invariant.
GicTypeOK ==
  /\ table \in [TableSlots -> Handlers \cup {NoHandler}]
  /\ enabled \subseteq Irqs /\ pending \subseteq Irqs /\ active \subseteq Irqs
  /\ priority \in [Irqs -> {0, 128}]
  /\ cpu_if \in BOOLEAN /\ masked \in BOOLEAN
  /\ esr \in Classes
  /\ pc \in {"main", "iar", "eoi", "dispatch", "handler", "return", "halted"}
  /\ irq_num \in Irqs \cup {NoIrq, Spurious}
  /\ handler \in Handlers \cup {NoHandler, Wild}

\* handle_irq completes what it acknowledges: an interrupt is active only
\* between the read of IAR and the write of EOIR, so a handler runs, and the
\* exception returns, with nothing active and every interrupt deliverable.
Completed == active = (IF pc = "eoi" THEN {irq_num} \cap Irqs ELSE {})

\* A handler runs only for an interrupt a device raised, never for the
\* spurious number the GIC answers when the line dropped in between.
NoSpuriousCall == pc = "handler" => irq_num \in enabled

\* An enabled interrupt that no other goes before.
Urgent(i) ==
  /\ i \in enabled /\ cpu_if /\ Distributor
  /\ \A j \in Irqs : EnabledByInit(j) => Before(i, j)

\* Such an interrupt is acknowledged by handle_irq, or withdrawn, whatever was
\* taken before it, unless the kernel masks interrupts, leaves another class
\* in ESR_EL1 or stops.
UrgentIsTaken ==
  \A i \in Irqs :
    (i \in pending /\ Urgent(i)) ~> \/ i \notin pending
                                    \/ masked \/ esr # IrqClass \/ pc = "halted"

\* "Maximum number of IRQ handlers": no handler runs that was not registered.
OnlyRegistered == handler # Wild

\* "Handle a hardware IRQ": with interrupts on, an interrupt is not left
\* pending while the processor runs the main flow for ever.
IrqIsHandled ==
  \A i \in Irqs : (i \in Presented /\ ~masked) ~> (i \notin pending \/ masked \/ pc = "halted")
============================================================================
