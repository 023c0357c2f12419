---------------------------- MODULE KernelProofs ----------------------------
(***************************************************************************)
(* The interrupt path of arm64 and the process table.                      *)
(*                                                                         *)
(* Interrupts, for every set of interrupts, handlers and exception classes:*)
(* handle_irq completes every interrupt it acknowledges before a handler   *)
(* runs, and calls no handler for a spurious one.                          *)
(*                                                                         *)
(* Processes, for every table size, every set of entry points, both        *)
(* architectures and every outcome of restore_context: who is current, what*)
(* is restored, which pids are handed out.                                 *)
(***************************************************************************)
EXTENDS Gic, Process, WellFoundedInduction, TLAPS

----------------------------------------------------------------------------
(* The interrupt path: the specification of module Gic.                    *)

\* What the number in handle_irq's local may be at each of its steps: between
\* the read of IAR and the dispatch it is an interrupt the GIC presented or
\* the spurious number, which is gone before the dispatch.
Acknowledgement ==
  /\ pc = "eoi" => irq_num \in enabled \cup {Spurious}
  /\ pc \in {"dispatch", "handler"} => irq_num \in enabled

\* The inductive invariant.
GicInv == GicTypeOK /\ Completed /\ Acknowledgement

\* A set of natural numbers that is not empty has a least element.
LEMMA LeastNatural ==
  ASSUME NEW S, S \subseteq Nat, S # {}
  PROVE  \E x \in S : \A y \in S : x <= y
<1> DEFINE R == OpToRel(<, Nat)
<1>1. \A x, y \in Nat : y < x => <<y, x>> \in R
  BY DEF OpToRel
<1>2. IsWellFoundedOn(R, Nat)
  BY NatLessThanWellFounded
<1> HIDE DEF R
<1>3. PICK x \in S : \A y \in S : ~ (<<y, x>> \in R)
  BY <1>2, WFMin, Zenon
<1>4. \A y \in S : ~ (y < x)
  BY <1>1, <1>3, Zenon
<1>5. \A y \in S : x <= y
  BY <1>4
<1> QED
  BY <1>5

\* One of the interrupts presented goes before all others: lowest priority
\* value first, then the lowest number.
LEMMA FirstPresented ==
  ASSUME GicTypeOK, Presented # {}
  PROVE  \E i \in Presented : \A j \in Presented : Before(i, j)
<1>1. Presented \subseteq Irqs /\ Irqs \subseteq Nat /\ \A i \in Irqs : priority[i] \in Nat
  <2>1. Presented \subseteq pending /\ pending \subseteq Irqs
    BY DEF GicTypeOK, Presented
  <2>2. Irqs \subseteq 0 .. 1019 /\ priority \in [Irqs -> {0, 128}]
    BY GicConstants DEF GicTypeOK
  <2> QED
    BY <2>1, <2>2
<1> DEFINE P == {priority[i] : i \in Presented}
<1>2. PICK x \in P : \A y \in P : x <= y
  <2>1. P \subseteq Nat /\ P # {}
    BY <1>1
  <2> HIDE DEF P
  <2> QED BY <2>1, LeastNatural
<1> DEFINE Q == {i \in Presented : priority[i] = x}
<1>3. PICK i \in Q : \A j \in Q : i <= j
  <2>1. Q \subseteq Nat /\ Q # {}
    BY <1>1
  <2> HIDE DEF Q
  <2> QED BY <2>1, LeastNatural
<1>4. \A j \in Presented : x \in Nat /\ priority[j] \in Nat /\ x <= priority[j]
  BY <1>1, <1>2
<1>5. \A j \in Presented : Before(i, j)
  BY <1>3, <1>4 DEF Before
<1> QED
  BY <1>3, <1>5

\* A read of IAR gives an enabled interrupt or the spurious number.
LEMMA AcknowledgedRange ==
  ASSUME GicTypeOK
  PROVE  Acknowledged \in enabled \cup {Spurious}
<1>1. CASE Presented = {}
  BY <1>1 DEF Acknowledged
<1>2. CASE Presented # {}
  <2>1. Acknowledged \in Presented
    BY <1>2, FirstPresented DEF Acknowledged
  <2> QED
    BY <2>1 DEF Presented
<1> QED
  BY <1>1, <1>2
----------------------------------------------------------------------------
\* The reset state satisfies the invariant.
LEMMA InitGicInv == GicInit => GicInv
<1> SUFFICES ASSUME GicInit PROVE GicInv
  OBVIOUS
<1>1. GicTypeOK
  <2>1. table \in [TableSlots -> Handlers \cup {NoHandler}] /\ priority \in [Irqs -> {0, 128}]
    BY DEF GicInit
  <2>2. cpu_if \in BOOLEAN /\ masked \in BOOLEAN
    BY DEF GicInit
  <2> QED
    BY <2>1, <2>2 DEF GicInit, GicTypeOK
<1>2. Completed /\ Acknowledgement
  BY DEF GicInit, Completed, Acknowledgement
<1> QED
  BY <1>1, <1>2 DEF GicInv

\* The read of IAR makes the interrupt active that the local names.
LEMMA ReadIarStep ==
  ASSUME GicInv, ReadIar
  PROVE  GicInv'
<1>1. irq_num' \in enabled \cup {Spurious} /\ enabled \subseteq Irqs
  BY AcknowledgedRange DEF GicInv, GicTypeOK, ReadIar
<1>2. Irqs \subseteq 0 .. 1019 /\ Spurious = 1023
  BY GicConstants DEF Spurious
<1>3. pc = "iar" /\ pc' = "eoi" /\ active' = {irq_num'} \cap Irqs
  BY <1>1, <1>2, SMTT(60) DEF GicInv, Completed, ReadIar
<1>4. GicTypeOK'
  BY <1>1, <1>3 DEF GicInv, GicTypeOK, ReadIar, hardware
<1>5. Completed' /\ Acknowledgement'
  BY <1>1, <1>3 DEF Completed, Acknowledgement, ReadIar, hardware
<1> QED
  BY <1>4, <1>5 DEF GicInv

\* The write of EOIR leaves nothing active, and the check against
\* GIC_MAX_INTERRUPTS keeps the spurious number from the dispatch.
LEMMA WriteEoiStep ==
  ASSUME GicInv, WriteEoi
  PROVE  GicInv'
<1>1. pc = "eoi" /\ irq_num \in enabled \cup {Spurious} /\ active' = {}
  BY DEF GicInv, Completed, Acknowledgement, WriteEoi
<1>2. pc' \in {"dispatch", "return"} /\ (pc' = "dispatch" => irq_num \in enabled)
  BY <1>1 DEF WriteEoi, Spurious, GIC_MAX_INTERRUPTS
<1>3. GicTypeOK'
  BY <1>1, <1>2 DEF GicInv, GicTypeOK, WriteEoi, hardware
<1>4. Completed' /\ Acknowledgement'
  BY <1>1, <1>2 DEF Completed, Acknowledgement, WriteEoi, hardware
<1> QED
  BY <1>3, <1>4 DEF GicInv

\* Every other step of handle_irq leaves the interrupt state alone.
LEMMA DispatchStep ==
  ASSUME GicInv, Dispatch \/ HandlerReturns \/ Return
  PROVE  GicInv'
<1>1. CASE Dispatch
  <2>1. handler' \in Handlers \cup {NoHandler, Wild} /\ pc' \in {"return", "handler"}
    BY <1>1 DEF Dispatch, Entry, GicInv, GicTypeOK
  <2> QED
    BY <1>1, <2>1 DEF Dispatch, GicInv, GicTypeOK, Completed, Acknowledgement, hardware
<1>2. CASE HandlerReturns
  BY <1>2 DEF HandlerReturns, GicInv, GicTypeOK, Completed, Acknowledgement, hardware
<1>3. CASE Return
  BY <1>3 DEF Return, GicInv, GicTypeOK, Completed, Acknowledgement, hardware
<1> QED
  BY <1>1, <1>2, <1>3

\* Steps outside handle_irq: initialisation, registration, masking, devices,
\* and the two ways into handle_exception.
LEMMA OutsideStep ==
  ASSUME GicInv,
         \/ interrupt_init
         \/ \E i \in Irqs : Raise(i) \/ Withdraw(i) \/ irq_unregister(i)
                              \/ \E h \in Handlers : irq_register(i, h)
         \/ \E m \in BOOLEAN : SetMask(m)
         \/ \E ec \in Classes : Sync(ec)
         \/ TakeIrq
  PROVE  GicInv'
<1>1. CASE interrupt_init
  BY <1>1 DEF interrupt_init, GicInv, GicTypeOK, Completed, Acknowledgement
<1>2. ASSUME NEW i \in Irqs, Raise(i) \/ Withdraw(i)
      PROVE  GicInv'
  BY <1>2 DEF Raise, Withdraw, GicInv, GicTypeOK, Completed, Acknowledgement, hardware
<1>3. ASSUME NEW i \in Irqs, NEW h \in Handlers, irq_register(i, h)
      PROVE  GicInv'
  BY <1>3 DEF irq_register, GicInv, GicTypeOK, Completed, Acknowledgement, hardware
<1>4. ASSUME NEW i \in Irqs, irq_unregister(i)
      PROVE  GicInv'
  BY <1>4 DEF irq_unregister, GicInv, GicTypeOK, Completed, Acknowledgement, hardware
<1>5. ASSUME NEW m \in BOOLEAN, SetMask(m)
      PROVE  GicInv'
  BY <1>5 DEF SetMask, GicInv, GicTypeOK, Completed, Acknowledgement, hardware
<1>6. ASSUME NEW ec \in Classes, Sync(ec) \/ (TakeIrq /\ ec = esr)
      PROVE  GicInv'
  <2>1. /\ pc = "main" /\ pc' \in {"halted", "iar", "main"}
        /\ esr' \in Classes
        /\ UNCHANGED <<table, hardware, pending, active, masked, irq_num, handler>>
    BY <1>6 DEF Sync, TakeIrq, handle_exception, GicInv, GicTypeOK
  <2> QED
    BY <2>1 DEF GicInv, GicTypeOK, Completed, Acknowledgement, hardware
<1>7. TakeIrq => \E ec \in Classes : TakeIrq /\ ec = esr
  BY DEF GicInv, GicTypeOK
<1> QED
  BY <1>1, <1>2, <1>3, <1>4, <1>5, <1>6, <1>7

\* Every step preserves the invariant.
LEMMA NextGicInv == GicInv /\ [GicNext]_gicVars => GicInv'
<1> SUFFICES ASSUME GicInv, [GicNext]_gicVars PROVE GicInv'
  OBVIOUS
<1>1. CASE HandleIrq
  BY <1>1, ReadIarStep, WriteEoiStep, DispatchStep DEF HandleIrq
<1>2. CASE UNCHANGED gicVars
  BY <1>2 DEF gicVars, GicInv, GicTypeOK, Completed, Acknowledgement
<1> QED
  BY <1>1, <1>2, OutsideStep DEF GicNext

\* The invariant of the interrupt path.
THEOREM GicInvariance == GicSpec => []GicInv
  BY InitGicInv, NextGicInv, PTL DEF GicSpec

\* Table, registers and locals keep their ranges (TypeOK), in particular IAR
\* never answers with a number handle_irq does not expect.
THEOREM GicTypeCorrect == GicSpec => []GicTypeOK
<1>1. GicInv => GicTypeOK
  BY DEF GicInv
<1> QED
  BY GicInvariance, <1>1, PTL

\* handle_irq writes to EOIR every number it read from IAR, before the handler
\* runs, whatever devices raise and withdraw in between.
THEOREM InterruptsCompleted == GicSpec => []Completed
<1>1. GicInv => Completed
  BY DEF GicInv
<1> QED
  BY GicInvariance, <1>1, PTL

\* No handler is called for the spurious number.
THEOREM SpuriousNotDispatched == GicSpec => []NoSpuriousCall
<1>1. GicInv => NoSpuriousCall
  BY DEF GicInv, Acknowledgement, NoSpuriousCall
<1> QED
  BY GicInvariance, <1>1, PTL

----------------------------------------------------------------------------
(* The process table: the specification of module Process.                 *)

\* What pids rest on: slot 0 is filled first and only ever holds pid 1, and
\* create_process hands out next_pid, which exceeds every pid outside slot 0.
PidInv ==
  /\ pid[0] \in {0, 1}
  /\ \A i \in Slots : i # 0 => pid[i] < next_pid
  /\ \A i, j \in Slots : i # 0 /\ j # 0 /\ i # j /\ Used(i) => pid[i] # pid[j]
  /\ ~ Used(0) => next_pid = 1

\* The registers of a slot nobody used yet are those of .bss.
UnusedBlank == \A i \in Slots : ~ Used(i) => regs[i] = Blank

\* The inductive invariant of Spec.
IInv ==
  /\ TypeOK
  /\ CurrentRunnable
  /\ RestoresInitialImage
  /\ UnusedBlank
  /\ TableIsPrefix
  /\ PidInv

USE DEF RUNNING, SLEEPING, NULL, Zero, Live, SpEl0, InitFn

\* Slot 0 exists, and no slot is the null pointer.
LEMMA SlotFacts == 0 \in Slots /\ NULL \notin Slots /\ Slots \subseteq Nat
  BY ProcessConstants DEF Slots

\* Init of process.c's .bss satisfies the inductive invariant.
LEMMA InitIInv == Init => IInv
<1> SUFFICES ASSUME Init PROVE IInv
  OBVIOUS
<1>1. TypeOK
  BY SlotFacts, ProcessConstants
  DEF Init, TypeOK, Words, EntryWords, Spaces, Stacks, Image, Blank
<1>2. CurrentRunnable /\ RestoresInitialImage /\ UnusedBlank /\ TableIsPrefix /\ PidInv
  BY SlotFacts
  DEF Init, UnusedBlank, CurrentRunnable, RestoresInitialImage, TableIsPrefix, PidInv, Runnable, Used
<1> QED
  BY <1>1, <1>2 DEF IInv

\* The effect of context_switch on two slots of the table.
LEMMA ContextSwitchStep ==
  ASSUME TypeOK, RestoresInitialImage, UnusedBlank,
         NEW prev \in Slots \cup {NULL}, NEW nxt \in Slots \cup {NULL},
         prev # NULL => Used(prev), nxt # NULL => Used(nxt),
         context_switch(prev, nxt), UNCHANGED pid
  PROVE  /\ state' \in [Slots -> {RUNNING, SLEEPING}]
         /\ entry' \in [Slots -> EntryWords]
         /\ user_stack' \in [Slots -> Stacks]
         /\ regs' \in [Slots -> Image]
         /\ current' \in Slots \cup {NULL}
         /\ CurrentRunnable'
         /\ RestoresInitialImage'
         /\ UnusedBlank'
<1>1. state' \in [Slots -> {RUNNING, SLEEPING}]
  BY DEF context_switch, TypeOK
<1>2. entry' \in [Slots -> EntryWords]
  BY DEF context_switch, TypeOK, SavedEntry, EntryWords
<1>3. user_stack' \in [Slots -> Stacks]
  BY DEF context_switch, TypeOK, FreshStack, Stacks
<1>4. regs' \in [Slots -> Image]
  <2> SUFFICES ASSUME NEW i \in Slots PROVE regs'[i] \in Image
    BY DEF context_switch
  <2>1. Saved(regs[i], nxt) \in Image
    BY DEF Saved, Image, TypeOK, Words
  <2>2. Fresh(entry'[i]) \in Image
    BY <1>2 DEF Fresh, Image, Words, EntryWords
  <2>3. regs'[i] \in {Saved(regs[i], nxt), Fresh(entry'[i]), regs[i]}
    BY DEF context_switch
  <2> QED
    BY <2>1, <2>2, <2>3 DEF TypeOK
<1>5. RestoresInitialImage'
  <2> SUFFICES ASSUME NEW i \in Slots, Runnable(i)'
               PROVE  regs'[i].x0 # Live /\ regs'[i].next = NULL
    BY DEF RestoresInitialImage
  <2>1. CASE i # nxt
    <3>1. i # prev /\ Runnable(i) /\ regs'[i] = regs[i]
      BY <2>1 DEF context_switch, Runnable, Used
    <3> QED
      BY <3>1 DEF RestoresInitialImage
  <2>2. CASE i = nxt /\ i # prev /\ state[i] = RUNNING
    <3>1. Runnable(i) /\ regs'[i] = regs[i]
      BY <2>2 DEF context_switch, Runnable, Used
    <3> QED
      BY <3>1 DEF RestoresInitialImage
  <2>3. CASE i = nxt /\ ~ (i # prev /\ state[i] = RUNNING)
    <3>1. regs'[i] = Fresh(entry'[i])
      BY <2>3, SlotFacts DEF context_switch
    <3>2. entry'[i] # Live
      BY <1>2, ProcessConstants DEF EntryWords
    <3> QED
      BY <3>1, <3>2 DEF Fresh
  <2> QED
    BY <2>1, <2>2, <2>3
<1>6. current' \in Slots \cup {NULL} /\ CurrentRunnable'
  <2>1. CASE nxt = NULL
    BY <2>1 DEF context_switch, CurrentRunnable
  <2>2. CASE nxt # NULL
    <3>1. nxt \in Slots /\ Runnable(nxt)'
      BY <2>2 DEF context_switch, Runnable, Used
    <3>2. regs'[nxt].next = NULL
      BY <1>5, <3>1 DEF RestoresInitialImage
    <3>3. current' \in {nxt, NULL}
      BY <2>2, <3>2 DEF context_switch, Resumed
    <3> QED
      BY <3>1, <3>3 DEF CurrentRunnable
  <2> QED
    BY <2>1, <2>2
<1>7. UnusedBlank'
  <2> SUFFICES ASSUME NEW i \in Slots, ~ Used(i)'
               PROVE  regs'[i] = Blank
    BY DEF UnusedBlank
  <2>1. ~ Used(i) /\ i # prev /\ i # nxt
    BY SlotFacts DEF Used
  <2>2. regs'[i] = regs[i]
    BY <2>1 DEF context_switch
  <2> QED
    BY <2>1, <2>2 DEF UnusedBlank
<1> QED
  BY <1>1, <1>2, <1>3, <1>4, <1>5, <1>6, <1>7

\* create_process keeps the invariant: the new process gets a pid larger than
\* every other outside slot 0, and its registers are still those of .bss.
LEMMA CreateStep ==
  ASSUME IInv, NEW e \in Entries, NEW sp \in Spaces, create_process(e, sp)
  PROVE  IInv'
<1> USE SlotFacts
<1>1. PICK i \in Slots : 
        /\ FreeSlot(i)
        /\ pid'   = [pid EXCEPT ![i] = next_pid]
        /\ state' = [state EXCEPT ![i] = RUNNING]
        /\ entry' = [entry EXCEPT ![i] = e]
        /\ space' = [space EXCEPT ![i] = sp]
        /\ user_stack' = IF sp = "sized" THEN [user_stack EXCEPT ![i] = "top"]
                                         ELSE user_stack
        /\ regs' = IF sp = "sized"
                   THEN [regs EXCEPT ![i] = Created(regs[i], e)]
                   ELSE regs
  BY DEF create_process, TakePid
<1>2. next_pid' = next_pid + 1 /\ UNCHANGED <<current, last_idx, ticks>>
  BY DEF create_process, TakePid
<1>3. TypeOK'
  <2>1. Created(regs[i], e) \in Image
    <3>1. regs[i] \in Image
      BY DEF IInv, TypeOK
    <3>2. e \in Words /\ Zero \in Words
      BY DEF Words, EntryWords
    <3> QED
      BY <3>1, <3>2 DEF Image, Created
  <2>2. regs' \in [Slots -> Image]
    <3>1. regs' = regs \/ regs' = [regs EXCEPT ![i] = Created(regs[i], e)]
      BY <1>1
    <3>2. regs \in [Slots -> Image]
      BY DEF IInv, TypeOK
    <3> QED
      BY <2>1, <3>1, <3>2
  <2>3. entry' \in [Slots -> EntryWords] /\ user_stack' \in [Slots -> Stacks]
    BY <1>1 DEF IInv, TypeOK, EntryWords, Stacks
  <2> QED
    BY <1>1, <1>2, <2>2, <2>3 DEF IInv, TypeOK
<1>4. CurrentRunnable'
  BY <1>1, <1>2 DEF IInv, TypeOK, CurrentRunnable, Runnable, Used, FreeSlot
<1>5. TableIsPrefix'
  <2> SUFFICES ASSUME NEW k \in Slots, NEW j \in Slots, Used(k)', j < k
               PROVE  Used(j)'
    BY DEF TableIsPrefix
  <2> QED
    BY <1>1 DEF IInv, TypeOK, TableIsPrefix, FreeSlot, Used, Slots
<1>6. PidInv'
  <2>1. i # 0 => Used(0)
    BY <1>1 DEF FreeSlot, Slots
  <2>2. i = 0 => next_pid = 1 /\ \A j \in Slots : ~ Used(j)
    BY <1>1 DEF IInv, PidInv, FreeSlot, TableIsPrefix, Slots
  <2> QED
    BY <1>1, <1>2, <2>1, <2>2 DEF IInv, TypeOK, PidInv, Used
<1>7. RestoresInitialImage' /\ UnusedBlank'
  <2>1. \A j \in Slots : j # i => regs'[j] = regs[j] /\ (Used(j)' <=> Used(j))
                                  /\ (Runnable(j)' <=> Runnable(j))
    BY <1>1 DEF IInv, TypeOK, Used, Runnable
  <2>2. Used(i)'
    BY <1>1 DEF IInv, TypeOK, Used
  <2>3. regs[i] = Blank
    BY <1>1 DEF IInv, UnusedBlank, FreeSlot
  <2>4. regs'[i] \in {Blank, Created(Blank, e)}
    <3>1. regs' = regs \/ regs' = [regs EXCEPT ![i] = Created(regs[i], e)]
      BY <1>1
    <3>2. i \in DOMAIN regs
      BY DEF IInv, TypeOK
    <3> QED
      BY <2>3, <3>1, <3>2
  <2>5. regs'[i].x0 # Live /\ regs'[i].next = NULL
    <3>1. e # Live
      BY ProcessConstants
    <3>2. Blank.x0 # Live /\ Blank.next = NULL
      BY DEF Blank
    <3>3. Created(Blank, e).x0 = e /\ Created(Blank, e).next = NULL
      BY <3>2 DEF Created
    <3> QED
      BY <2>4, <3>1, <3>2, <3>3
  <2> QED
    BY <2>1, <2>2, <2>5 DEF IInv, RestoresInitialImage, UnusedBlank
<1> QED
  BY <1>3, <1>4, <1>5, <1>6, <1>7 DEF IInv

\* init_process keeps the invariant, whether slot 0 was free or not.
LEMMA InitProcessStep == ASSUME IInv, init_process PROVE IInv'
<1> USE SlotFacts
<1>1. TypeOK'
  <2>1. Fresh(InitFn) \in Image
    BY DEF Fresh, Image, Words, EntryWords
  <2>2. entry' \in [Slots -> EntryWords] /\ user_stack' \in [Slots -> Stacks]
        /\ space' \in [Slots -> Spaces]
    BY DEF init_process, IInv, TypeOK, EntryWords, Stacks, Spaces, FreshStack
  <2> QED
    BY <2>1, <2>2, ProcessConstants DEF init_process, IInv, TypeOK
<1>2. CurrentRunnable'
  BY DEF init_process, IInv, TypeOK, CurrentRunnable, Runnable, Used
<1>3. RestoresInitialImage' /\ UnusedBlank'
  BY DEF init_process, IInv, TypeOK, RestoresInitialImage, UnusedBlank, Runnable, Used,
         Fresh
<1>4. TableIsPrefix'
  BY DEF init_process, IInv, TypeOK, TableIsPrefix, Used, Slots
<1>5. PidInv'
  BY DEF init_process, IInv, TypeOK, PidInv, Used
<1> QED
  BY <1>1, <1>2, <1>3, <1>4, <1>5 DEF IInv

\* A call of context_switch on processes of the table keeps the invariant.
LEMMA SwitchStep ==
  ASSUME IInv,
         NEW prev \in Slots \cup {NULL}, NEW nxt \in Slots \cup {NULL},
         prev # NULL => Used(prev), nxt # NULL => Used(nxt),
         context_switch(prev, nxt),
         UNCHANGED <<pid, space, next_pid>>,
         last_idx' \in Slots, ticks' \in 0 .. InitTicks
  PROVE  IInv'
<1>1. /\ state' \in [Slots -> {RUNNING, SLEEPING}]
      /\ entry' \in [Slots -> EntryWords]
      /\ user_stack' \in [Slots -> Stacks]
      /\ regs' \in [Slots -> Image]
      /\ current' \in Slots \cup {NULL}
      /\ CurrentRunnable' /\ RestoresInitialImage' /\ UnusedBlank'
  BY ContextSwitchStep DEF IInv
<1>2. TypeOK'
  BY <1>1 DEF IInv, TypeOK
<1>3. TableIsPrefix' /\ PidInv'
  BY DEF IInv, TableIsPrefix, PidInv, Used
<1> QED
  BY <1>1, <1>2, <1>3 DEF IInv

\* schedule keeps the invariant: it only switches between used slots.
LEMMA ScheduleStep ==
  ASSUME IInv, schedule, ticks' \in 0 .. InitTicks
  PROVE  IInv'
<1>1. PICK i \in Slots :
        /\ Chosen(i)
        /\ last_idx' = i
        /\ IF i = current
           THEN UNCHANGED <<state, entry, user_stack, regs, current>>
           ELSE context_switch(current, i)
  BY DEF schedule
<1>2. UNCHANGED <<pid, space, next_pid>> /\ current # NULL
  BY DEF schedule
<1>3. CASE i = current
  BY <1>1, <1>2, <1>3
  DEF IInv, TypeOK, CurrentRunnable, RestoresInitialImage, UnusedBlank, TableIsPrefix,
      PidInv, Runnable, Used
<1>4. CASE i # current
  <2>1. current \in Slots \cup {NULL} /\ Used(current) /\ Used(i)
    BY <1>1, <1>2 DEF IInv, TypeOK, CurrentRunnable, Runnable, Chosen
  <2> QED
    BY <1>1, <1>2, <1>4, <2>1, SwitchStep
<1> QED
  BY <1>3, <1>4

\* Every step of the process table keeps the inductive invariant.
LEMMA NextIInv == IInv /\ [Next]_vars => IInv'
<1> SUFFICES ASSUME IInv, [Next]_vars PROVE IInv'
  OBVIOUS
<1>1. CASE init_process
  BY <1>1, InitProcessStep
<1>2. CASE InitTick
  <2>1. ticks' \in 0 .. InitTicks
    BY <1>2, ProcessConstants DEF InitTick, IInv, TypeOK
  <2>2. CASE schedule
    BY <2>1, <2>2, ScheduleStep
  <2>3. CASE ScheduleReturns
    BY <2>1, <2>3
    DEF ScheduleReturns, IInv, TypeOK, CurrentRunnable, RestoresInitialImage,
        UnusedBlank, TableIsPrefix, PidInv, Runnable, Used
  <2> QED
    BY <1>2, <2>2, <2>3 DEF InitTick
<1>3. CASE Create
  BY <1>3, CreateStep DEF Create
<1>4. CASE Yield
  BY <1>4, ScheduleStep DEF Yield, IInv, TypeOK
<1>5. ASSUME NEW p \in Slots \cup {NULL}, NEW n \in Slots \cup {NULL}, Switch(p, n)
      PROVE  IInv'
  BY <1>5, SwitchStep DEF Switch, IInv, TypeOK
<1>6. CASE UNCHANGED vars
  BY <1>6
  DEF vars, IInv, TypeOK, CurrentRunnable, RestoresInitialImage, UnusedBlank,
      TableIsPrefix, PidInv, Runnable, Used
<1> QED
  BY <1>1, <1>2, <1>3, <1>4, <1>5, <1>6 DEF Next

\* IInv holds in every state of every behaviour of the process table.
THEOREM Invariance == Spec => []IInv
  BY InitIInv, NextIInv, PTL DEF Spec

\* The table and the scheduler's statics are always well typed.
THEOREM TypeCorrect == Spec => []TypeOK
<1>1. IInv => TypeOK
  BY DEF IInv
<1> QED
  BY <1>1, Invariance, PTL

\* current_process is NULL or a used slot in PROC_RUNNING.
THEOREM CurrentIsRunnable == Spec => []CurrentRunnable
<1>1. IInv => CurrentRunnable
  BY DEF IInv
<1> QED
  BY <1>1, Invariance, PTL

\* restore_context never loads registers that save_context stored.
THEOREM OnlyInitialImages == Spec => []RestoresInitialImage
<1>1. IInv => RestoresInitialImage
  BY DEF IInv
<1> QED
  BY <1>1, Invariance, PTL

\* Two processes have the same pid only if one of them is in init's slot.
THEOREM DistinctPids == Spec => []PidsDistinct
<1>1. IInv => PidsDistinct
  <2> SUFFICES ASSUME IInv, NEW i \in Slots, NEW j \in Slots,
                      Used(i), pid[i] = pid[j], i # j
               PROVE  0 \in {i, j} /\ pid[i] = 1
    BY DEF PidsDistinct
  <2> QED
    BY SlotFacts DEF IInv, PidInv, Used
<1> QED
  BY <1>1, Invariance, PTL

\* The used slots are always the first ones.
THEOREM PrefixTable == Spec => []TableIsPrefix
<1>1. IInv => TableIsPrefix
  BY DEF IInv
<1> QED
  BY <1>1, Invariance, PTL

\* On x86_64 no operation but init_process changes an entry point: the sixteen
\* words save_context stores stay inside regs.
THEOREM EntryIsStable ==
  ASSUME Arch = "x86_64"
  PROVE  Spec => EntryStable
<1> DEFINE Kept(i) == Used(i) /\ entry'[i] # entry[i] => i = 0 /\ entry'[i] = InitFn
<1>1. TypeOK /\ [Next]_vars => [\A i \in Slots : Kept(i)]_vars
  <2> SUFFICES ASSUME TypeOK, Next, NEW i \in Slots PROVE Kept(i)
    OBVIOUS
  <2>1. ASSUME NEW p, NEW n, context_switch(p, n) PROVE Kept(i)
    BY <2>1 DEF context_switch, SavedEntry
  <2>2. CASE init_process
    BY <2>2 DEF init_process, TypeOK
  <2>3. CASE Create
    BY <2>3 DEF Create, create_process, TakePid, FreeSlot, TypeOK
  <2>4. CASE schedule
    BY <2>4, <2>1 DEF schedule
  <2>5. CASE ScheduleReturns
    BY <2>5 DEF ScheduleReturns
  <2> QED
    BY <2>1, <2>2, <2>3, <2>4, <2>5 DEF Next, InitTick, Yield, Switch
<1> QED
  BY <1>1, TypeCorrect, PTL DEF Spec, EntryStable

\* Under the calls the kernel makes, a process leaves current_process only with
\* its registers saved and asleep.
THEOREM NoContextIsLost == KernelSpec => SwitchSaves
<1> DEFINE Leaves(i) == current = i /\ current' # i =>
                          regs'[i].x0 = Live /\ state'[i] = SLEEPING
<1>1. [KernelNext]_vars => [\A i \in Slots : Leaves(i)]_vars
  <2> SUFFICES ASSUME KernelNext, NEW i \in Slots PROVE Leaves(i)
    OBVIOUS
  <2>1. CASE Boot
    BY <2>1, SlotFacts DEF Boot
  <2>2. CASE schedule
    BY <2>2 DEF schedule, context_switch, Saved
  <2>3. CASE ScheduleReturns
    BY <2>3 DEF ScheduleReturns
  <2>4. CASE Create
    BY <2>4 DEF Create, create_process, TakePid
  <2> QED
    BY <2>1, <2>2, <2>3, <2>4 DEF KernelNext, InitTick, Yield
<1> QED
  BY <1>1, PTL DEF KernelSpec, SwitchSaves
=============================================================================
