----------------------------- MODULE BootProofs -----------------------------
(***************************************************************************)
(* The boot of module Boot for every size of table, .bss and word, every    *)
(* page the kernel uses and every interrupt: .bss is cleared, the tables of *)
(* x86_64 map its 4GB to themselves from the moment CR3 is loaded, the      *)
(* kernel never loses a page it runs in, and arm64 turns the MMU on over    *)
(* complete tables.  interrupt_init of x86_64, from every mask firmware may *)
(* leave and against every device: the controllers end at vectors 0x20-0x2F *)
(* with only line 1 unmasked, and no interrupt arrives at the vector of an  *)
(* exception.                                                               *)
(***************************************************************************)
EXTENDS Boot, WellFoundedInduction, TLAPS
----------------------------------------------------------------------------
(* The interrupt controllers: the specification of module Pic.             *)


\* The word each controller takes next after so many accesses of interrupt_init.
Awaited(first, s) ==
  IF s \in {first, first + 1} THEN 2
  ELSE IF s \in {first + 2, first + 3} THEN 3
  ELSE IF s \in {first + 4, first + 5} THEN 4 ELSE 0

\* How far interrupt_init has come: what is written stays written, although
\* devices and harmless exceptions come in between.
Progress ==
  pc = "init" =>
    /\ step < 15
    /\ icw[1] = Awaited(3, step) /\ icw[2] = Awaited(4, step)
    /\ step >= 5 => base[1] = 32
    /\ step >= 6 => base[2] = 40
    /\ step >= 13 => imr[1] = 255
    /\ step >= 14 => imr[2] = 255

\* An interrupt being handled came in at one of the sixteen vectors.
InRange == pc = "irq" => vector \in 32 .. 47

\* The two halves of TypeOK: the controllers' registers, and the control state.
Registers ==
  /\ imr \in [Chips -> 0 .. 255] /\ mask \in [Chips -> 0 .. 255]
  /\ irr \in [Chips -> SUBSET (0 .. 7)] /\ isr \in [Chips -> SUBSET (0 .. 7)]
  /\ base \in [Chips -> 0 .. 255] /\ icw \in [Chips -> {0, 2, 3, 4}]

Control ==
  /\ step \in 0 .. Len(interrupt_init) /\ sti \in BOOLEAN
  /\ pc \in {"init", "main", "irq", "halted"}
  /\ vector \in {NoVector} \cup 0 .. 255

\* The inductive invariant.
PicInv == TypeOK /\ Progress /\ Remapped /\ InRange

\* The accesses of interrupt_init, one by one.
LEMMA Accesses ==
  /\ Len(interrupt_init) = 15
  /\ interrupt_init[1]  = <<1, "save", 0>>    /\ interrupt_init[2]  = <<2, "save", 0>>
  /\ interrupt_init[3]  = <<1, "cmd", ICW1>>  /\ interrupt_init[4]  = <<2, "cmd", ICW1>>
  /\ interrupt_init[5]  = <<1, "data", 32>>   /\ interrupt_init[6]  = <<2, "data", 40>>
  /\ interrupt_init[7]  = <<1, "data", 4>>    /\ interrupt_init[8]  = <<2, "data", 2>>
  /\ interrupt_init[9]  = <<1, "data", 1>>    /\ interrupt_init[10] = <<2, "data", 1>>
  /\ interrupt_init[11] = <<1, "restore", 0>> /\ interrupt_init[12] = <<2, "restore", 0>>
  /\ interrupt_init[13] = <<1, "data", 255>>  /\ interrupt_init[14] = <<2, "data", 255>>
  /\ interrupt_init[15] = <<1, "unmask", 1>>
  BY DEF interrupt_init, pic_remap, pic_mask_all, pic_unmask, Chip, Pin

\* TypeOK is its two halves.
LEMMA Halves == TypeOK <=> Registers /\ Control
  BY Zenon DEF TypeOK, Registers, Control

\* pic_unmask(1) clears bit 1.
LEMMA Unmask == Clear(255, 1) = 253
  BY DEF Clear, Bit

\* The state at reset, with any masks.
LEMMA InitPicInv == Init => PicInv
<1> SUFFICES ASSUME Init PROVE PicInv
  OBVIOUS
<1>1. icw[1] = 0 /\ icw[2] = 0
  BY DEF Init, Chips
<1>2. TypeOK
  <2>1. imr \in [Chips -> 0 .. 255]
    <3>1. imr \in [Chips -> BiosMasks] /\ BiosMasks \subseteq 0 .. 255
      BY PicConstants DEF Init
    <3> QED
      BY <3>1
  <2>2. /\ step \in 0 .. Len(interrupt_init)
        /\ mask \in [Chips -> 0 .. 255] /\ base \in [Chips -> 0 .. 255]
        /\ icw \in [Chips -> {0, 2, 3, 4}]
    BY Accesses DEF Init, Chips
  <2>3. irr \in [Chips -> SUBSET (0 .. 7)] /\ isr \in [Chips -> SUBSET (0 .. 7)]
    BY DEF Init
  <2>4. sti \in BOOLEAN /\ pc = "init" /\ vector = NoVector
    BY DEF Init
  <2> QED
    BY <2>1, <2>2, <2>3, <2>4 DEF TypeOK
<1>3. Progress /\ Remapped /\ InRange
  BY <1>1 DEF Init, Progress, Awaited, Remapped, InRange
<1> QED
  BY <1>2, <1>3 DEF PicInv

\* A write of v to the data port, by the word the controller takes next.
DataWritten(k, v) ==
  /\ icw' = [icw EXCEPT ![k] = IF icw[k] = 2 THEN 3 ELSE IF icw[k] = 3 THEN 4 ELSE 0]
  /\ base' = IF icw[k] = 2 THEN [base EXCEPT ![k] = v] ELSE base
  /\ imr' = IF icw[k] = 0 THEN [imr EXCEPT ![k] = v] ELSE imr
  /\ UNCHANGED <<irr, isr>>

\* What an access does to the progress of interrupt_init.
Advanced ==
  /\ Registers'
  /\ icw'[1] = Awaited(3, step + 1) /\ icw'[2] = Awaited(4, step + 1)
  /\ step + 1 >= 5 => base'[1] = 32
  /\ step + 1 >= 6 => base'[2] = 40
  /\ step + 1 \in {13, 14} => imr'[1] = 255
  /\ step + 1 >= 14 => imr'[2] = 255
  /\ step + 1 = 15 => imr'[1] = 253

\* outData spelled out.
LEMMA DataPort == ASSUME NEW k, NEW v, outData(k, v) PROVE DataWritten(k, v)
<1>1. (CASE icw[k] = 2 -> 3 [] icw[k] = 3 -> 4 [] OTHER -> 0)
        = (IF icw[k] = 2 THEN 3 ELSE IF icw[k] = 3 THEN 4 ELSE 0)
  OBVIOUS
<1> QED
  BY <1>1, Zenon DEF outData, DataWritten

\* The controller and the value of each write to a data port.
LEMMA DataStep ==
  ASSUME Progress, Registers, pc = "init", NEW k \in Chips, NEW v \in 0 .. 255,
         outData(k, v), UNCHANGED mask,
         \/ step \in {4, 6, 8} /\ k = 1 /\ (step = 4 => v = 32)
         \/ step \in {5, 7, 9} /\ k = 2 /\ (step = 5 => v = 40)
         \/ step = 10 /\ k = 1
         \/ step = 11 /\ k = 2
         \/ step = 12 /\ k = 1 /\ v = 255
         \/ step = 13 /\ k = 2 /\ v = 255
         \/ step = 14 /\ k = 1 /\ v = 253
  PROVE  Advanced
<1> USE DEF Chips
<1>1. DataWritten(k, v)
  BY DataPort
<1>2. Registers'
  BY <1>1 DEF Registers, DataWritten
<1>3. icw'[1] = Awaited(3, step + 1) /\ icw'[2] = Awaited(4, step + 1)
  <2>1. /\ icw[1] = Awaited(3, step) /\ icw[2] = Awaited(4, step)
        /\ icw \in [Chips -> {0, 2, 3, 4}]
    BY DEF Progress, Registers
  <2>2. icw' = [icw EXCEPT ![k] = IF icw[k] = 2 THEN 3 ELSE IF icw[k] = 3 THEN 4 ELSE 0]
    BY <1>1, Zenon DEF DataWritten
  <2>3. CASE k = 1
    <3>1. icw'[2] = icw[2] /\ step \in {4, 6, 8, 10, 12, 14}
          /\ icw'[1] = (IF icw[1] = 2 THEN 3 ELSE IF icw[1] = 3 THEN 4 ELSE 0)
      BY <2>1, <2>2, <2>3, SMTT(30)
    <3> QED
      BY <2>1, <3>1, SMTT(30) DEF Awaited
  <2>4. CASE k = 2
    <3>1. icw'[1] = icw[1] /\ step \in {5, 7, 9, 11, 13}
          /\ icw'[2] = (IF icw[2] = 2 THEN 3 ELSE IF icw[2] = 3 THEN 4 ELSE 0)
      BY <2>1, <2>2, <2>4, SMTT(30)
    <3> QED
      BY <2>1, <3>1, SMTT(30) DEF Awaited
  <2> QED
    BY <2>3, <2>4
<1>4. (step + 1 >= 5 => base'[1] = 32) /\ (step + 1 >= 6 => base'[2] = 40)
  <2>1. /\ icw[1] = Awaited(3, step) /\ icw[2] = Awaited(4, step)
        /\ step >= 5 => base[1] = 32
        /\ step >= 6 => base[2] = 40
        /\ base \in [Chips -> 0 .. 255]
    BY DEF Progress, Registers
  <2>2. base' = IF icw[k] = 2 THEN [base EXCEPT ![k] = v] ELSE base
    BY <1>1, Zenon DEF DataWritten
  <2>3. CASE step \in {4, 5}
    BY <2>1, <2>2, <2>3, SMTT(30) DEF Awaited
  <2>4. CASE step \notin {4, 5}
    <3>1. icw[k] # 2 /\ step >= 6
      BY <2>1, <2>4, SMTT(30) DEF Awaited
    <3> QED
      BY <2>1, <2>2, <3>1
  <2> QED
    BY <2>3, <2>4
<1>5. /\ step + 1 \in {13, 14} => imr'[1] = 255
      /\ step + 1 >= 14 => imr'[2] = 255
      /\ step + 1 = 15 => imr'[1] = 253
  <2>1. /\ icw[1] = Awaited(3, step) /\ icw[2] = Awaited(4, step)
        /\ step >= 13 => imr[1] = 255
        /\ step >= 14 => imr[2] = 255
        /\ imr \in [Chips -> 0 .. 255]
    BY DEF Progress, Registers
  <2>2. imr' = IF icw[k] = 0 THEN [imr EXCEPT ![k] = v] ELSE imr
    BY <1>1, Zenon DEF DataWritten
  <2>3. CASE step \in {12, 13, 14}
    <3>1. icw[k] = 0
      BY <2>1, <2>3, SMTT(30) DEF Awaited
    <3> QED
      BY <2>1, <2>2, <2>3, <3>1, SMTT(90)
  <2>4. CASE step \notin {12, 13, 14}
    BY <2>4, SMTT(30)
  <2> QED
    BY <2>3, <2>4
<1> QED
  BY <1>2, <1>3, <1>4, <1>5 DEF Advanced

\* A register of one chip changes within its range.
LEMMA Typed ==
  ASSUME NEW S, NEW g \in [Chips -> S], NEW k \in Chips, NEW x \in S
  PROVE  [g EXCEPT ![k] = x] \in [Chips -> S]
  OBVIOUS

\* Each access brings interrupt_init one step further.
LEMMA AccessStep == ASSUME PicInv, InitStep PROVE Advanced
<1> USE DEF Chips
<1>1. step \in 0 .. 14 /\ Progress /\ pc = "init" /\ Registers
  <2>1. Progress /\ pc = "init" /\ Registers /\ Control
    BY Halves, Zenon DEF PicInv, InitStep
  <2> QED
    BY <2>1, Accesses DEF Control, Progress
<1>2. CASE step \in {0, 1}
  <2>1. PICK k \in Chips : step = k - 1 /\ interrupt_init[step + 1] = <<k, "save", 0>>
    BY <1>2, Accesses, SMTT(30)
  <2>2. Access(k, "save", 0)
    BY <2>1, SMTT(30) DEF InitStep
  <2>3. mask' = [mask EXCEPT ![k] = imr[k]]
    BY <2>2, SMTT(30) DEF Access
  <2>4. imr' = imr /\ irr' = irr /\ isr' = isr /\ base' = base /\ icw' = icw
    BY <2>2, SMTT(30) DEF Access
  <2>5. mask' \in [Chips -> 0 .. 255]
    <3>1. mask \in [Chips -> 0 .. 255] /\ imr \in [Chips -> 0 .. 255]
      BY <1>1, Zenon DEF Registers
    <3>2. imr[k] \in 0 .. 255
      <4> HIDE DEF Chips
      <4> QED
        BY <2>3, <3>1, Zenon
    <3> QED
      BY <2>3, <3>1, <3>2, Typed, Zenon
  <2>6. Registers'
    BY <1>1, <2>4, <2>5, ZenonT(30) DEF Registers
  <2>7. icw'[1] = Awaited(3, step + 1) /\ icw'[2] = Awaited(4, step + 1)
    BY <1>1, <1>2, <2>4, SMTT(30) DEF Progress, Awaited
  <2> QED
    BY <1>2, <2>6, <2>7 DEF Advanced
<1>3. CASE step \in {2, 3}
  <2>1. PICK k \in Chips : step = k + 1 /\ outCmd(k) /\ UNCHANGED mask
    <3>1. PICK k \in Chips : step = k + 1 /\ interrupt_init[step + 1] = <<k, "cmd", ICW1>>
      BY <1>3, Accesses, SMTT(30)
    <3>2. Access(k, "cmd", ICW1)
      BY <3>1, SMTT(30) DEF InitStep
    <3>3. outCmd(k) /\ UNCHANGED mask
      BY <3>2, SMTT(30) DEF Access
    <3> QED
      BY <3>1, <3>3, Zenon
  <2>2. /\ icw' = [icw EXCEPT ![k] = 2] /\ imr' = [imr EXCEPT ![k] = 0]
        /\ irr' = [irr EXCEPT ![k] = {}] /\ isr' = [isr EXCEPT ![k] = {}]
        /\ base' = base /\ mask' = mask
    BY <2>1, Zenon DEF outCmd
  <2>3. Registers'
    <3>1. /\ icw \in [Chips -> {0, 2, 3, 4}] /\ imr \in [Chips -> 0 .. 255]
          /\ irr \in [Chips -> SUBSET (0 .. 7)] /\ isr \in [Chips -> SUBSET (0 .. 7)]
      BY <1>1, Zenon DEF Registers
    <3>2. 2 \in {0, 2, 3, 4} /\ 0 \in 0 .. 255 /\ {} \in SUBSET (0 .. 7)
      OBVIOUS
    <3>3. /\ icw' \in [Chips -> {0, 2, 3, 4}] /\ imr' \in [Chips -> 0 .. 255]
          /\ irr' \in [Chips -> SUBSET (0 .. 7)] /\ isr' \in [Chips -> SUBSET (0 .. 7)]
      BY <2>1, <2>2, <3>1, <3>2, Typed, Zenon
    <3> QED
      BY <1>1, <2>2, <3>3, ZenonT(30) DEF Registers
  <2>4. icw'[1] = Awaited(3, step + 1) /\ icw'[2] = Awaited(4, step + 1)
    <3>1. icw \in [Chips -> {0, 2, 3, 4}]
      BY <1>1 DEF Registers
    <3>2. icw[1] = Awaited(3, step) /\ icw[2] = Awaited(4, step)
      BY <1>1 DEF Progress
    <3>3. CASE step = 2
      BY <2>1, <2>2, <3>1, <3>2, <3>3, SMTT(30) DEF Awaited
    <3>4. CASE step = 3
      BY <2>1, <2>2, <3>1, <3>2, <3>4, SMTT(30) DEF Awaited
    <3> QED
      BY <1>3, <3>3, <3>4
  <2> QED
    BY <1>3, <2>3, <2>4 DEF Advanced
<1>5. CASE step = 4
  <2>1. outData(1, 32) /\ UNCHANGED mask
    BY <1>5, Accesses DEF InitStep, Access
  <2> QED
    BY <1>5, <2>1, <1>1, DataStep
<1>6. CASE step = 5
  <2>1. outData(2, 40) /\ UNCHANGED mask
    BY <1>6, Accesses DEF InitStep, Access
  <2> QED
    BY <1>6, <2>1, <1>1, DataStep
<1>7. CASE step = 6
  <2>1. outData(1, 4) /\ UNCHANGED mask
    BY <1>7, Accesses DEF InitStep, Access
  <2> QED
    BY <1>7, <2>1, <1>1, DataStep
<1>8. CASE step = 7
  <2>1. outData(2, 2) /\ UNCHANGED mask
    BY <1>8, Accesses DEF InitStep, Access
  <2> QED
    BY <1>8, <2>1, <1>1, DataStep
<1>9. CASE step = 8
  <2>1. outData(1, 1) /\ UNCHANGED mask
    BY <1>9, Accesses DEF InitStep, Access
  <2> QED
    BY <1>9, <2>1, <1>1, DataStep
<1>10. CASE step = 9
  <2>1. outData(2, 1) /\ UNCHANGED mask
    BY <1>10, Accesses DEF InitStep, Access
  <2> QED
    BY <1>10, <2>1, <1>1, DataStep
<1>11. CASE step = 10
  <2>1. outData(1, mask[1]) /\ UNCHANGED mask
    BY <1>11, Accesses DEF InitStep, Access
  <2>2. mask[1] \in 0 .. 255
    <3>1. mask \in [Chips -> 0 .. 255] /\ 1 \in Chips
      BY <1>1, Zenon DEF Registers
    <3> QED
      BY <3>1, Zenon
  <2> QED
    BY <1>11, <2>1, <2>2, <1>1, DataStep
<1>12. CASE step = 11
  <2>1. outData(2, mask[2]) /\ UNCHANGED mask
    BY <1>12, Accesses DEF InitStep, Access
  <2>2. mask[2] \in 0 .. 255
    <3>1. mask \in [Chips -> 0 .. 255] /\ 2 \in Chips
      BY <1>1, Zenon DEF Registers
    <3> QED
      BY <3>1, Zenon
  <2> QED
    BY <1>12, <2>1, <2>2, <1>1, DataStep
<1>13. CASE step = 12
  <2>1. outData(1, 255) /\ UNCHANGED mask
    BY <1>13, Accesses DEF InitStep, Access
  <2> QED
    BY <1>13, <2>1, <1>1, DataStep
<1>14. CASE step = 13
  <2>1. outData(2, 255) /\ UNCHANGED mask
    BY <1>14, Accesses DEF InitStep, Access
  <2> QED
    BY <1>14, <2>1, <1>1, DataStep
<1>15. CASE step = 14
  <2>1. Clear(imr[1], 1) = 253
    BY <1>1, <1>15, Unmask DEF Progress
  <2>2. outData(1, 253) /\ UNCHANGED mask
    BY <1>15, <2>1, Accesses DEF InitStep, Access
  <2> QED
    BY <1>15, <2>2, <1>1, DataStep
<1> QED
  BY <1>1, <1>2, <1>3, <1>5, <1>6, <1>7, <1>8, <1>9, <1>10, <1>11, <1>12, <1>13, <1>14,
     <1>15

\* The fifteenth access completes the initialisation.
LEMMA InitStepStep ==
  ASSUME PicInv, InitStep
  PROVE  PicInv'
<1>1. /\ pc = "init" /\ step' = step + 1 /\ step \in 0 .. 14
      /\ pc' = (IF step' = 15 THEN "main" ELSE "init")
      /\ UNCHANGED <<sti, vector>>
  <2>1. step \in 0 .. 14
    <3>1. step \in 0 .. 15 /\ pc = "init" /\ Progress
      BY Accesses, Zenon DEF InitStep, PicInv, TypeOK
    <3> QED
      BY <3>1, SMTT(30) DEF Progress
  <2> QED
    BY <2>1, Accesses, Zenon DEF InitStep
<1>2. TypeOK'
  <2>1. Registers' /\ Control
    BY AccessStep, Halves DEF Advanced, PicInv
  <2>2. Control'
    BY <1>1, <2>1, Accesses, SMTT(30) DEF Control
  <2>3. TypeOK' <=> Registers' /\ Control'
    BY Zenon DEF TypeOK, Registers, Control
  <2> QED
    BY <2>1, <2>2, <2>3
<1>3. Progress' /\ InRange'
  BY <1>1, AccessStep DEF Progress, InRange, Advanced
<1>4. Remapped'
  <2>1. CASE step' # 15
    BY <1>1, <2>1, Zenon DEF Remapped
  <2>2. CASE step' = 15
    <3>1. /\ icw'[1] = 0 /\ icw'[2] = 0 /\ base'[1] = 32 /\ base'[2] = 40
          /\ imr'[1] = 253 /\ imr'[2] = 255
      BY <1>1, <2>2, AccessStep, SMTT(30) DEF Advanced, Awaited
    <3>2. /\ icw' \in [Chips -> {0, 2, 3, 4}] /\ base' \in [Chips -> 0 .. 255]
          /\ imr' \in [Chips -> 0 .. 255]
      BY AccessStep, Zenon DEF Advanced, Registers
    <3> QED
      BY <3>1, <3>2, SMTT(30) DEF Remapped, Chips
  <2> QED
    BY <2>1, <2>2
<1> QED
  BY <1>2, <1>3, <1>4 DEF PicInv

\* A set of natural numbers that is not empty contains its minimum.
LEMMA MinIsMember ==
  ASSUME NEW S, S \subseteq Nat, S # {}
  PROVE  Min(S) \in S
<1> DEFINE R == OpToRel(<, Nat)
<1>1. \A x, y \in Nat : y < x => <<y, x>> \in R
  BY DEF OpToRel
<1>2. IsWellFoundedOn(R, Nat)
  BY NatLessThanWellFounded
<1> HIDE DEF R
<1>3. PICK x \in S : \A y \in S : ~ (<<y, x>> \in R)
  BY <1>2, WFMin, Zenon
<1>4. \A y \in S : ~ (y < x)
  BY <1>1, <1>3, Zenon
<1>5. \A y \in S : x <= y
  BY <1>4
<1> QED
  BY <1>5 DEF Min

\* The processor gets a vector of the controller that asks.
LEMMA TakeIrqStep ==
  ASSUME PicInv, TakeIrq
  PROVE  PicInv'
<1> USE DEF Chips
<1> DEFINE slave == Ready(2, irr[2])
           pin   == Min(Asked)
           k     == IF pin = 2 /\ slave # {} THEN 2 ELSE 1
           b     == IF k = 2 THEN Min(slave) ELSE pin
<1>1. /\ pc = "main" /\ pc' = "irq" /\ Asked # {}
      /\ vector' = base[k] + b
      /\ irr' = [irr EXCEPT ![k] = @ \ {b}]
      /\ isr' = [m \in Chips |-> isr[m] \cup (IF m = k THEN {b} ELSE {})
                                        \cup (IF m = 1 THEN {pin} ELSE {})]
      /\ UNCHANGED <<imr, base, icw, mask, step, sti>>
  BY DEF TakeIrq
<1>2. irr[1] \subseteq 0 .. 7 /\ irr[2] \subseteq 0 .. 7
  BY DEF PicInv, TypeOK
<1>3. slave \subseteq 0 .. 7 /\ Asked \subseteq 0 .. 7
  BY <1>2 DEF Asked, Ready, Cascade
<1>4. pin \in 0 .. 7 /\ (slave # {} => Min(slave) \in 0 .. 7)
  BY <1>1, <1>3, MinIsMember
<1> HIDE DEF slave, pin
<1>5. k \in Chips /\ b \in 0 .. 7
  BY <1>4
<1> HIDE DEF k, b
<1>6. base[k] \in {32, 40}
  BY <1>1, <1>5 DEF PicInv, Remapped
<1>7. vector' \in 32 .. 47
  BY <1>1, <1>5, <1>6
<1>8. TypeOK'
  <2>1. Registers /\ Control
    BY Halves, Zenon DEF PicInv
  <2>2. irr' \in [Chips -> SUBSET (0 .. 7)]
    BY <1>1, <2>1, ZenonT(60) DEF Registers
  <2>3. isr' \in [Chips -> SUBSET (0 .. 7)]
    BY <1>1, <1>4, <1>5, <2>1, ZenonT(60) DEF Registers
  <2>4. Registers'
    BY <1>1, <2>1, <2>2, <2>3 DEF Registers
  <2>5. Control'
    <3>1. pc' \in {"init", "main", "irq", "halted"} /\ vector' \in 0 .. 255
      <4>1. pc' = "irq"
        BY <1>1, Zenon
      <4>2. vector' \in 0 .. 255
        BY <1>7
      <4> QED
        BY <4>1, <4>2, Zenon
    <3>2. step' = step /\ sti' \in BOOLEAN
      BY <1>1, <2>1, Zenon DEF Control
    <3> QED
      BY <2>1, <3>1, <3>2, Zenon DEF Control
  <2> QED
    BY <2>4, <2>5, Zenon DEF TypeOK, Registers, Control
<1>9. Progress' /\ Remapped' /\ InRange'
  BY <1>1, <1>7 DEF PicInv, Progress, Remapped, InRange
<1> QED
  BY <1>8, <1>9 DEF PicInv

\* Devices, sti, and the two handlers leave the set-up of the controllers alone.
LEMMA OtherStep ==
  ASSUME PicInv,
         \/ \E line \in Lines : Raise(line)
         \/ EnableInterrupts
         \/ handle_irq
         \/ \E v \in Vectors : handle_exception(v)
  PROVE  PicInv'
<1>1. ASSUME NEW line \in Lines, Raise(line)
      PROVE  PicInv'
  <2>1. Chip(line) \in Chips /\ Pin(line) \in 0 .. 7
    BY PicConstants DEF Chip, Pin, Chips
  <2>2. irr' \in [Chips -> SUBSET (0 .. 7)]
    <3>1. irr \in [Chips -> SUBSET (0 .. 7)]
      BY DEF PicInv, TypeOK
    <3>2. irr' = [irr EXCEPT ![Chip(line)] = @ \cup {Pin(line)}]
      BY <1>1 DEF Raise
    <3> HIDE DEF Chip, Pin
    <3> QED
      BY <2>1, <3>1, <3>2
  <2>3. TypeOK'
    BY <1>1, <2>2, ZenonT(30) DEF Raise, PicInv, TypeOK
  <2> QED
    BY <1>1, <2>3 DEF Raise, PicInv, Progress, Remapped, InRange
<1>2. CASE EnableInterrupts
  BY <1>2 DEF EnableInterrupts, PicInv, TypeOK, Progress, Remapped, InRange
<1>3. CASE handle_irq
  <2>1. /\ pc' = "main" /\ pc = "irq"
        /\ UNCHANGED <<imr, base, icw, mask, step, sti>>
    BY <1>3, SMTT(30) DEF handle_irq
  <2>2. TypeOK'
    BY <1>3, ZenonT(30) DEF handle_irq, PicInv, TypeOK
  <2> QED
    BY <2>1, <2>2, SMTT(30) DEF PicInv, Progress, Remapped, InRange
<1>4. ASSUME NEW v \in Vectors, handle_exception(v)
      PROVE  PicInv'
  <2>1. /\ pc' \in {"halted", pc} /\ pc \in {"init", "main"}
        /\ UNCHANGED <<imr, irr, isr, base, icw, mask, step, sti, vector>>
    BY <1>4 DEF handle_exception
  <2>2. TypeOK'
    <3>1. Registers' /\ Control'
      <4>1. Registers /\ Control
        BY Halves, Zenon DEF PicInv
      <4> QED
        BY <2>1, <4>1 DEF Registers, Control
    <3> QED
      BY <3>1, Zenon DEF TypeOK, Registers, Control
  <2> QED
    BY <2>1, <2>2 DEF PicInv, Progress, Remapped, InRange
<1> QED
  BY <1>1, <1>2, <1>3, <1>4

\* PicInv reads only the variables of Pic.
LEMMA PicSame == PicInv /\ UNCHANGED vars => PicInv'
<1> SUFFICES ASSUME PicInv, UNCHANGED vars PROVE PicInv'
  OBVIOUS
<1>1. /\ imr' = imr /\ irr' = irr /\ isr' = isr /\ base' = base /\ icw' = icw /\ mask' = mask
      /\ step' = step /\ sti' = sti /\ pc' = pc /\ vector' = vector
  BY DEF vars
<1>2. TypeOK'
  BY <1>1, ZenonT(30) DEF PicInv, TypeOK
<1>3. Progress'
  BY <1>1, ZenonT(30) DEF PicInv, Progress
<1>4. Remapped'
  BY <1>1, ZenonT(30) DEF PicInv, Remapped
<1>5. InRange'
  BY <1>1, ZenonT(30) DEF PicInv, InRange
<1> QED
  BY <1>2, <1>3, <1>4, <1>5 DEF PicInv

\* Every step preserves the invariant.
LEMMA NextPicInv == PicInv /\ [Next]_vars => PicInv'
<1> SUFFICES ASSUME PicInv, [Next]_vars PROVE PicInv'
  OBVIOUS
<1>1. CASE UNCHANGED vars
  BY <1>1, PicSame
<1> QED
  BY <1>1, InitStepStep, TakeIrqStep, OtherStep DEF Next
----------------------------------------------------------------------------
\* Registers and locals keep their ranges (TypeOK).
THEOREM PicTypeCorrect == Spec => []TypeOK
<1>1. PicInv => TypeOK
  BY DEF PicInv
<1> QED
  BY InitPicInv, NextPicInv, <1>1, PTL DEF Spec

\* interrupt_init remaps both controllers and leaves line 1 alone unmasked,
\* whatever the masks were and whatever devices request meanwhile.
THEOREM AlwaysRemapped == Spec => []Remapped
<1>1. PicInv => Remapped
  BY DEF PicInv
<1> QED
  BY InitPicInv, NextPicInv, <1>1, PTL DEF Spec

\* No interrupt is taken at a vector of handle_exception.
THEOREM VectorsAlwaysApart == Spec => []VectorsApart
<1>1. PicInv => VectorsApart
  BY DEF PicInv, InRange, VectorsApart
<1> QED
  BY InitPicInv, NextPicInv, <1>1, PTL DEF Spec
----------------------------------------------------------------------------
(* The whole boot: the specification of module Boot.                       *)

\* How far mmu_init of x86_64 has come: pdpt leads to the directories begun,
\* and those before i are complete.
X86Tables ==
  arch = "x86_64" =>
    /\ mmu \in {"clear", "dir", "page", "done"}
    /\ mmu # "clear" =>
         /\ i \in 0 .. Dirs
         /\ level0 \in [Slots -> Int] /\ level1 \in [Slots -> Int]
         /\ \A e \in Slots :
              /\ level0[e] = IF e = 0 THEN 0 ELSE Absent
              /\ level1[e] = IF e < i \/ (mmu = "page" /\ e = i) THEN e ELSE Absent
         /\ pd \in [0 .. Dirs - 1 -> [Slots -> Int]]
         /\ \A d \in 0 .. i - 1 : \A e \in Slots : pd[d][e] = PageNumber(d, e)
    /\ mmu = "page" => /\ i < Dirs /\ j \in Slots
                       /\ \A e \in 0 .. j - 1 : pd[i][e] = PageNumber(i, e)
    /\ mmu = "done" => i = Dirs

\* How far mmu_init of arm64 has come.
ArmTables ==
  arch = "arm64" =>
    /\ mmu \in {"clear", "block", "ttbr", "tlbi", "sctlr", "done"}
    /\ mmu = "clear" => /\ i \in Slots
                        /\ level0 \in [Slots -> {Absent, Junk}]
                        /\ level1 \in [Slots -> {Absent, Junk}]
                        /\ \A e \in 0 .. i - 1 : level0[e] = Absent /\ level1[e] = Absent
    /\ mmu # "clear" => /\ i \in 0 .. Entries
                        /\ level0 \in [Slots -> Int] /\ level1 \in [Slots -> Int]
                        /\ \A e \in Slots :
                             /\ level0[e] = IF e = 0 THEN 0 ELSE Absent
                             /\ level1[e] = IF e < i THEN e ELSE Absent
    /\ mmu = "block" => i < Entries
    /\ mmu \in {"ttbr", "tlbi", "sctlr", "done"} => i = Entries
    /\ mmu \in {"tlbi", "sctlr", "done"} => ttbr = TRUE
    /\ mmu \in {"sctlr", "done"} => tlb = "clean"

\* The processor uses the new tables exactly when mmu_init has returned.
RootInv ==
  /\ arch \in {"x86_64", "arm64"}
  /\ root = IF mmu = "done" THEN "own" ELSE "firmware"

TablesInv == X86Tables /\ ArmTables /\ RootInv

\* Memory below the cursor is clear, the rest is as it was; the cursor is a
\* whole number of words, and passes the end by less than a word.
BssInv ==
  /\ size \in Nat
  /\ \E m \in Nat : cursor = m * WordBytes
  /\ cursor <= IF arch = "x86_64" THEN size ELSE size + WordBytes - 1
  /\ bytes \in [0 .. size + 2 * WordBytes - 1 -> {0, Junk}]
  /\ \A b \in DOMAIN bytes : bytes[b] = IF b < cursor THEN 0 ELSE Junk
  /\ phase # "bss" => ~MoreWords

\* The inductive invariant.
BootInv ==
  /\ PicInv /\ TablesInv /\ BssInv
  /\ arch = "x86_64" => phase # "lost"
  /\ phase = "bss" => mmu = "clear"

USE DEF Slots, Absent
----------------------------------------------------------------------------
(* Arithmetic.                                                             *)

\* Quotient and remainder.
LEMMA Divide ==
  ASSUME NEW v \in Nat, NEW n \in Nat \ {0}
  PROVE  /\ v \div n \in Nat /\ v % n \in 0 .. n - 1
         /\ v = n * (v \div n) + (v % n)
<1>1. v % n \in 0 .. n - 1
  OBVIOUS
<1>2. v \div n \in Int
  OBVIOUS
<1>3. v = n * (v \div n) + (v % n)
  OBVIOUS
<1>4. v \div n >= 0
  OBVIOUS
<1> QED BY <1>1, <1>2, <1>3, <1>4

\* A quotient is below a bound exactly when the number is below the multiple.
LEMMA QuotientBelow ==
  ASSUME NEW v \in Nat, NEW n \in Nat \ {0}, NEW m \in Nat
  PROVE  v < m * n <=> v \div n < m
<1> DEFINE d == v \div n
           r == v % n
<1>1. d \in Nat /\ r \in 0 .. n - 1 /\ v = n * d + r
  BY Divide
<1> HIDE DEF d, r
<1>2. CASE d < m
  <2>1. n * (d + 1) <= n * m
    BY <1>1, <1>2
  <2> QED BY <1>1, <1>2, <2>1
<1>3. CASE d >= m
  <2>1. n * d >= n * m
    BY <1>1, <1>3
  <2> QED BY <1>1, <1>3, <2>1
<1> QED
  BY <1>1, <1>2, <1>3 DEF d
----------------------------------------------------------------------------
(* The tables.                                                             *)

\* The constants in the form the steps use.
LEMMA TableFacts ==
  /\ Entries \in Nat /\ Entries >= 1 /\ Dirs \in Nat /\ 1 <= Dirs /\ Dirs <= Entries
  /\ 0 \in 0 .. Entries - 1 /\ Junk # -1 /\ Junk # 0
  BY TableConstants

\* Page numbers are numbers.
LEMMA PageNumberInt == \A d, e \in Int : PageNumber(d, e) \in Int
  BY TableFacts DEF PageNumber

\* mmu_init does not change the architecture.
LEMMA ArchFixed == mmu_init => arch' = arch
  BY DEF mmu_init, ClearX86, SetDirectory, SetPage, LoadCr3, ClearArm, SetBlock, LoadTtbr,
         InvalidateTlb, WriteSctlr

\* The memsets clear all three levels.
LEMMA ClearX86Step ==
  ASSUME TablesInv, ClearX86
  PROVE  X86Tables' /\ RootInv'
<1> USE TableFacts
<1>1. /\ arch = "x86_64" /\ arch' = arch /\ mmu = "clear" /\ mmu' = "dir" /\ i' = 0
      /\ root' = root /\ root = "firmware"
      /\ level0' = [Zeroed EXCEPT ![0] = 0] /\ level1' = Zeroed
      /\ pd' = [d \in 0 .. Dirs - 1 |-> Zeroed]
  BY DEF ClearX86, TablesInv, RootInv
<1>2. Zeroed \in [Slots -> Int] /\ \A e \in Slots : Zeroed[e] = Absent
  BY DEF Zeroed
<1> HIDE DEF Zeroed
<1>3. /\ level0' \in [Slots -> Int] /\ level1' \in [Slots -> Int]
      /\ pd' \in [0 .. Dirs - 1 -> [Slots -> Int]]
  BY <1>1, <1>2
<1>4. \A e \in Slots : /\ level0'[e] = IF e = 0 THEN 0 ELSE Absent
                       /\ level1'[e] = IF e < 0 THEN e ELSE Absent
  BY <1>1, <1>2
<1>5. \A d \in 0 .. 0 - 1 : \A e \in Slots : pd'[d][e] = PageNumber(d, e)
  OBVIOUS
<1>6. X86Tables'
  BY <1>1, <1>3, <1>4, <1>5 DEF X86Tables
<1> QED
  BY <1>1, <1>6 DEF RootInv

\* pdpt gets one entry more.
LEMMA SetDirectoryStep ==
  ASSUME TablesInv, SetDirectory
  PROVE  X86Tables' /\ RootInv'
<1> USE TableFacts
<1>1. /\ arch = "x86_64" /\ arch' = arch /\ mmu = "dir" /\ mmu' = "page" /\ j' = 0
      /\ UNCHANGED <<level0, pd, root, i>> /\ root = "firmware"
      /\ i < Dirs /\ level1' = [level1 EXCEPT ![i] = i]
  BY DEF SetDirectory, TablesInv, RootInv
<1>2. /\ i \in 0 .. Dirs /\ level1 \in [Slots -> Int]
      /\ \A e \in Slots : level1[e] = IF e < i THEN e ELSE Absent
  BY <1>1 DEF TablesInv, X86Tables
<1>3. /\ level1' \in [Slots -> Int]
      /\ \A e \in Slots : level1'[e] = IF e < i \/ e = i THEN e ELSE Absent
  BY <1>1, <1>2
<1>4. X86Tables'
  <2>1. /\ i' \in 0 .. Dirs /\ level0' \in [Slots -> Int]
        /\ pd' \in [0 .. Dirs - 1 -> [Slots -> Int]]
        /\ \A e \in Slots : level0'[e] = IF e = 0 THEN 0 ELSE Absent
        /\ \A d \in 0 .. i' - 1 : \A e \in Slots : pd'[d][e] = PageNumber(d, e)
    BY <1>1 DEF TablesInv, X86Tables
  <2>2. \A e \in Slots : level1'[e] = IF e < i' \/ (mmu' = "page" /\ e = i') THEN e ELSE Absent
    BY <1>1, <1>3
  <2>3. i' < Dirs /\ j' \in Slots /\ \A e \in 0 .. j' - 1 : pd'[i'][e] = PageNumber(i', e)
    BY <1>1
  <2> QED
    BY <1>1, <1>3, <2>1, <2>2, <2>3 DEF X86Tables
<1> QED
  BY <1>1, <1>4 DEF RootInv

\* A directory gets one entry more, and is complete with the last.
LEMMA SetPageStep ==
  ASSUME TablesInv, SetPage
  PROVE  X86Tables' /\ RootInv'
<1> USE TableFacts
<1>1. /\ arch = "x86_64" /\ arch' = arch /\ mmu = "page"
      /\ pd' = [pd EXCEPT ![i][j] = PageNumber(i, j)]
      /\ j' = j + 1
      /\ i' = (IF j' = Entries THEN i + 1 ELSE i)
      /\ mmu' = (IF j' = Entries THEN "dir" ELSE "page")
      /\ UNCHANGED <<level0, level1, root>> /\ root = "firmware"
  BY DEF SetPage, TablesInv, RootInv
<1>2. /\ i \in 0 .. Dirs - 1 /\ j \in Slots
      /\ pd \in [0 .. Dirs - 1 -> [Slots -> Int]]
      /\ \A d \in 0 .. i - 1 : \A e \in Slots : pd[d][e] = PageNumber(d, e)
      /\ \A e \in 0 .. j - 1 : pd[i][e] = PageNumber(i, e)
      /\ level0 \in [Slots -> Int] /\ level1 \in [Slots -> Int]
      /\ \A e \in Slots : /\ level0[e] = IF e = 0 THEN 0 ELSE Absent
                          /\ level1[e] = IF e < i \/ e = i THEN e ELSE Absent
  BY <1>1 DEF TablesInv, X86Tables
<1>3. PageNumber(i, j) \in Int
  BY <1>2, PageNumberInt
<1>4. /\ pd' \in [0 .. Dirs - 1 -> [Slots -> Int]]
      /\ \A d \in 0 .. Dirs - 1 : \A e \in Slots :
           pd'[d][e] = IF d = i /\ e = j THEN PageNumber(i, j) ELSE pd[d][e]
  <2>1. pd[i] \in [Slots -> Int]
    BY <1>2
  <2>2. pd' = [pd EXCEPT ![i] = [pd[i] EXCEPT ![j] = PageNumber(i, j)]]
    BY <1>1
  <2> DEFINE row == [pd[i] EXCEPT ![j] = PageNumber(i, j)]
  <2>3. row \in [Slots -> Int] /\ \A e \in Slots : row[e] = IF e = j THEN PageNumber(i, j)
                                                           ELSE pd[i][e]
    BY <1>2, <1>3, <2>1
  <2> HIDE DEF row
  <2>4. /\ pd' \in [0 .. Dirs - 1 -> [Slots -> Int]]
        /\ \A d \in 0 .. Dirs - 1 : pd'[d] = IF d = i THEN row ELSE pd[d]
    BY <1>2, <2>2, <2>3 DEF row
  <2> QED
    BY <2>3, <2>4
<1>5. ASSUME NEW e \in 0 .. j
      PROVE  pd'[i][e] = PageNumber(i, e)
  <2>1. e \in Slots /\ (e = j \/ e \in 0 .. j - 1) /\ i \in 0 .. Dirs - 1
    BY <1>2
  <2>2. pd'[i][e] = IF e = j THEN PageNumber(i, j) ELSE pd[i][e]
    BY <1>4, <2>1, Zenon
  <2> QED
    BY <1>2, <2>1, <2>2, Zenon
<1>6. ASSUME NEW d \in 0 .. i - 1, NEW e \in Slots
      PROVE  pd'[d][e] = PageNumber(d, e)
  <2>1. d \in 0 .. Dirs - 1 /\ d # i
    BY <1>2
  <2>2. pd'[d][e] = pd[d][e]
    BY <1>4, <2>1, Zenon
  <2> QED
    BY <1>2, <2>2, Zenon
<1>7. X86Tables'
  <2>1. CASE j' = Entries
    <3>1. i' = i + 1 /\ mmu' = "dir" /\ j = Entries - 1 /\ i' \in 0 .. Dirs
      BY <1>1, <1>2, <2>1
    <3>2. ASSUME NEW d \in 0 .. i' - 1, NEW e \in Slots
          PROVE  pd'[d][e] = PageNumber(d, e)
      <4>1. d = i \/ d \in 0 .. i - 1
        BY <1>2, <3>1
      <4>2. e \in 0 .. j
        BY <3>1
      <4> QED
        BY <1>5, <1>6, <4>1, <4>2, Zenon
    <3>3. ASSUME NEW e \in Slots
          PROVE  level1'[e] = IF e < i' THEN e ELSE Absent
      <4>1. e < i' <=> e < i \/ e = i
        BY <1>2, <3>1
      <4>2. level1'[e] = IF e < i \/ e = i THEN e ELSE Absent
        BY <1>1, <1>2, Zenon
      <4> QED
        BY <4>1, <4>2, Zenon
    <3> QED
      BY <1>1, <1>2, <1>4, <3>1, <3>2, <3>3 DEF X86Tables
  <2>2. CASE j' # Entries
    <3>1. i' = i /\ mmu' = "page" /\ j' \in Slots
      BY <1>1, <1>2, <2>2
    <3>2. ASSUME NEW e \in 0 .. j' - 1
          PROVE  pd'[i'][e] = PageNumber(i', e)
      <4>1. e \in 0 .. j
        BY <1>1, <1>2
      <4> QED
        BY <1>5, <3>1, <4>1, Zenon
    <3>3. \A e \in Slots :
            level1'[e] = IF e < i' \/ (mmu' = "page" /\ e = i') THEN e ELSE Absent
      BY <1>1, <1>2, <3>1
    <3>4. \A d \in 0 .. i' - 1 : \A e \in Slots : pd'[d][e] = PageNumber(d, e)
      BY <1>6, <3>1
    <3>5. i' \in 0 .. Dirs /\ i' < Dirs
      BY <1>2, <3>1
    <3>6. /\ level0' \in [Slots -> Int] /\ level1' \in [Slots -> Int]
          /\ \A e \in Slots : level0'[e] = IF e = 0 THEN 0 ELSE Absent
      BY <1>1, <1>2
    <3> QED
      BY <1>1, <1>4, <3>1, <3>2, <3>3, <3>4, <3>5, <3>6 DEF X86Tables
  <2> QED
    BY <2>1, <2>2
<1>8. mmu' # "done"
  BY <1>1
<1> QED
  BY <1>1, <1>7, <1>8 DEF RootInv

\* Steps of mmu_init of x86_64.
LEMMA X86Step ==
  ASSUME TablesInv, arch = "x86_64", mmu_init
  PROVE  TablesInv'
<1>1. arch' = arch /\ ArmTables'
  BY ArchFixed DEF ArmTables
<1>2. CASE LoadCr3
  <2>1. X86Tables' /\ RootInv'
    BY <1>1, <1>2, TableFacts DEF LoadCr3, TablesInv, X86Tables, RootInv
  <2> QED
    BY <1>1, <2>1 DEF TablesInv
<1> QED
  BY <1>1, <1>2, ClearX86Step, SetDirectoryStep, SetPageStep
  DEF TablesInv, mmu_init, ClearArm, SetBlock, LoadTtbr, InvalidateTlb, WriteSctlr
----------------------------------------------------------------------------
\* A number below the modulus is its own remainder.
LEMMA OwnRemainder ==
  ASSUME NEW x \in Nat, NEW w \in Nat, x < w
  PROVE  x % w = x
  OBVIOUS

\* The loop that clears both tables of arm64.
LEMMA ClearArmStep ==
  ASSUME TablesInv, ClearArm
  PROVE  ArmTables' /\ RootInv'
<1> USE TableFacts
<1>1. /\ arch = "arm64" /\ arch' = arch /\ mmu = "clear" /\ root' = root
      /\ root = "firmware"
      /\ level0' = (IF i + 1 < Entries THEN [level0 EXCEPT ![i] = Absent]
                    ELSE [level0 EXCEPT ![i] = Absent, ![0] = 0])
      /\ level1' = [level1 EXCEPT ![i] = Absent]
      /\ i' = (i + 1) % Entries
      /\ mmu' = (IF i' = 0 THEN "block" ELSE "clear")
  BY DEF ClearArm, TablesInv, RootInv
<1>2. /\ i \in Slots
      /\ level0 \in [Slots -> {Absent, Junk}] /\ level1 \in [Slots -> {Absent, Junk}]
      /\ \A e \in 0 .. i - 1 : level0[e] = Absent /\ level1[e] = Absent
  BY <1>1 DEF TablesInv, ArmTables
<1>3. CASE i + 1 < Entries
  <2>1. i' = i + 1
    <3>1. i + 1 \in Nat /\ Entries \in Nat
      BY <1>2 DEF Slots
    <3>2. (i + 1) % Entries = i + 1
      BY <1>3, <3>1, OwnRemainder
    <3> QED
      BY <1>1, <3>2
  <2>2. mmu' = "clear" /\ i' \in Slots
    BY <1>1, <1>2, <1>3, <2>1
  <2>3. /\ level0' \in [Slots -> {Absent, Junk}] /\ level1' \in [Slots -> {Absent, Junk}]
        /\ \A e \in 0 .. i' - 1 : level0'[e] = Absent /\ level1'[e] = Absent
    BY <1>1, <1>2, <1>3, <2>1
  <2> QED
    BY <1>1, <2>2, <2>3 DEF ArmTables, RootInv
<1>4. CASE ~ (i + 1 < Entries)
  <2>1. i = Entries - 1
    BY <1>2, <1>4
  <2>2. i' = 0
    BY <1>1, <2>1
  <2>3. mmu' = "block"
    BY <1>1, <2>2
  <2>4. level0' = [level0 EXCEPT ![i] = Absent, ![0] = 0]
    BY <1>1, <1>4
  <2>5. \A e \in Slots : /\ level0'[e] = IF e = 0 THEN 0 ELSE Absent
                         /\ level1'[e] = Absent
    BY <1>1, <1>2, <2>1, <2>4
  <2>6. level0' \in [Slots -> Int] /\ level1' \in [Slots -> Int]
    <3>1. /\ DOMAIN level0' = Slots /\ level0' = [e \in DOMAIN level0' |-> level0'[e]]
          /\ DOMAIN level1' = Slots /\ level1' = [e \in DOMAIN level1' |-> level1'[e]]
      BY <1>1, <1>2, <2>4
    <3> QED
      BY <2>5, <3>1
  <2> QED
    <3>1. \A e \in Slots : level1'[e] = IF e < i' THEN e ELSE Absent
      BY <2>2, <2>5
    <3>2. i' \in 0 .. Entries /\ i' < Entries
      BY <2>2
    <3> QED
      BY <1>1, <2>3, <2>5, <2>6, <3>1, <3>2 DEF ArmTables, RootInv
<1> QED
  BY <1>3, <1>4

\* The loop that fills the level-1 table of arm64.
LEMMA SetBlockStep ==
  ASSUME TablesInv, SetBlock
  PROVE  ArmTables' /\ RootInv'
<1> USE TableFacts
<1>1. /\ arch = "arm64" /\ arch' = arch /\ mmu = "block" /\ i' = i + 1
      /\ UNCHANGED <<root, level0>> /\ root = "firmware"
      /\ mmu' = (IF i' = Entries THEN "ttbr" ELSE "block")
      /\ level1' = [level1 EXCEPT ![i] = i]
  BY DEF SetBlock, TablesInv, RootInv
<1>2. /\ i \in Slots /\ level0 \in [Slots -> Int] /\ level1 \in [Slots -> Int]
      /\ \A e \in Slots : /\ level0[e] = IF e = 0 THEN 0 ELSE Absent
                          /\ level1[e] = IF e < i THEN e ELSE Absent
  BY <1>1, SMTT(30) DEF TablesInv, ArmTables
<1>3. /\ level1' \in [Slots -> Int]
      /\ \A e \in Slots : level1'[e] = IF e < i' THEN e ELSE Absent
  BY <1>1, <1>2
<1>4. mmu' # "done" /\ mmu' \in {"ttbr", "block"} /\ i' \in 0 .. Entries
  BY <1>1, <1>2
<1>5. ArmTables'
  BY <1>1, <1>2, <1>3, <1>4 DEF ArmTables
<1> QED
  BY <1>1, <1>4, <1>5 DEF RootInv

\* Steps of mmu_init of arm64.
LEMMA ArmStep ==
  ASSUME TablesInv, arch = "arm64", mmu_init
  PROVE  TablesInv'
<1>1. arch' = arch /\ X86Tables'
  BY ArchFixed DEF X86Tables
<1>2. CASE LoadTtbr \/ InvalidateTlb \/ WriteSctlr
  <2>1. ArmTables'
    BY <1>1, <1>2, TableFacts DEF LoadTtbr, InvalidateTlb, WriteSctlr, TablesInv, ArmTables
  <2>2. RootInv'
    BY <1>1, <1>2 DEF LoadTtbr, InvalidateTlb, WriteSctlr, TablesInv, RootInv
  <2> QED
    BY <1>1, <2>1, <2>2 DEF TablesInv
<1> QED
  BY <1>1, <1>2, ClearArmStep, SetBlockStep
  DEF TablesInv, mmu_init, ClearX86, SetDirectory, SetPage, LoadCr3
----------------------------------------------------------------------------
(* The translation.                                                        *)

\* The walk of the tables of x86_64 by its entries at the two upper levels and the
\* index in the directory.
Walk(e0, e1, x) ==
  IF e0 = Absent THEN Fault
  ELSE IF e0 = 0 /\ e1 = Absent THEN Fault
  ELSE IF e0 = 0 /\ e1 \in 0 .. Dirs - 1
       THEN IF pd[e1][x] = Absent THEN Fault ELSE pd[e1][x]
  ELSE Wild

\* Translate is that walk.
LEMMA WalkSteps ==
  ASSUME arch = "x86_64", root = "own", NEW v
  PROVE  Translate(v) = Walk(level0[v \div (Entries * Entries)],
                             level1[(v \div Entries) % Entries], v % Entries)
<1> DEFINE e0 == level0[v \div (Entries * Entries)]
           e1 == level1[(v \div Entries) % Entries]
           x  == v % Entries
<1>1. Translate(v) = CASE root = "firmware" -> v
        [] root = "own" /\ e0 = Absent -> Fault
        [] root = "own" /\ e0 = 0 /\ e1 = Absent -> Fault
        [] root = "own" /\ e0 = 0 /\ e1 \in 0 .. Dirs - 1 /\ arch = "x86_64" ->
             IF pd[e1][x] = Absent THEN Fault ELSE pd[e1][x]
        [] OTHER -> Wild
  BY Zenon DEF Translate
<1>2. Translate(v) = Walk(e0, e1, x)
  <2> HIDE DEF e0, e1, x
  <2> QED
    BY <1>1, SMTT(30) DEF Walk, Fault
<1> QED
  BY <1>2

\* The walk of complete tables of x86_64 takes a page of the directories to
\* itself, and faults on every other.
LEMMA WalkX86 ==
  ASSUME TablesInv, arch = "x86_64", root = "own",
         NEW v \in Nat, v < Entries * Entries * Entries
  PROVE  Translate(v) = IF v < Dirs * Entries THEN v ELSE Fault
<1> USE TableFacts
<1> DEFINE d0 == v \div (Entries * Entries)
           q  == v \div Entries
           r  == v % Entries
           d1 == q % Entries
<1>1. mmu = "done" /\ i = Dirs
  BY DEF TablesInv, RootInv, X86Tables
<1>2. /\ \A e \in Slots : /\ level0[e] = IF e = 0 THEN 0 ELSE Absent
                          /\ level1[e] = IF e < Dirs THEN e ELSE Absent
      /\ \A d \in 0 .. Dirs - 1 : \A e \in Slots : pd[d][e] = PageNumber(d, e)
  BY <1>1 DEF TablesInv, X86Tables
<1>3. q \in Nat /\ r \in Slots /\ v = Entries * q + r
  <2>1. Entries \in Nat \ {0}
    OBVIOUS
  <2> QED
    BY <2>1, Divide, Zenon
<1>4. d1 \in Slots
  <2> HIDE DEF q
  <2> QED BY <1>3, Divide
<1>5. Entries * Entries \in Nat \ {0}
  OBVIOUS
<1>6. d0 \in Slots /\ (d0 = 0 <=> v < Entries * Entries)
  <2>1. d0 \in Nat
    <3> DEFINE m == Entries * Entries
    <3> HIDE DEF m
    <3> QED BY <1>5, Divide DEF m
  <2>2. v < Entries * (Entries * Entries) <=> d0 < Entries
    <3> DEFINE m == Entries * Entries
    <3>1. m \in Nat \ {0}
      BY <1>5
    <3> HIDE DEF m
    <3> QED BY <3>1, QuotientBelow DEF m
  <2>3. v < 1 * (Entries * Entries) <=> d0 < 1
    <3> DEFINE m == Entries * Entries
    <3>1. m \in Nat \ {0}
      BY <1>5
    <3> HIDE DEF m
    <3> QED BY <3>1, QuotientBelow DEF m
  <2>4. Entries * (Entries * Entries) = Entries * Entries * Entries
    OBVIOUS
  <2> HIDE DEF d0
  <2> QED BY <2>1, <2>2, <2>3, <2>4
<1>7. v < Dirs * Entries <=> q < Dirs
  BY QuotientBelow
<1>8. v < Entries * Entries <=> q < Entries
  BY QuotientBelow
<1>9. Translate(v) = IF level0[d0] = Absent THEN Fault
                     ELSE IF level0[d0] = 0 /\ level1[d1] = Absent THEN Fault
                     ELSE IF level0[d0] = 0 /\ level1[d1] \in 0 .. Dirs - 1
                          THEN IF pd[level1[d1]][r] = Absent THEN Fault ELSE pd[level1[d1]][r]
                     ELSE Wild
  BY WalkSteps, Zenon DEF Walk
<1> HIDE DEF d0, q, r, d1
<1>10. CASE d0 # 0
  <2>1. level0[d0] = Absent /\ q >= Entries
    BY <1>2, <1>3, <1>6, <1>8, <1>10
  <2>2. ~ (v < Dirs * Entries)
    BY <1>3, <1>7, <2>1
  <2> QED
    BY <1>9, <2>1, <2>2
<1>11. CASE d0 = 0
  <2>1. level0[d0] = 0 /\ q < Entries
    BY <1>2, <1>3, <1>6, <1>8, <1>11
  <2>2. d1 = q
    BY <1>3, <2>1 DEF d1
  <2>3. CASE q < Dirs
    <3>1. level1[d1] = q /\ q \in 0 .. Dirs - 1
      BY <1>2, <1>3, <1>4, <2>2, <2>3
    <3>2. pd[q][r] = PageNumber(q, r) /\ PageNumber(q, r) = v
      <4>1. pd[q][r] = PageNumber(q, r)
        BY <1>2, <1>3, <3>1
      <4>2. PageNumber(q, r) = q * Entries + r
        BY DEF PageNumber
      <4>3. q * Entries + r = v
        BY <1>3
      <4> QED BY <4>1, <4>2, <4>3
    <3>3. q # -1 /\ v # -1
      BY <1>3
    <3> QED
      BY <1>7, <1>9, <2>1, <2>3, <3>1, <3>2, <3>3
  <2>4. CASE ~ (q < Dirs)
    <3>1. level1[d1] = Absent
      BY <1>2, <1>3, <1>4, <2>2, <2>4
    <3> QED
      BY <1>7, <1>9, <2>1, <2>4, <3>1
  <2> QED
    BY <2>3, <2>4
<1> QED
  BY <1>10, <1>11

\* So the pages a kernel of x86_64 uses are mapped at every step.
LEMMA MappedX86 ==
  ASSUME TablesInv, arch = "x86_64"
  PROVE  Mapped
<1> USE TableFacts
<1> SUFFICES ASSUME NEW p \in Used PROVE Translate(p) = p
  BY DEF Mapped
<1>1. p \in Nat /\ p < Dirs * Entries
  <2>1. p \in 0 .. Dirs * Entries - 1
    BY BootConstants DEF Used
  <2>2. Dirs * Entries \in Nat
    OBVIOUS
  <2> QED
    BY <2>1, <2>2
<1>2. CASE root = "firmware"
  BY <1>2 DEF Translate
<1>3. CASE root = "own"
  <2>1. Dirs * Entries <= Entries * Entries
    OBVIOUS
  <2>2. Entries * Entries <= Entries * Entries * Entries
    OBVIOUS
  <2>3. p < Entries * Entries * Entries
    BY <1>1, <2>1, <2>2
  <2> QED
    BY <1>1, <1>3, <2>3, WalkX86
<1> QED
  BY <1>2, <1>3 DEF TablesInv, RootInv
----------------------------------------------------------------------------
(* .bss.                                                                   *)

\* A store of the loop that clears .bss.
LEMMA ClearBssStep ==
  ASSUME BssInv, ClearBss
  PROVE  BssInv'
<1> DEFINE W == WordBytes
<1>1. W \in Nat /\ W >= 1 /\ Junk # 0
  BY BootConstants, TableConstants
<1>2. /\ phase = "bss" /\ phase' = phase /\ size' = size /\ arch' = arch
      /\ MoreWords /\ cursor' = cursor + W
      /\ bytes' = [b \in DOMAIN bytes |-> IF b \in cursor .. cursor + W - 1 THEN 0 ELSE bytes[b]]
  BY DEF ClearBss, tableVars
<1>3. /\ size \in Nat /\ bytes \in [0 .. size + 2 * W - 1 -> {0, Junk}]
      /\ \A b \in DOMAIN bytes : bytes[b] = IF b < cursor THEN 0 ELSE Junk
  BY DEF BssInv
<1>4. PICK m \in Nat : cursor = m * W
  BY DEF BssInv
<1>5. cursor \in Nat
  BY <1>1, <1>4
<1>6. cursor' = (m + 1) * W
  BY <1>1, <1>2, <1>4
<1>7. cursor' <= IF arch = "x86_64" THEN size ELSE size + W - 1
  BY <1>1, <1>2, <1>3, <1>5 DEF MoreWords
<1> HIDE DEF W
<1>8. /\ bytes' \in [0 .. size + 2 * W - 1 -> {0, Junk}]
      /\ \A b \in DOMAIN bytes' : bytes'[b] = IF b < cursor' THEN 0 ELSE Junk
  BY <1>1, <1>2, <1>3, <1>5
<1>9. \E x \in Nat : cursor' = x * W
  BY <1>6
<1> QED
  BY <1>2, <1>3, <1>7, <1>8, <1>9 DEF BssInv, W

\* What the loop leaves when it ends.
LEMMA BssResult == BssInv => BssZeroed
<1> SUFFICES ASSUME BssInv, phase # "bss", NEW b \in DOMAIN bytes
             PROVE  /\ b < size - (size % WordBytes) => bytes[b] = 0
                    /\ b < size /\ arch = "arm64" => bytes[b] = 0
                    /\ b >= size + WordBytes - 1 => bytes[b] = Junk
  BY DEF BssZeroed
<1> DEFINE W == WordBytes
           d == size \div W
           r == size % W
<1>1. W \in Nat \ {0} /\ size \in Nat /\ b \in Nat
  BY BootConstants DEF BssInv
<1>2. PICK m \in Nat : cursor = m * W
  BY DEF BssInv
<1>3. d \in Nat /\ r \in 0 .. W - 1 /\ size = W * d + r
  <2> HIDE DEF W
  <2> QED BY <1>1, Divide
<1> HIDE DEF d, r
<1>4. /\ bytes[b] = IF b < cursor THEN 0 ELSE Junk
      /\ cursor <= IF arch = "x86_64" THEN size ELSE size + W - 1
      /\ ~MoreWords /\ cursor \in Nat
  BY <1>1, <1>2 DEF BssInv
<1>5. b < size - r => b < cursor
  <2>1. CASE arch = "x86_64"
    <3>1. ~ (cursor + W <= size)
      BY <1>4, <2>1 DEF MoreWords
    <3>2. (m + 1) * W > W * d
      BY <1>1, <1>2, <1>3, <1>4, <3>1
    <3>3. m >= d
      <4>1. CASE m < d
        <5>1. (m + 1) * W <= W * d
          BY <1>1, <1>3, <4>1
        <5> QED BY <1>1, <1>3, <3>2, <5>1
      <4> QED BY <1>3, <4>1
    <3>4. m * W >= W * d
      BY <1>1, <1>3, <3>3
    <3>5. m * W \in Nat /\ W * d \in Nat
      BY <1>1, <1>3
    <3> QED
      BY <1>1, <1>2, <1>3, <3>4, <3>5
  <2>2. CASE arch # "x86_64"
    BY <1>1, <1>3, <1>4, <2>2 DEF MoreWords
  <2> QED
    BY <2>1, <2>2
<1>6. arch = "arm64" /\ b < size => b < cursor
  BY <1>1, <1>4 DEF MoreWords
<1>7. b >= size + W - 1 => ~ (b < cursor)
  BY <1>1, <1>4
<1> QED
  BY <1>4, <1>5, <1>6, <1>7 DEF r
----------------------------------------------------------------------------
(* The boot.                                                               *)

\* What the loader starts with.
LEMMA InitBootInv == BootInit => BootInv
<1> SUFFICES ASSUME BootInit PROVE BootInv
  OBVIOUS
<1>1. PicInv
  BY InitPicInv DEF BootInit
<1>2. TablesInv
  <2>1. TablesInit
    BY DEF BootInit
  <2>2. X86Tables
    BY <2>1, SMTT(30) DEF TablesInit, X86Tables
  <2>3. ArmTables
    <3>1. /\ i = 0 /\ i \in Slots /\ mmu = "clear" /\ ttbr = FALSE
          /\ level0 \in [Slots -> {Absent, Junk}] /\ level1 \in [Slots -> {Absent, Junk}]
      BY <2>1, TableFacts, SMTT(30) DEF TablesInit
    <3>2. 0 .. i - 1 = {}
      BY <3>1
    <3> QED
      BY <3>1, <3>2, ZenonT(30) DEF ArmTables
  <2>4. RootInv
    BY <2>1, SMTT(30) DEF TablesInit, RootInv
  <2> QED
    BY <2>2, <2>3, <2>4 DEF TablesInv
<1>3. BssInv
  <2>1. size \in Nat /\ WordBytes \in Nat /\ WordBytes >= 1 /\ cursor = 0
        /\ bytes = [b \in 0 .. size + 2 * WordBytes - 1 |-> Junk] /\ phase = "bss"
    BY BootConstants DEF BootInit
  <2>2. \E m \in Nat : cursor = m * WordBytes
    <3>1. 0 = 0 * WordBytes
      BY <2>1
    <3> QED BY <2>1, <3>1
  <2> QED
    BY <2>1, <2>2 DEF BssInv
<1>4. phase = "bss" /\ mmu = "clear"
  BY DEF BootInit, TablesInit
<1> QED
  BY <1>1, <1>2, <1>3, <1>4 DEF BootInv

\* TablesInv reads only the variables of PageTables.
LEMMA TablesSame == TablesInv /\ UNCHANGED tableVars => TablesInv'
<1> SUFFICES ASSUME TablesInv, UNCHANGED tableVars PROVE TablesInv'
  OBVIOUS
<1>1. /\ arch' = arch /\ level0' = level0 /\ level1' = level1 /\ pd' = pd /\ ttbr' = ttbr
      /\ tlb' = tlb /\ root' = root /\ i' = i /\ j' = j /\ mmu' = mmu
  BY DEF tableVars
<1>2. X86Tables'
  BY <1>1, ZenonT(30) DEF TablesInv, X86Tables
<1>3. ArmTables'
  BY <1>1, ZenonT(30) DEF TablesInv, ArmTables
<1>4. RootInv'
  BY <1>1, ZenonT(30) DEF TablesInv, RootInv
<1> QED
  BY <1>2, <1>3, <1>4 DEF TablesInv

\* After the loop, .bss is left alone.
LEMMA BssSame ==
  ASSUME BssInv, arch' = arch, UNCHANGED <<size, bytes, cursor>>,
         phase' = phase \/ phase # "bss" \/ ~MoreWords
  PROVE  BssInv'
  BY DEF BssInv, MoreWords

\* Every step preserves the invariant.
LEMMA NextBootInv == BootInv /\ [BootNext]_all => BootInv'
<1> SUFFICES ASSUME BootInv, [BootNext]_all PROVE BootInv'
  OBVIOUS
<1>0. /\ PicInv /\ TablesInv /\ BssInv
      /\ arch = "x86_64" => phase # "lost"
      /\ phase = "bss" => mmu = "clear"
  BY DEF BootInv
<1>1. CASE ClearBss
  <2>1. UNCHANGED tableVars /\ UNCHANGED vars /\ phase' = phase
    BY <1>1 DEF ClearBss
  <2>2. arch' = arch /\ mmu' = mmu
    BY <2>1 DEF tableVars
  <2> QED
    BY <1>0, <1>1, <2>1, <2>2, PicSame, TablesSame, ClearBssStep DEF BootInv
<1>2. CASE BssCleared \/ EnterKernel \/ KernelCall
  <2>1. /\ UNCHANGED tableVars /\ UNCHANGED vars /\ UNCHANGED <<size, bytes, cursor>>
        /\ phase # "bss" \/ ~MoreWords
        /\ phase' # "lost" /\ phase' # "bss"
    <3>1. CASE BssCleared
      BY <3>1, SMTT(30) DEF BssCleared
    <3>2. CASE EnterKernel
      BY <3>2, SMTT(30) DEF EnterKernel
    <3>3. CASE KernelCall
      BY <3>3, SMTT(30) DEF KernelCall, Order
    <3> QED
      BY <1>2, <3>1, <3>2, <3>3
  <2>2. arch' = arch /\ mmu' = mmu
    BY <2>1 DEF tableVars
  <2> QED
    BY <1>0, <2>1, <2>2, PicSame, TablesSame, BssSame DEF BootInv
<1>3. CASE BuildTables
  <2>1. mmu_init /\ UNCHANGED bootVars /\ UNCHANGED vars
    BY <1>3 DEF BuildTables
  <2>2. TablesInv' /\ arch' = arch
    BY <1>0, <2>1, X86Step, ArmStep, ArchFixed DEF TablesInv, RootInv
  <2>3. UNCHANGED <<size, bytes, cursor>> /\ phase' = phase /\ phase = "mmu"
    BY <1>3, <2>1 DEF bootVars, BuildTables
  <2> QED
    BY <1>0, <2>1, <2>2, <2>3, PicSame, BssSame DEF BootInv
<1>4. CASE Lose
  <2>1. /\ UNCHANGED tableVars /\ UNCHANGED vars /\ UNCHANGED <<size, bytes, cursor>>
        /\ ~Mapped /\ phase' = "lost"
    BY <1>4 DEF Lose
  <2>2. arch' = arch /\ arch # "x86_64"
    BY <1>0, <2>1, MappedX86 DEF tableVars
  <2>3. phase # "bss"
    <3>1. root = "firmware" => Mapped
      BY DEF Mapped, Translate
    <3> QED
      BY <1>0, <2>1, <3>1 DEF TablesInv, RootInv
  <2> QED
    BY <1>0, <2>1, <2>2, <2>3, PicSame, TablesSame, BssSame DEF BootInv
<1>5. CASE InterruptInit
  <2>1. /\ InitStep /\ UNCHANGED tableVars /\ UNCHANGED <<size, bytes, cursor>>
        /\ phase = "irq" /\ phase' \in {"fs", "irq"}
    BY <1>5 DEF InterruptInit
  <2>2. arch' = arch /\ mmu' = mmu
    BY <2>1 DEF tableVars
  <2> QED
    BY <1>0, <2>1, <2>2, InitStepStep, TablesSame, BssSame DEF BootInv
<1>6. CASE Interrupts
  <2>1. UNCHANGED bootVars /\ UNCHANGED tableVars
    BY <1>6 DEF Interrupts
  <2>2. PicInv'
    BY <1>0, <1>6, TakeIrqStep, OtherStep DEF Interrupts
  <2>3. /\ UNCHANGED <<size, bytes, cursor>> /\ phase' = phase /\ arch' = arch
        /\ mmu' = mmu
    BY <2>1 DEF bootVars, tableVars
  <2> QED
    BY <1>0, <2>1, <2>2, <2>3, TablesSame, BssSame DEF BootInv
<1>7. CASE UNCHANGED all
  <2>1. UNCHANGED bootVars /\ UNCHANGED tableVars /\ UNCHANGED vars
    BY <1>7 DEF all
  <2>2. /\ UNCHANGED <<size, bytes, cursor>> /\ phase' = phase /\ arch' = arch
        /\ mmu' = mmu
    BY <2>1 DEF bootVars, tableVars
  <2> QED
    BY <1>0, <2>1, <2>2, PicSame, TablesSame, BssSame DEF BootInv
<1> QED
  BY <1>1, <1>2, <1>3, <1>4, <1>5, <1>6, <1>7 DEF BootNext, KernelStep

\* The invariant holds throughout the boot.
THEOREM BootInvariance == BootSpec => []BootInv
  BY InitBootInv, NextBootInv, PTL DEF BootSpec

\* When mmu_enable is called, .bss is clear and nothing behind it was touched,
\* for every size of .bss and of the words stored.
THEOREM BssAlwaysZeroed == BootSpec => []BssZeroed
<1>1. BootInv => BssZeroed
  BY BssResult DEF BootInv
<1> QED
  BY BootInvariance, <1>1, PTL

\* The tables of x86_64 are an identity map of exactly the directories of pd,
\* for every number of entries and directories.
THEOREM AlwaysIdentityMapped == BootSpec => []IdentityMapped
<1>1. BootInv => IdentityMapped
  <2> SUFFICES ASSUME BootInv, arch = "x86_64", root = "own",
                      NEW v \in 0 .. Entries * Entries * Entries - 1
               PROVE  Translate(v) = IF v < Dirs * Entries THEN v ELSE Fault
    BY DEF IdentityMapped
  <2>1. v \in Nat /\ v < Entries * Entries * Entries
    <3>1. Entries * Entries * Entries \in Nat
      BY TableFacts
    <3> QED BY <3>1
  <2> QED
    BY <2>1, WalkX86 DEF BootInv
<1> QED
  BY BootInvariance, <1>1, PTL

\* An x86_64 kernel finds every page it uses mapped at every step of the boot,
\* wherever the image and the pool lie in the first four directories.
THEOREM AlwaysMapped == BootSpec => []StaysMapped
<1>1. BootInv => StaysMapped
  BY MappedX86 DEF BootInv, StaysMapped
<1> QED
  BY BootInvariance, <1>1, PTL

\* arm64 sets the M bit of SCTLR over complete tables, a loaded TTBR0 and a
\* clean TLB.
THEOREM AlwaysReadyBeforeSctlr == BootSpec => []ReadyBeforeSctlr
<1>1. BootInv => ReadyBeforeSctlr
  <2> SUFFICES ASSUME BootInv, arch = "arm64", root = "own"
               PROVE  /\ ttbr /\ tlb = "clean"
                      /\ level0 = [e \in Slots |-> IF e = 0 THEN 0 ELSE Absent]
                      /\ level1 = [e \in Slots |-> e]
    BY DEF ReadyBeforeSctlr
  <2>1. mmu = "done" /\ ArmTables
    BY DEF BootInv, TablesInv, RootInv
  <2>2. /\ ttbr = TRUE /\ tlb = "clean" /\ i = Entries
        /\ level0 \in [Slots -> Int] /\ level1 \in [Slots -> Int]
        /\ \A e \in Slots : /\ level0[e] = IF e = 0 THEN 0 ELSE Absent
                            /\ level1[e] = IF e < Entries THEN e ELSE Absent
    BY <2>1 DEF ArmTables
  <2>3. \A e \in Slots : level1[e] = e
    BY <2>2, TableFacts
  <2>4. level0 = [e \in Slots |-> IF e = 0 THEN 0 ELSE Absent]
    BY <2>2
  <2>5. level1 = [e \in Slots |-> e]
    BY <2>2, <2>3
  <2> QED
    BY <2>2, <2>4, <2>5
<1> QED
  BY BootInvariance, <1>1, PTL

\* interrupt_init, run as part of the boot, leaves the controllers at vectors
\* 0x20-0x2F with line 1 alone unmasked.
THEOREM BootRemaps == BootSpec => []Remapped
<1>1. BootInv => Remapped
  BY DEF BootInv, PicInv
<1> QED
  BY BootInvariance, <1>1, PTL
============================================================================
