----------------------------- MODULE PageTables -----------------------------
(***************************************************************************)
(* mmu_init of both architectures: the translation tables, built entry by   *)
(* entry and then switched to, and the translation the processor makes of   *)
(* them.  Addresses are counted in pages of 2MB.                            *)
(*                                                                         *)
(* An entry is Absent (valid bit 0), the number of the next table, or the   *)
(* number of a page.  The walk of the tables is external, as is the         *)
(* identity mapping before the switch: GRUB's on x86_64, no MMU on arm64.   *)
(***************************************************************************)
EXTENDS Integers

CONSTANTS
  Entries,  \* entries of a table: 512
  Dirs,     \* directories of pd: 4
  Junk      \* what a table, or a byte of .bss, holds before it is written

ASSUME TableConstants ==
  /\ Entries \in Nat \ {0} /\ Dirs \in 1 .. Entries
  /\ Junk \notin Int

VARIABLES
  arch,   \* "x86_64" or "arm64"
  level0, \* pml4 or pt_table_l0
  level1, \* pdpt or pt_table_l1
  pd,     \* x86_64 only
  ttbr,   \* TTBR0 holds pt_table_l0
  tlb,    \* "stale" until it is invalidated
  root,   \* "firmware", or "own" once CR3, or TTBR0 and SCTLR, are written
  i, j,   \* counters of the loops
  mmu     \* the statement of mmu_init to run next, or "done"

tableVars == <<arch, level0, level1, pd, ttbr, tlb, root, i, j, mmu>>

Slots  == 0 .. Entries - 1
Absent == -1
Zeroed == [e \in Slots |-> Absent]

TablesInit ==
  /\ arch \in {"x86_64", "arm64"}
  /\ level0 = [e \in Slots |-> Junk] /\ level1 = [e \in Slots |-> Junk]
  /\ pd = [d \in 0 .. Dirs - 1 |-> [e \in Slots |-> Junk]]
  /\ ttbr = FALSE /\ tlb = "stale" /\ root = "firmware"
  /\ i = 0 /\ j = 0 /\ mmu = "clear"
----------------------------------------------------------------------------
(* x86_64.                                                                 *)

\* The three memset, and pml4[0].
ClearX86 ==
  /\ arch = "x86_64" /\ mmu = "clear" /\ mmu' = "dir"
  /\ level0' = [Zeroed EXCEPT ![0] = 0] /\ level1' = Zeroed
  /\ pd' = [d \in 0 .. Dirs - 1 |-> Zeroed]
  /\ i' = 0
  /\ UNCHANGED <<arch, ttbr, tlb, root, j>>

\* The outer loop: pdpt[i] leads to pd[i].
SetDirectory ==
  /\ arch = "x86_64" /\ mmu = "dir" /\ i < Dirs /\ mmu' = "page"
  /\ level1' = [level1 EXCEPT ![i] = i]
  /\ j' = 0
  /\ UNCHANGED <<arch, level0, pd, ttbr, tlb, root, i>>

\* Mutant of PageNumber: the stride of the outer loop is its own bound.
PageNumberByDirs(d, e) == d * Dirs + e

PageNumber(d, e) == d * Entries + e

\* The inner loop.
SetPage ==
  /\ arch = "x86_64" /\ mmu = "page"
  /\ pd' = [pd EXCEPT ![i][j] = PageNumber(i, j)]
  /\ j' = j + 1
  /\ i' = IF j' = Entries THEN i + 1 ELSE i
  /\ mmu' = IF j' = Entries THEN "dir" ELSE "page"
  /\ UNCHANGED <<arch, level0, level1, ttbr, tlb, root>>

\* Mutant of LoadCr3: the last directory is still to come.
LoadCr3Early ==
  /\ arch = "x86_64" /\ mmu = "dir" /\ i = Dirs - 1 /\ mmu' = "done"
  /\ root' = "own" /\ tlb' = "clean"
  /\ UNCHANGED <<arch, level0, level1, pd, ttbr, i, j>>

\* CR3 is loaded, and loaded again with its own value.
LoadCr3 ==
  /\ arch = "x86_64" /\ mmu = "dir" /\ i = Dirs /\ mmu' = "done"
  /\ root' = "own" /\ tlb' = "clean"
  /\ UNCHANGED <<arch, level0, level1, pd, ttbr, i, j>>
----------------------------------------------------------------------------
(* arm64.                                                                  *)

\* The loop that clears both tables; then L0[0].
ClearArm ==
  /\ arch = "arm64" /\ mmu = "clear"
  /\ level0' = IF i + 1 < Entries THEN [level0 EXCEPT ![i] = Absent]
               ELSE [level0 EXCEPT ![i] = Absent, ![0] = 0]
  /\ level1' = [level1 EXCEPT ![i] = Absent]
  /\ i' = (i + 1) % Entries
  /\ mmu' = IF i' = 0 THEN "block" ELSE "clear"
  /\ UNCHANGED <<arch, pd, ttbr, tlb, root, j>>

\* Mutant of SetBlock: the loop leaves the last entry out.
SetBlockShort ==
  /\ arch = "arm64" /\ mmu = "block"
  /\ level1' = [level1 EXCEPT ![i] = i]
  /\ i' = i + 1
  /\ mmu' = IF i' = Entries - 1 THEN "ttbr" ELSE "block"
  /\ UNCHANGED <<arch, level0, pd, ttbr, tlb, root, j>>

SetBlock ==
  /\ arch = "arm64" /\ mmu = "block"
  /\ level1' = [level1 EXCEPT ![i] = i]
  /\ i' = i + 1
  /\ mmu' = IF i' = Entries THEN "ttbr" ELSE "block"
  /\ UNCHANGED <<arch, level0, pd, ttbr, tlb, root, j>>

LoadTtbr ==
  /\ arch = "arm64" /\ mmu = "ttbr" /\ mmu' = "tlbi" /\ ttbr' = TRUE
  /\ UNCHANGED <<arch, level0, level1, pd, tlb, root, i, j>>

InvalidateTlb ==
  /\ arch = "arm64" /\ mmu = "tlbi" /\ mmu' = "sctlr" /\ tlb' = "clean"
  /\ UNCHANGED <<arch, level0, level1, pd, ttbr, root, i, j>>

WriteSctlr ==
  /\ arch = "arm64" /\ mmu = "sctlr" /\ mmu' = "done" /\ root' = "own"
  /\ UNCHANGED <<arch, level0, level1, pd, ttbr, tlb, i, j>>

mmu_init ==
  \/ ClearX86 \/ SetDirectory \/ SetPage \/ LoadCr3
  \/ ClearArm \/ SetBlock \/ LoadTtbr \/ InvalidateTlb \/ WriteSctlr
----------------------------------------------------------------------------
(* The walk.                                                               *)

Fault == -1   \* no translation
Wild  == -2   \* a translation mmu_init did not write

\* Where the processor finds page v.  pt_block_2mb sets the two low bits of
\* its entries, which at level 1 makes them descriptors of a table: the walk
\* goes on in memory that mmu_init has not written.
Translate(v) ==
  LET e0 == level0[v \div (Entries * Entries)]
      e1 == level1[(v \div Entries) % Entries]
  IN  CASE root = "firmware" -> v
        [] root = "own" /\ e0 = Absent -> Fault
        [] root = "own" /\ e0 = 0 /\ e1 = Absent -> Fault
        [] root = "own" /\ e0 = 0 /\ e1 \in 0 .. Dirs - 1 /\ arch = "x86_64" ->
             IF pd[e1][v % Entries] = Absent THEN Fault ELSE pd[e1][v % Entries]
        [] OTHER -> Wild
----------------------------------------------------------------------------
(* Properties.                                                             *)

\* From the instruction that loads CR3 on, the tables mmu_init built on x86_64
\* map the pages of its four directories (4GB) each to itself, and nothing else.
IdentityMapped ==
  arch = "x86_64" /\ root = "own" =>
    \A v \in 0 .. Entries * Entries * Entries - 1 :
      Translate(v) = IF v < Dirs * Entries THEN v ELSE Fault

\* arm64 switches the MMU on after the tables are complete, TTBR0 leads to them
\* and no translation of an earlier boot stage is left in the TLB.
ReadyBeforeSctlr ==
  arch = "arm64" /\ root = "own" =>
    /\ ttbr /\ tlb = "clean"
    /\ level0 = [e \in Slots |-> IF e = 0 THEN 0 ELSE Absent]
    /\ level1 = [e \in Slots |-> e]
============================================================================
