------------------------------- MODULE MCGic -------------------------------
(* Instances of Gic for TLC.  Interrupt 17 is enabled and has priority 128;  *)
(* 27, the virtual timer, is enabled and keeps the priority of reset; 33,   *)
(* the UART of the virt machine, is not enabled; 260 is enabled, keeps the  *)
(* priority of reset and is beyond the dispatch table.                      *)
EXTENDS Gic

CONSTANTS h1, h2
============================================================================
