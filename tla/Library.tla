------------------------------ MODULE Library ------------------------------
(***************************************************************************)
(* The kernel's library as its callers see it: a call of a string function, *)
(* a formatted print, a reader of the serial line, or a sequence of system  *)
(* calls, of which SYS_WRITE goes to the serial line.                       *)
(***************************************************************************)
EXTENDS Console, StringLib, Syscall

CONSTANTS
  UserText,     \* the buffer of SYS_WRITE
  StringCalls,  \* calls of string.c: records f, d, s, len, c, m
  PanicText     \* the message of panic

ASSUME LibraryConstants == UserText \in Seq(Nat) /\ PanicText \in Seq(Nat)

VARIABLE job    \* "string", "console", "input" or "syscalls"

libVars == <<job, uartVars, consoleVars, stringVars, vars>>

LibInit ==
  /\ Init /\ UartInit
  /\ \/ /\ job = "string" /\ ConsoleInit("none", <<>>, 0)
        /\ \E x \in StringCalls : Call(x.f, x.d, x.s, x.len, x.c, x.m)
        /\ arch = "x86_64" /\ depth = Max(Depths[arch])
     \/ /\ job = "console" /\ NoCall
        /\ \/ \E f \in Formats : ConsoleInit("printk", <<f>>, 0)
           \/ \E f \in Flagless : ConsoleInit("printf", <<f>>, 0)
           \/ \E f \in Flagless, size \in SnSizes : ConsoleInit("snprintf", <<f>>, size)
           \/ ConsoleInit("panic", PanicFormats(PanicText), 0)
           \/ ConsoleInit("putchar", <<<<Literal(LF)>>>>, 0)
     \/ /\ job = "input" /\ NoCall /\ ConsoleInit("none", <<>>, 0)
     \/ /\ job = "syscalls" /\ NoCall /\ ConsoleInit("none", <<>>, 0)

StringStep  == StringNext /\ UNCHANGED <<job, uartVars, consoleVars, vars>>
ConsoleStep == job = "console" /\ ConsoleNext /\ UNCHANGED <<job, stringVars, vars>>
InputStep   == job = "input" /\ Receive /\ UNCHANGED <<job, consoleVars, stringVars, vars>>

\* A system call starts when the last one has returned.
SyscallStep ==
  /\ job = "syscalls" /\ text["main"] = <<>>
  /\ \/ /\ Exit \/ (\E call \in DOMAIN Stubs : Stub(call)) \/ (\E size \in Sizes : Malloc(size))
        /\ UNCHANGED text
     \/ \E fd \in 0 .. 2, count \in Sizes :
          /\ Write(fd, count)
          /\ fd \in {1, 2} => count <= Len(UserText)
          /\ text' = [text EXCEPT !["main"] = IF fd \in {1, 2} THEN SubSeq(UserText, 1, count) ELSE <<>>]
  /\ UNCHANGED <<job, arch, depth, uart_base, point, fifo, wire, asked, lost, irqs, rxVars,
                 consoleVars, stringVars>>

SyscallOutput ==
  job = "syscalls" /\ Transmit /\ UNCHANGED <<job, consoleVars, stringVars, vars>>

LibNext == StringStep \/ ConsoleStep \/ InputStep \/ SyscallStep \/ SyscallOutput

LibSpec == LibInit /\ [][LibNext]_libVars

\* A call in progress goes on, in the handler first, and the device transmits.
FairLibSpec ==
  /\ LibSpec
  /\ WF_libVars(StringStep)
  /\ WF_libVars(ConsoleStep)
----------------------------------------------------------------------------
(* Properties.                                                             *)

\* Every string function returns, and so does every call of the console, with its
\* text passed on; panic has printed all it prints and halts.
CallReturns ==
  <>(loop = "done" /\ stage \in {"done", "halted"} /\ (job = "console" => text["main"] = <<>>))
============================================================================
