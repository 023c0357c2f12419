-------------------------------- MODULE Uart --------------------------------
(***************************************************************************)
(* The serial drivers of printk.c, PL011 (arm64) and 16550 (x86_64), one    *)
(* access to the device per step, used by the kernel and by an interrupt    *)
(* handler that prints in the middle of it.                                 *)
(*                                                                         *)
(* The device is external: a transmit FIFO that loses what is written while *)
(* it is full, and a receive FIFO that loses what arrives while it is full. *)
(* TXFF is "full", THRE of the 16550 is "empty".                            *)
(***************************************************************************)
EXTENDS Texts

CONSTANTS
  Depths,   \* FIFO depths by architecture: uart_init of arm64 does not set it
  RxDepth,  \* depth of the receive FIFO
  IrqText,  \* what the handler prints
  MaxIrqs,  \* bound on the interrupts of a behaviour
  Input     \* the characters that arrive

ASSUME UartConstants ==
  /\ Depths["arm64"] \subseteq Nat \ {0}
  /\ Depths["x86_64"] \subseteq {d \in Nat : d >= 4} \* a 16550 has 16 places
  /\ RxDepth \in Nat \ {0} /\ MaxIrqs \in Nat
  /\ IrqText \in Seq(Nat) /\ Input \in Seq(0 .. 255)

LF == 10
CR == 13
Contexts == {"main", "irq"}

VARIABLES
  arch, depth,
  uart_base,  \* set: always on x86_64, by the first uart_init on arm64
  text,       \* characters a context still has to pass to uart_putc
  point,      \* where its uart_putc is: "wait", "again", "return", "data"
  fifo, wire, \* <<context, character>> in the FIFO and sent
  asked,      \* the characters a context passed to uart_putc, completed
  lost,       \* <<context, character>> written to a full FIFO
  irqs,       \* interrupts so far
  input, rx,  \* characters to arrive, and in the receive FIFO
  overrun,    \* characters that found it full
  got,        \* values returned by getchar and uart_getc_nonblock
  reader      \* "idle", or the function about to read the data register

txVars   == <<uart_base, text, point, fifo, wire, asked, lost, irqs>>
rxVars   == <<input, rx, overrun, got, reader>>
uartVars == <<arch, depth, txVars, rxVars>>

UartInit ==
  /\ arch \in {"arm64", "x86_64"} /\ depth \in Depths[arch]
  /\ uart_base = (arch = "x86_64")
  /\ text = [c \in Contexts |-> <<>>] /\ point = [c \in Contexts |-> "wait"]
  /\ fifo = <<>> /\ wire = <<>> /\ lost = <<>>
  /\ asked = [c \in Contexts |-> <<>>]
  /\ irqs = 0
  /\ input = Input /\ rx = <<>> /\ overrun = <<>> /\ got = <<>> /\ reader = "idle"
----------------------------------------------------------------------------
(* Transmission.                                                           *)

\* The handler runs to its end before the kernel goes on.
Runs(c) == text[c] # <<>> /\ (c = "main" => text["irq"] = <<>>)

WriteData(c, ch) ==
  IF Len(fifo) < depth THEN fifo' = Append(fifo, <<c, ch>>) /\ UNCHANGED lost
  ELSE lost' = Append(lost, <<c, ch>>) /\ UNCHANGED fifo

\* Mutant of TxReady: the 16550 is taken to be ready when a place is free.
TxReadyRoom == Len(fifo) < depth

TxReady == IF arch = "x86_64" THEN fifo = <<>> ELSE Len(fifo) < depth

\* Mutant of uart_init: it waits until BUSY is set, as early_uart_init does.
uart_initBusy(c) ==
  /\ Runs(c) /\ ~uart_base /\ point[c] = "wait"
  /\ fifo # <<>> /\ uart_base' = TRUE
  /\ UNCHANGED <<text, point, fifo, wire, asked, lost, irqs>>

\* uart_putc, arm64, before uart_init: it waits while BUSY.
uart_init(c) ==
  /\ Runs(c) /\ ~uart_base /\ point[c] = "wait"
  /\ fifo = <<>> /\ uart_base' = TRUE
  /\ UNCHANGED <<text, point, fifo, wire, asked, lost, irqs>>

\* The first wait.
Wait(c) ==
  /\ Runs(c) /\ uart_base /\ point[c] = "wait" /\ TxReady
  /\ point' = [point EXCEPT ![c] = IF Head(text[c]) = LF THEN "again" ELSE "data"]
  /\ UNCHANGED <<uart_base, text, fifo, wire, asked, lost, irqs>>

\* The second wait, before a '\n'.
WaitAgain(c) ==
  /\ Runs(c) /\ point[c] = "again" /\ TxReady
  /\ point' = [point EXCEPT ![c] = "return"]
  /\ UNCHANGED <<uart_base, text, fifo, wire, asked, lost, irqs>>

CarriageReturn(c) ==
  /\ Runs(c) /\ point[c] = "return"
  /\ WriteData(c, CR)
  /\ point' = [point EXCEPT ![c] = "data"]
  /\ UNCHANGED <<uart_base, text, wire, asked, irqs>>

\* The character; uart_putc returns and the loop of its caller goes on.
Data(c) ==
  /\ Runs(c) /\ point[c] = "data"
  /\ WriteData(c, Head(text[c]))
  /\ asked' = [asked EXCEPT ![c] = Append(@, Head(text[c]))]
  /\ text' = [text EXCEPT ![c] = Tail(@)]
  /\ point' = [point EXCEPT ![c] = "wait"]
  /\ UNCHANGED <<uart_base, wire, irqs>>

uart_putc(c) == uart_init(c) \/ Wait(c) \/ WaitAgain(c) \/ CarriageReturn(c) \/ Data(c)

\* An interrupt whose handler prints, at any point of the kernel's output.
Interrupt ==
  /\ text["main"] # <<>> /\ text["irq"] = <<>> /\ irqs < MaxIrqs
  /\ irqs' = irqs + 1
  /\ text' = [text EXCEPT !["irq"] = IrqText]
  /\ UNCHANGED <<uart_base, point, fifo, wire, asked, lost>>

\* The device sends a character.
Shift ==
  /\ fifo # <<>>
  /\ wire' = Append(wire, Head(fifo)) /\ fifo' = Tail(fifo)
  /\ UNCHANGED <<uart_base, text, point, asked, lost, irqs>>

Transmit ==
  /\ (\E c \in Contexts : uart_putc(c)) \/ Interrupt \/ Shift
  /\ UNCHANGED <<arch, depth, rxVars>>
----------------------------------------------------------------------------
(* Reception.                                                              *)

Arrive ==
  /\ input # <<>> /\ input' = Tail(input)
  /\ IF Len(rx) < RxDepth THEN rx' = Append(rx, Head(input)) /\ UNCHANGED overrun
     ELSE overrun' = Append(overrun, Head(input)) /\ UNCHANGED rx
  /\ UNCHANGED <<got, reader, uart_base>>

\* The head of the functions that read: uart_init, if it has not run.
Prepared == (uart_base \/ fifo = <<>>) /\ uart_base' = TRUE

\* Mutant of Poll: the status is not looked at.
PollBlind(f) ==
  /\ reader = "idle" /\ Prepared /\ reader' = f
  /\ UNCHANGED <<input, rx, overrun, got>>

\* The wait of uart_getc, and the test of uart_getc_nonblock when it succeeds.
Poll(f) ==
  /\ reader = "idle" /\ Prepared /\ rx # <<>> /\ reader' = f
  /\ UNCHANGED <<input, rx, overrun, got>>

\* uart_getc_nonblock with nothing there; Input bounds how often.
NothingThere ==
  /\ reader = "idle" /\ Prepared /\ rx = <<>> /\ Len(got) < Len(Input)
  /\ got' = Append(got, [f |-> "nonblock", value |-> -1])
  /\ UNCHANGED <<input, rx, overrun, reader>>

\* The int a caller gets: uart_getc passes the byte through a char, which is
\* signed on x86_64, and getchar widens it.
AsInt(f, byte) == IF f = "getchar" /\ arch = "x86_64" /\ byte > 127 THEN byte - 256 ELSE byte

ReadData ==
  /\ reader # "idle" /\ reader' = "idle"
  /\ got' = Append(got, [f |-> reader, value |-> AsInt(reader, Head(rx))]) /\ rx' = Tail(rx)
  /\ UNCHANGED <<input, overrun, uart_base>>

Receive ==
  /\ Arrive \/ (\E f \in {"getchar", "nonblock"} : Poll(f)) \/ NothingThere \/ ReadData
  /\ UNCHANGED <<arch, depth, text, point, fifo, wire, asked, lost, irqs>>
----------------------------------------------------------------------------
(* Properties.                                                             *)

\* What context c wrote, in order: of s, the characters of c.
Of(c, s) == Joined([x \in DOMAIN s |-> IF s[x][1] = c THEN <<s[x][2]>> ELSE <<>>])

\* A text as it is to appear on the wire.
Expand(t) == Joined([x \in DOMAIN t |-> IF t[x] = LF THEN <<CR, LF>> ELSE <<t[x]>>])

\* A text without its newlines.
Rest(t) == Joined([x \in DOMAIN t |-> IF t[x] = LF THEN <<>> ELSE <<t[x]>>])

\* The bytes that were read; -1 of uart_getc_nonblock is none.
Bytes(s) ==
  Joined([x \in DOMAIN s |->
                IF s[x].f = "getchar" \/ s[x].value # -1 THEN <<s[x].value % 256>> ELSE <<>>])

\* Between two calls of uart_putc, x86_64 has brought every character of the
\* context into the FIFO or onto the wire, in order and each '\n' after '\r',
\* also when an interrupt prints between the test of THRE and the write.  On arm64
\* the second character of '\r' '\n' is written without a test and may be lost;
\* uninterrupted, nothing else is, and the rest stays in order.  The output of the
\* handler, which nothing interrupts, is never worse off.
OnlyNewlinesLost ==
  \A c \in Contexts :
    /\ arch = "x86_64" =>
         /\ lost = <<>>
         /\ point[c] # "data" => Of(c, wire \o fifo) = Expand(asked[c])
    /\ arch = "arm64" /\ (c = "irq" \/ irqs = 0) =>
         /\ \A x \in DOMAIN lost : lost[x][1] = c => lost[x][2] = LF
         /\ point[c] # "data" => Rest(Of(c, wire \o fifo)) = Rest(Expand(asked[c]))

\* The characters read are those that arrived, in order, without the overruns, and
\* the data register is only read with a character in it.  From getchar a byte comes
\* back modulo 256 only: 0xFF is -1 there, the "nothing" of uart_getc_nonblock.
ReadInOrder ==
  /\ reader # "idle" => rx # <<>>
  /\ overrun = <<>> => Bytes(got) \o rx \o input = Input
============================================================================
