------------------------------- MODULE Console -------------------------------
(***************************************************************************)
(* Formatted output over the serial line: printk, panic, printf, putchar    *)
(* and snprintf, from the format to the wire.  stdout is NULL: printf goes  *)
(* to uart_putc.                                                            *)
(***************************************************************************)
EXTENDS Uart, Format

CONSTANTS
  PrintkSize,  \* sizeof(buf) in printk: 512
  SnSizes,     \* size arguments of snprintf
  Formats,     \* the formats used
  Slack,       \* memory above a buffer that the model follows
  Garbage      \* what the stack may hold below it: characters

ASSUME ConsoleConstants ==
  /\ PrintkSize \in Nat \ {0} /\ SnSizes \subseteq Nat /\ Slack \in Nat
  /\ PrintkSize <= Limit + Slack + 2 \* the terminator of a cut text is followed
  /\ Formats \subseteq Seq(Conversions) /\ Garbage \subseteq Nat

VARIABLES
  kind,   \* the function called, or "none"
  todo,   \* formats still to be printed; one, or those of panic
  items,  \* the format being printed
  room,   \* the size argument of snprintf
  buf,    \* the buffer on the stack
  st,     \* the formatter at its return
  pending,\* what its loop has still to do
  stage   \* "format", "loop", "send", "done" or, after panic, "halted"

consoleVars == <<kind, todo, items, room, buf, st, pending, stage>>

Buffers == {[x \in 0 .. PrintkSize + Limit + Slack |-> g] : g \in Garbage}

\* The formats for vsprintf, which has no flags, widths or precisions.
Flagless ==
  {f \in Formats : \A x \in DOMAIN f :
     f[x].width = 0 /\ f[x].prec = -1 /\ ~f[x].hash /\ f[x].sign \in {NoSign, Minus}}

\* panic prints its banner around the message.
PanicFormats(msg) ==
  << <<Literal(LF)>>, <<Literal(42), Literal(LF)>>, <<Item("s", msg), Literal(LF)>>,
     <<Literal(42), Literal(LF)>>, <<Literal(83), Literal(LF), Literal(LF)>> >>

ConsoleInit(fn0, formats, size) ==
  /\ kind = fn0 /\ todo = formats /\ items = <<>> /\ room = size
  /\ buf \in (IF fn0 = "none" THEN {<<>>} ELSE Buffers)
  /\ st = Start(<<>>) /\ pending = <<>>
  /\ stage = IF fn0 = "none" THEN "done" ELSE "format"

\* uart_puts: up to the first NUL.
Puts(cell) ==
  LET end == {x \in DOMAIN cell : cell[x] = NUL}
      l   == IF end = {} THEN Max(DOMAIN cell) + 1 ELSE Min(end)
  IN  [x \in 1 .. l |-> cell[x - 1]]

\* The call, up to the loop of the formatter.  snprintf of size 0 returns.
Begin ==
  /\ stage = "format" /\ todo # <<>>
  /\ items' = Head(todo) /\ todo' = Tail(todo)
  /\ st' = Start(buf)
  /\ pending' = IF kind \in {"printk", "panic"} THEN Text(Convert, items') ELSE items'
  /\ stage' = IF kind = "snprintf" /\ room = 0 THEN "done" ELSE "loop"
  /\ UNCHANGED <<kind, room, buf, uartVars>>

\* A turn of a loop of vsprintf_impl, of vsprintf, or the argument of putchar.
Turn ==
  /\ stage = "loop" /\ pending # <<>> /\ pending' = Tail(pending)
  /\ st' = CASE kind \in {"printk", "panic"} -> vsprintf_implTurn(st, PrintkSize, Head(pending))
             [] kind \in {"printf", "snprintf"} -> vsprintfTurn(st, Head(pending))
             [] kind = "putchar" -> Emit(st, Head(pending).chars)
  /\ UNCHANGED <<kind, todo, items, room, buf, stage, uartVars>>

\* The formatter returns, and its caller passes the text to uart_putc.
Finish ==
  /\ stage = "loop" /\ pending = <<>> /\ stage' = "send"
  /\ st' = CASE kind \in {"printk", "panic"} -> vsprintf_implEnd(st, PrintkSize)
             [] kind = "printf" -> vsprintfEnd(st)
             [] kind = "snprintf" -> vsnprintfEnd(st, room)
             [] kind = "putchar" -> st
  /\ text' = [text EXCEPT !["main"] =
                CASE kind \in {"printk", "panic"} -> Puts(st'.cell)
                  [] kind \in {"printf", "putchar"} -> [x \in 1 .. st'.at |-> st'.cell[x - 1]]
                  [] kind = "snprintf" -> <<>>]
  /\ UNCHANGED <<kind, todo, items, room, buf, pending, arch, depth, uart_base, point, fifo,
                 wire, asked, lost, irqs, rxVars>>

Sent ==
  /\ stage = "send" /\ text["main"] = <<>>
  /\ stage' = IF todo # <<>> THEN "format" ELSE IF kind = "panic" THEN "halted" ELSE "done"
  /\ UNCHANGED <<kind, todo, items, room, buf, st, pending, uartVars>>

ConsoleNext == Begin \/ Turn \/ Finish \/ Sent \/ (Transmit /\ UNCHANGED consoleVars)
----------------------------------------------------------------------------
(* Properties.                                                             *)

Printed(kinds) == kind \in kinds /\ stage \in {"send", "done"}

\* vsprintf_impl agrees with the format wherever it stores, also when it cuts the
\* text, and stores no character from the last byte of buf on, as long as no %c
\* is in it.  A text of fewer than size - 1 characters stays in buf with its
\* terminator, and is counted.
PrintkExact ==
  Printed({"printk", "panic"}) =>
    LET t == Text(Meant, items) IN
    /\ (\A x \in DOMAIN items : items[x].conv # "c") =>
         /\ \A x \in 1 .. Min({Len(t), PrintkSize - 1}) : t[x] # Unset => st.cell[x - 1] = t[x]
         /\ \A a \in st.stored : a >= PrintkSize - 1 => st.cell[a] = NUL
    /\ Len(t) < PrintkSize - 1 =>
         /\ st.stored \subseteq 0 .. PrintkSize - 1
         /\ st.cell[Len(t)] = NUL /\ st.written = Len(t)

\* vsprintf stores no more than Limit characters and a terminator, whatever
\* the format, and is exact for texts up to Limit; a number reads back as its value.
\* The value of snprintf is the length of what is in the buffer, below size, and
\* that is the beginning of the text; its stores are those of vsprintf, which does
\* not know the size.
VsprintfExact ==
  LET t == Text(Plain, items) IN
  /\ Printed({"printf"}) =>
       /\ st.stored \subseteq 0 .. Limit /\ st.cell[st.at] = NUL
       /\ Len(t) <= Limit => st.at = Len(t) /\ \A x \in 1 .. Len(t) : st.cell[x - 1] = t[x]
       /\ \A x \in DOMAIN items : items[x].conv = "number" =>
            ValueOf(Digits(items[x].value, items[x].base), items[x].base) = items[x].value
  /\ Printed({"snprintf"}) /\ room > 0 =>
       /\ st.at < room /\ st.cell[st.at] = NUL
       /\ Len(t) <= Limit =>
            /\ st.at = Min({Len(t), room - 1})
            /\ \A x \in 1 .. st.at : st.cell[x - 1] = t[x]

\* From the format to the wire: on x86_64 a message without numbers that fits in
\* buf has left the driver as it was meant, whatever the stack held before and
\* whatever interrupts printed in between.
SentVerbatim ==
  arch = "x86_64" /\ stage = "done" /\ kind = "printk" =>
    LET t == Text(Meant, items) IN
    Len(t) < PrintkSize - 1 /\ (\A x \in DOMAIN t : t[x] # Unset /\ t[x] # NUL) =>
      Of("main", wire \o fifo) = Expand(t)
============================================================================
