---------------------------- MODULE ConsoleProofs ----------------------------
(***************************************************************************)
(* The calls of the console in the composed library, for every format,     *)
(* buffer size, input, FIFO depth and interleaving with an interrupt that  *)
(* prints: what is read is what arrived; printk, panic, printf and snprintf*)
(* leave in their buffers what their formats say; and what a call passed   *)
(* to the driver comes out on the line.                                    *)
(***************************************************************************)
EXTENDS Library, FormatProofs
----------------------------------------------------------------------------
(* Reading.                                                                *)

Chars == 0 .. 255

\* Bytes are integers.
LEMMA CharsInt == Seq(Chars) \subseteq Seq(Int)
<1>1. Chars \subseteq Int
  BY DEF Chars
<1>2. ASSUME NEW s \in Seq(Chars) PROVE s \in Seq(Int)
  <2>1. PICK l \in Nat : l = Len(s)
    OBVIOUS
  <2>2. s = [x \in 1 .. l |-> s[x]] /\ \A x \in 1 .. l : s[x] \in Int
    BY <1>1, <2>1
  <2> QED BY <2>2
<1> QED BY <1>2, Zenon

\* The receive FIFO and what was read from it hold bytes, in the order of arrival.
ReadInv ==
  /\ arch \in {"arm64", "x86_64"}
  /\ input \in Seq(Chars) /\ rx \in Seq(Chars) /\ overrun \in Seq(Chars)
  /\ got \in Seq(Reads)
  /\ reader \in {"idle", "getchar", "nonblock"}
  /\ ReadInOrder

\* No step but one of a reader changes what reading depends on.
LEMMA NoRead == LibNext => InputStep \/ UNCHANGED <<arch, rxVars>>
<1> SUFFICES ASSUME LibNext, ~InputStep PROVE UNCHANGED <<arch, rxVars>>
  OBVIOUS
<1>1. CASE StringStep
  BY <1>1 DEF StringStep, uartVars
<1>2. CASE ConsoleStep
  <2>1. Begin \/ Turn \/ Finish \/ Sent \/ Transmit
    BY <1>2 DEF ConsoleStep, ConsoleNext
  <2>2. CASE Begin \/ Turn \/ Sent
    BY <2>2 DEF Begin, Turn, Sent, uartVars
  <2>3. CASE Finish
    BY <2>3 DEF Finish
  <2>4. CASE Transmit
    BY <2>4 DEF Transmit
  <2> QED BY <2>1, <2>2, <2>3, <2>4
<1>3. CASE SyscallStep
  BY <1>3 DEF SyscallStep
<1>4. CASE SyscallOutput
  BY <1>4 DEF SyscallOutput, Transmit
<1> QED BY <1>1, <1>2, <1>3, <1>4 DEF LibNext

\* A byte read and widened is the byte again modulo 256, and is passed on.
LEMMA ByteBack ==
  ASSUME NEW f \in {"getchar", "nonblock"}, NEW b \in Chars
  PROVE  /\ AsInt(f, b) \in Int /\ AsInt(f, b) % 256 = b
         /\ f = "getchar" \/ AsInt(f, b) # -1
<1>1. b \in Int /\ b >= 0 /\ b <= 255
  BY DEF Chars
<1>2. (b - 256) % 256 = b /\ b % 256 = b
  BY <1>1
<1>3. CASE f = "getchar"
  BY <1>1, <1>2, <1>3 DEF AsInt
<1>4. CASE f = "nonblock"
  BY <1>1, <1>2, <1>4 DEF AsInt
<1> QED BY <1>3, <1>4

\* An arriving character goes behind the ones in the FIFO.
LEMMA ArriveReads == ReadInv /\ Arrive /\ UNCHANGED arch => ReadInv'
<1> SUFFICES ASSUME ReadInv, Arrive, UNCHANGED arch PROVE ReadInv'
  OBVIOUS
<1>1. /\ input \in Seq(Chars) /\ rx \in Seq(Chars) /\ input # <<>> /\ input' = Tail(input)
      /\ got' = got /\ reader' = reader
  BY DEF ReadInv, Arrive
<1>2. Head(input) \in Chars /\ Tail(input) \in Seq(Chars) /\ (rx \o <<Head(input)>>) \o Tail(input) = rx \o input
  BY <1>1, MoveHead
<1>3. Bytes(got) \in Seq(Int)
  <2>1. got \in Seq(Reads) /\ [f |-> "getchar", value |-> 0] \in Reads
    BY DEF ReadInv, Reads
  <2> QED BY <2>1, BytesAppend, Zenon
<1>4. CASE rx' = Append(rx, Head(input)) /\ overrun' = overrun
  <2>1. rx' = rx \o <<Head(input)>> /\ rx' \in Seq(Chars) /\ rx' # <<>>
    BY <1>1, <1>2, <1>4, AppendOne
  <2>2. /\ rx \in Seq(Int) /\ input \in Seq(Int)
        /\ rx' \in Seq(Int) /\ input' \in Seq(Int)
    BY <1>1, <1>2, <2>1, CharsInt
  <2>3. /\ (Bytes(got) \o rx') \o input' = Bytes(got) \o (rx' \o input')
        /\ (Bytes(got) \o rx) \o input = Bytes(got) \o (rx \o input)
    <3>1. ASSUME NEW b \in Seq(Int), NEW u \in Seq(Int), NEW v \in Seq(Int)
          PROVE  (b \o u) \o v = b \o (u \o v)
      OBVIOUS
    <3> QED BY <1>3, <2>2, <3>1, Zenon
  <2>4. rx' \o input' = rx \o input
    BY <1>1, <1>2, <2>1
  <2>5. Bytes(got') \o rx' \o input' = Bytes(got) \o rx \o input
    BY <1>1, <2>3, <2>4, Zenon
  <2> QED
    BY <1>1, <1>2, <1>4, <2>1, <2>5, Zenon DEF ReadInv, ReadInOrder
<1>5. CASE overrun' = Append(overrun, Head(input)) /\ rx' = rx
  <2>1. overrun' # <<>> /\ overrun' \in Seq(Chars)
    BY <1>2, <1>5, AppendOne DEF ReadInv
  <2> QED
    BY <1>1, <1>2, <1>5, <2>1 DEF ReadInv, ReadInOrder
<1> QED
  BY <1>4, <1>5 DEF Arrive

\* A read takes the first character of the FIFO.
LEMMA DataReads == ReadInv /\ ReadData /\ UNCHANGED arch => ReadInv'
<1> SUFFICES ASSUME ReadInv, ReadData, UNCHANGED arch PROVE ReadInv'
  OBVIOUS
<1> DEFINE e == [f |-> reader, value |-> AsInt(reader, Head(rx))]
<1>1. /\ reader \in {"getchar", "nonblock"} /\ rx \in Seq(Chars) /\ rx # <<>> /\ got \in Seq(Reads)
      /\ input \in Seq(Chars)
  BY DEF ReadInv, ReadInOrder, ReadData
<1>2. /\ reader' = "idle" /\ got' = Append(got, e) /\ rx' = Tail(rx)
      /\ UNCHANGED <<input, overrun>>
  BY DEF ReadData
<1>3. Head(rx) \in Chars /\ Tail(rx) \in Seq(Chars)
  BY <1>1, MoveHead
<1>4. /\ AsInt(reader, Head(rx)) \in Int /\ AsInt(reader, Head(rx)) % 256 = Head(rx)
      /\ reader = "getchar" \/ AsInt(reader, Head(rx)) # -1
  BY <1>1, <1>3, ByteBack
<1>5. /\ e \in Reads /\ e.value % 256 = Head(rx)
      /\ e.f = "getchar" \/ e.value # -1
  BY <1>1, <1>4 DEF Reads
<1> HIDE DEF e
<1>6. /\ Bytes(got) \in Seq(Int)
      /\ Bytes(Append(got, e)) = Bytes(got) \o <<Head(rx)>>
  BY <1>1, <1>5, BytesAppend
<1>7. rx \in Seq(Int)
  BY <1>1, CharsInt
<1>8. (Bytes(got) \o <<Head(rx)>>) \o Tail(rx) = Bytes(got) \o rx
  BY <1>1, <1>6, <1>7, MoveHead, Zenon
<1>9. Bytes(got') \o rx' \o input' = Bytes(got) \o rx \o input
  BY <1>2, <1>6, <1>8, Zenon
<1>10. got' \in Seq(Reads)
  BY <1>1, <1>2, <1>5, AppendOne
<1> QED
  BY <1>2, <1>3, <1>9, <1>10, Zenon DEF ReadInv, ReadInOrder

\* uart_getc_nonblock without a character adds none.
LEMMA NothingReads == ReadInv /\ NothingThere /\ UNCHANGED arch => ReadInv'
<1> SUFFICES ASSUME ReadInv, NothingThere, UNCHANGED arch PROVE ReadInv'
  OBVIOUS
<1> DEFINE e == [f |-> "nonblock", value |-> -1]
<1>1. e \in Reads /\ e.f # "getchar" /\ e.value = -1
  BY DEF Reads
<1>2. got' = Append(got, e) /\ UNCHANGED <<input, rx, overrun, reader>>
  BY DEF NothingThere
<1> HIDE DEF e
<1>3. got \in Seq(Reads)
  BY DEF ReadInv
<1>4. Bytes(got) \in Seq(Int) /\ Bytes(Append(got, e)) = Bytes(got) \o <<>>
  BY <1>1, <1>3, BytesAppend, Zenon
<1>5. Bytes(got') = Bytes(got) /\ got' \in Seq(Reads)
  BY <1>1, <1>2, <1>3, <1>4, AppendOne
<1> QED
  BY <1>2, <1>5 DEF ReadInv, ReadInOrder

\* Every step of the library keeps ReadInv.
LEMMA NextReadInv == ReadInv /\ [LibNext]_libVars => ReadInv'
<1> SUFFICES ASSUME ReadInv, [LibNext]_libVars PROVE ReadInv'
  OBVIOUS
<1>1. CASE InputStep
  <2>1. Receive /\ UNCHANGED arch
    BY <1>1 DEF InputStep, Receive
  <2>2. ASSUME NEW f \in {"getchar", "nonblock"}, Poll(f) PROVE ReadInv'
    BY <2>1, <2>2 DEF Poll, ReadInv, ReadInOrder
  <2> QED
    BY <2>1, <2>2, ArriveReads, DataReads, NothingReads DEF Receive
<1>2. CASE UNCHANGED <<arch, rxVars>>
  BY <1>2 DEF rxVars, ReadInv, ReadInOrder
<1> QED
  BY <1>1, <1>2, NoRead DEF libVars, uartVars

\* getchar and uart_getc_nonblock return the characters that arrived, in order and
\* none twice, and never read the data register of an empty FIFO, for every
\* sequence of characters, every depth of the FIFO and every way to mix the two.
THEOREM ReadsInOrder == LibSpec => []ReadInOrder
<1>1. LibInit => ReadInv
  <2> SUFFICES ASSUME LibInit PROVE ReadInv
    OBVIOUS
  <2>1. UartInit /\ arch \in {"arm64", "x86_64"}
    BY DEF LibInit, UartInit
  <2>2. Input \in Seq(Chars)
    BY UartConstants DEF Chars
  <2>3. Bytes(<<>>) = <<>>
    BY JoinedEmpty DEF Bytes
  <2>4. <<>> \o <<>> \o Input = Input
    BY <2>2
  <2> QED
    BY <2>1, <2>2, <2>3, <2>4 DEF UartInit, ReadInv, ReadInOrder
<1>2. ReadInv => ReadInOrder
  BY DEF ReadInv
<1> QED
  BY <1>1, <1>2, NextReadInv, PTL DEF LibSpec

----------------------------------------------------------------------------
(* The calls of the console.                                               *)

\* In the loop, what is done and what is left make up the format.
PrintkLoop(its, s, rest) ==
  /\ rest \in Seq(Operations)
  /\ \E done \in Seq(Operations) : Text(Convert, its) = done \o rest /\ PrintkAt(s, done)

VsprintfLoop(its, s, rest) ==
  /\ rest \in Seq(Conversions)
  /\ \E done \in Seq(Conversions) : its = done \o rest /\ VsprintfAt(s, done)

\* vsprintf_impl from its first turn to its return.
LEMMA PrintkLoops ==
  ASSUME NEW its \in Seq(Conversions)
  PROVE  /\ \A c \in Cells : /\ Start(c) \in FormatterStates
                             /\ PrintkLoop(its, Start(c), Text(Convert, its))
         /\ \A s \in FormatterStates : \A rest : PrintkLoop(its, s, rest) /\ rest # <<>> =>
              /\ vsprintf_implTurn(s, PrintkSize, Head(rest)) \in FormatterStates
              /\ PrintkLoop(its, vsprintf_implTurn(s, PrintkSize, Head(rest)), Tail(rest))
         /\ \A s \in FormatterStates : PrintkLoop(its, s, <<>>) =>
              /\ vsprintf_implEnd(s, PrintkSize) \in FormatterStates
              /\ PrintkDone(vsprintf_implEnd(s, PrintkSize), Text(Convert, its))
<1> DEFINE ops == Text(Convert, its)
<1>1. ops \in Seq(Operations)
  BY TextMeant
<1> HIDE DEF ops
<1>2. ASSUME NEW c \in Cells
      PROVE  Start(c) \in FormatterStates /\ PrintkLoop(its, Start(c), ops)
  <2>1. <<>> \in Seq(Operations) /\ ops = <<>> \o ops
    BY <1>1
  <2> QED BY <1>1, <2>1, PrintkStart, Zenon DEF PrintkLoop, ops
<1>3. ASSUME NEW s \in FormatterStates, NEW rest, PrintkLoop(its, s, rest), rest # <<>>
      PROVE  /\ vsprintf_implTurn(s, PrintkSize, Head(rest)) \in FormatterStates
             /\ PrintkLoop(its, vsprintf_implTurn(s, PrintkSize, Head(rest)), Tail(rest))
  <2>1. rest \in Seq(Operations)
    BY <1>3 DEF PrintkLoop
  <2>2. PICK done \in Seq(Operations) : ops = done \o rest /\ PrintkAt(s, done)
    BY <1>3, Zenon DEF PrintkLoop, ops
  <2>3. /\ Head(rest) \in Operations /\ Tail(rest) \in Seq(Operations)
        /\ (done \o <<Head(rest)>>) \o Tail(rest) = done \o rest
    BY <1>3, <2>1, MoveHead
  <2>4. PICK o \in Operations : o = Head(rest)
    BY <2>3
  <2>5. Append(done, o) = done \o <<o>> /\ Append(done, o) \in Seq(Operations)
    BY AppendOne
  <2>6. PrintkAt(vsprintf_implTurn(s, PrintkSize, o), Append(done, o))
    BY <2>2, PrintkTurn
  <2>7. ops = Append(done, o) \o Tail(rest)
    BY <2>2, <2>3, <2>4, <2>5
  <2>8. vsprintf_implTurn(s, PrintkSize, o) \in FormatterStates
    BY TurnFields
  <2> QED
    BY <2>3, <2>4, <2>5, <2>6, <2>7, <2>8, Zenon DEF PrintkLoop, ops
<1>4. ASSUME NEW s \in FormatterStates, PrintkLoop(its, s, <<>>)
      PROVE  /\ vsprintf_implEnd(s, PrintkSize) \in FormatterStates
             /\ PrintkDone(vsprintf_implEnd(s, PrintkSize), ops)
  <2>1. PICK done \in Seq(Operations) : ops = done \o <<>> /\ PrintkAt(s, done)
    BY <1>4 DEF PrintkLoop, ops
  <2>2. done = ops
    BY <2>1
  <2> QED BY <1>1, <2>1, <2>2, PrintkEnd
<1> QED BY <1>2, <1>3, <1>4 DEF ops

\* vsprintf and vsnprintf.
LEMMA VsprintfLoops ==
  ASSUME NEW its \in Seq(Conversions)
  PROVE  /\ \A c \in Cells : VsprintfLoop(its, Start(c), its)
         /\ \A s \in FormatterStates : \A rest : VsprintfLoop(its, s, rest) /\ rest # <<>> =>
              /\ vsprintfTurn(s, Head(rest)) \in FormatterStates
              /\ VsprintfLoop(its, vsprintfTurn(s, Head(rest)), Tail(rest))
         /\ \A s \in FormatterStates : VsprintfLoop(its, s, <<>>) =>
              /\ vsprintfEnd(s) \in FormatterStates
              /\ VsprintfDone(vsprintfEnd(s), Text(Plain, its))
              /\ \A size \in Nat \ {0} :
                   /\ vsnprintfEnd(s, size) \in FormatterStates
                   /\ SnprintfDone(vsnprintfEnd(s, size), Text(Plain, its), size)
<1>2. ASSUME NEW c \in Cells
      PROVE  VsprintfLoop(its, Start(c), its)
  <2>1. <<>> \in Seq(Conversions) /\ its = <<>> \o its
    OBVIOUS
  <2> QED BY <2>1, VsprintfStart, Zenon DEF VsprintfLoop
<1>3. ASSUME NEW s \in FormatterStates, NEW rest, VsprintfLoop(its, s, rest), rest # <<>>
      PROVE  /\ vsprintfTurn(s, Head(rest)) \in FormatterStates
             /\ VsprintfLoop(its, vsprintfTurn(s, Head(rest)), Tail(rest))
  <2>1. rest \in Seq(Conversions)
    BY <1>3 DEF VsprintfLoop
  <2>2. PICK done \in Seq(Conversions) : its = done \o rest /\ VsprintfAt(s, done)
    BY <1>3 DEF VsprintfLoop
  <2>3. /\ Head(rest) \in Conversions /\ Tail(rest) \in Seq(Conversions)
        /\ (done \o <<Head(rest)>>) \o Tail(rest) = done \o rest
    BY <1>3, <2>1, MoveHead
  <2>4. PICK it \in Conversions : it = Head(rest)
    BY <2>3
  <2>5. Append(done, it) = done \o <<it>> /\ Append(done, it) \in Seq(Conversions)
    BY AppendOne
  <2>6. /\ vsprintfTurn(s, it) \in FormatterStates
        /\ VsprintfAt(vsprintfTurn(s, it), Append(done, it))
    BY <2>2, VsprintfTurns
  <2>7. its = Append(done, it) \o Tail(rest)
    BY <2>2, <2>3, <2>4, <2>5
  <2> QED
    BY <2>3, <2>4, <2>5, <2>6, <2>7, Zenon DEF VsprintfLoop
<1>4. ASSUME NEW s \in FormatterStates, VsprintfLoop(its, s, <<>>)
      PROVE  VsprintfAt(s, its)
  <2>1. PICK done \in Seq(Conversions) : its = done \o <<>> /\ VsprintfAt(s, done)
    BY <1>4 DEF VsprintfLoop
  <2>2. done = its
    BY <2>1
  <2> QED BY <2>1, <2>2
<1>5. ASSUME NEW s \in FormatterStates, VsprintfLoop(its, s, <<>>)
      PROVE  /\ vsprintfEnd(s) \in FormatterStates
             /\ VsprintfDone(vsprintfEnd(s), Text(Plain, its))
  BY <1>4, <1>5, VsprintfEnds
<1>6. ASSUME NEW s \in FormatterStates, VsprintfLoop(its, s, <<>>), NEW size \in Nat \ {0}
      PROVE  /\ vsnprintfEnd(s, size) \in FormatterStates
             /\ SnprintfDone(vsnprintfEnd(s, size), Text(Plain, its), size)
  <2>1. VsprintfAt(s, its) /\ size \in Nat /\ size > 0
    BY <1>4, <1>6
  <2> QED BY <2>1, SnprintfEnds
<1> QED BY <1>2, <1>3, <1>5, <1>6

Kinds == {"none", "printk", "panic", "printf", "snprintf", "putchar"}

\* The argument of putchar.
Newline == <<Literal(LF)>>

\* The formatter of a call, in its loop and at its return.
ConsoleInv ==
  /\ kind \in Kinds /\ stage \in {"format", "loop", "send", "done", "halted"}
  /\ todo \in Seq(Seq(Conversions)) /\ items \in Seq(Conversions) /\ room \in Nat
  /\ kind = "none" => stage = "done"
  /\ kind # "none" => buf \in Cells
  /\ kind # "none" /\ stage # "format" => st \in FormatterStates
  /\ stage = "loop" =>
       /\ kind \in {"printk", "panic"} => PrintkLoop(items, st, pending)
       /\ kind \in {"printf", "snprintf"} => VsprintfLoop(items, st, pending)
       /\ kind = "snprintf" => room > 0
       /\ kind = "putchar" => \/ pending = Newline /\ st.at = 0
                              \/ pending = <<>> /\ st.at = 1
  /\ kind = "putchar" => todo = IF stage = "format" THEN <<Newline>> ELSE <<>>
  /\ Printed({"printk", "panic"}) => PrintkDone(st, Text(Convert, items))
  /\ Printed({"printf"}) => VsprintfDone(st, Text(Plain, items))
  /\ Printed({"snprintf"}) /\ room > 0 => SnprintfDone(st, Text(Plain, items), room)

\* The formats of panic.
LEMMA Literals ==
  /\ \A ch \in Nat : Literal(ch) \in Conversions
  /\ \A chars \in Seq(Nat) : Item("s", chars) \in Conversions
  /\ Newline \in Seq(Conversions) /\ Literal(LF).chars = <<LF>>
<1>1. \A ch \in Nat : Literal(ch) \in Conversions
  BY DEF Literal, Item, Conversions, NoSign
<1>2. \A chars \in Seq(Nat) : Item("s", chars) \in Conversions
  BY DEF Item, Conversions, NoSign
<1> QED BY <1>1, <1>2 DEF Newline, LF, Literal, Item

\* ConsoleInv holds before the first turn of a formatter.
LEMMA InitConsole == LibInit => ConsoleInv
<1> SUFFICES ASSUME LibInit PROVE ConsoleInv
  OBVIOUS
<1>1. ASSUME NEW f \in Kinds, NEW fs \in Seq(Seq(Conversions)), NEW size \in Nat,
             ConsoleInit(f, fs, size), f = "none" => fs = <<>>, f = "putchar" => fs = <<Newline>>
      PROVE  ConsoleInv
  <2>1. Buffers \subseteq Cells
    BY ConsoleConstants DEF Buffers, Cells, Top
  <2>2. /\ kind = f /\ todo = fs /\ items = <<>> /\ room = size
        /\ f # "none" => buf \in Cells
        /\ stage = IF f = "none" THEN "done" ELSE "format"
    BY <1>1, <2>1 DEF ConsoleInit
  <2>3. <<>> \in Seq(Conversions)
    OBVIOUS
  <2> QED
    BY <1>1, <2>2, <2>3 DEF ConsoleInv, Printed, Kinds
<1>2. ASSUME NEW f \in Formats PROVE <<f>> \in Seq(Seq(Conversions))
  <2>1. f \in Seq(Conversions)
    BY ConsoleConstants
  <2> QED BY <2>1
<1>3. PanicFormats(PanicText) \in Seq(Seq(Conversions))
  <2>1. LF \in Nat /\ 42 \in Nat /\ 83 \in Nat /\ PanicText \in Seq(Nat)
    BY LibraryConstants DEF LF
  <2>2. PICK a \in Conversions : a = Literal(LF)
    BY <2>1, Literals
  <2>3. PICK b \in Conversions : b = Literal(42)
    BY <2>1, Literals
  <2>4. PICK c \in Conversions : c = Literal(83)
    BY <2>1, Literals
  <2>5. PICK d \in Conversions : d = Item("s", PanicText)
    BY <2>1, Literals
  <2>6. /\ <<a>> \in Seq(Conversions) /\ <<b, a>> \in Seq(Conversions)
        /\ <<d, a>> \in Seq(Conversions) /\ <<c, a, a>> \in Seq(Conversions)
    OBVIOUS
  <2>7. PanicFormats(PanicText) = << <<a>>, <<b, a>>, <<d, a>>, <<b, a>>, <<c, a, a>> >>
    BY <2>2, <2>3, <2>4, <2>5, Zenon DEF PanicFormats
  <2> QED BY <2>6, <2>7
<1>4. <<Newline>> \in Seq(Seq(Conversions)) /\ <<>> \in Seq(Seq(Conversions))
  BY Literals
<1>5. Flagless \subseteq Formats /\ SnSizes \subseteq Nat
  BY ConsoleConstants DEF Flagless
<1>6. CASE ConsoleInit("none", <<>>, 0)
  BY <1>1, <1>4, <1>6, Zenon DEF Kinds
<1>7. CASE \E f \in Formats : ConsoleInit("printk", <<f>>, 0)
  BY <1>1, <1>2, <1>7, Zenon DEF Kinds
<1>8. CASE \E f \in Flagless : ConsoleInit("printf", <<f>>, 0)
  BY <1>1, <1>2, <1>5, <1>8, Zenon DEF Kinds
<1>9. CASE \E f \in Flagless, size \in SnSizes : ConsoleInit("snprintf", <<f>>, size)
  BY <1>1, <1>2, <1>5, <1>9, Zenon DEF Kinds
<1>10. CASE ConsoleInit("panic", PanicFormats(PanicText), 0)
  BY <1>1, <1>3, <1>10 DEF Kinds
<1>11. CASE ConsoleInit("putchar", <<<<Literal(LF)>>>>, 0)
  BY <1>1, <1>4, <1>11, Zenon DEF Kinds, Newline
<1> QED
  BY <1>6, <1>7, <1>8, <1>9, <1>10, <1>11 DEF LibInit

\* Entering a formatter keeps ConsoleInv: nothing is written yet.
LEMMA BeginConsole == ConsoleInv /\ Begin => ConsoleInv'
<1> SUFFICES ASSUME ConsoleInv, Begin PROVE ConsoleInv'
  OBVIOUS
<1>1. /\ kind \in Kinds \ {"none"} /\ buf \in Cells /\ room \in Nat
      /\ todo \in Seq(Seq(Conversions)) /\ todo # <<>> /\ stage = "format"
  BY DEF ConsoleInv, Begin
<1>2. items' = Head(todo) /\ todo' = Tail(todo) /\ st' = Start(buf)
  BY DEF Begin
<1>3. kind' = kind /\ room' = room /\ buf' = buf
  BY DEF Begin
<1>4. items' \in Seq(Conversions) /\ todo' \in Seq(Seq(Conversions))
  BY <1>1, <1>2
<1>5. stage' = IF kind = "snprintf" /\ room = 0 THEN "done" ELSE "loop"
  BY DEF Begin
<1>6. pending' = IF kind \in {"printk", "panic"} THEN Text(Convert, items') ELSE items'
  BY DEF Begin
<1>7. st' \in FormatterStates /\ st'.at = 0
  <2>1. Start(buf).at = 0
    BY DEF Start
  <2> QED BY <1>1, <1>2, <2>1, PrintkStart
<1>8. kind \in {"printk", "panic"} => PrintkLoop(items', st', pending')
  BY <1>1, <1>2, <1>4, <1>6, PrintkLoops
<1>9. kind \in {"printf", "snprintf"} => VsprintfLoop(items', st', pending')
  BY <1>1, <1>2, <1>4, <1>6, VsprintfLoops
<1>10. kind = "putchar" => pending' = Newline /\ todo' = <<>>
  <2> HAVE kind = "putchar"
  <2>1. todo = <<Newline>>
    BY <1>1 DEF ConsoleInv
  <2> QED BY <1>2, <1>6, <2>1
<1>11. stage' = "loop" => (kind = "snprintf" => room > 0)
  BY <1>1, <1>5
<1>12. stage' = "done" => kind = "snprintf" /\ ~ (room > 0)
  BY <1>1, <1>5
<1>13. stage' \in {"loop", "done"}
  BY <1>5
<1> QED
  BY <1>1, <1>3, <1>4, <1>7, <1>8, <1>9, <1>10, <1>11, <1>12, <1>13 DEF ConsoleInv, Printed

\* One turn of the loop of a formatter keeps ConsoleInv.
LEMMA TurnConsole == ConsoleInv /\ Turn => ConsoleInv'
<1> SUFFICES ASSUME ConsoleInv, Turn PROVE ConsoleInv'
  OBVIOUS
<1>1. /\ kind \in Kinds \ {"none"} /\ buf \in Cells /\ room \in Nat /\ items \in Seq(Conversions)
      /\ todo \in Seq(Seq(Conversions)) /\ stage = "loop" /\ st \in FormatterStates
      /\ pending # <<>> /\ pending' = Tail(pending)
  BY DEF ConsoleInv, Turn
<1>2. /\ kind' = kind /\ room' = room /\ buf' = buf /\ todo' = todo /\ items' = items
      /\ stage' = stage
  BY DEF Turn
<1>3. /\ kind \in {"printk", "panic"} => st' = vsprintf_implTurn(st, PrintkSize, Head(pending))
      /\ kind \in {"printf", "snprintf"} => st' = vsprintfTurn(st, Head(pending))
      /\ kind = "putchar" => st' = Emit(st, Head(pending).chars)
  BY Zenon DEF Turn
<1>4. /\ kind \in {"printk", "panic"} => PrintkLoop(items, st, pending)
      /\ kind \in {"printf", "snprintf"} => VsprintfLoop(items, st, pending)
      /\ kind = "snprintf" => room > 0
      /\ kind = "putchar" => pending = Newline /\ st.at = 0 /\ todo = <<>>
  BY <1>1 DEF ConsoleInv
<1>5. kind \in {"printk", "panic"} => st' \in FormatterStates /\ PrintkLoop(items, st', pending')
  BY <1>1, <1>3, <1>4, PrintkLoops
<1>6. kind \in {"printf", "snprintf"} =>
        st' \in FormatterStates /\ VsprintfLoop(items, st', pending')
  BY <1>1, <1>3, <1>4, VsprintfLoops
<1>7. kind = "putchar" => st' \in FormatterStates /\ pending' = <<>> /\ st'.at = 1
  <2> HAVE kind = "putchar"
  <2>1. Head(pending) = Literal(LF) /\ pending' = <<>>
    <3>1. ASSUME NEW e PROVE Head(<<e>>) = e /\ Tail(<<e>>) = <<>>
      OBVIOUS
    <3>2. pending = <<Literal(LF)>> /\ pending' = Tail(pending)
      BY <1>1, <1>4 DEF Newline
    <3> QED BY <3>1, <3>2, Zenon
  <2>2. PICK w \in Seq(Nat) : w = <<LF>> /\ Len(w) = 1
    <3>1. <<10>> \in Seq(Nat) /\ Len(<<10>>) = 1
      OBVIOUS
    <3> QED BY <3>1, Zenon DEF LF
  <2>3. st' = Emit(st, w)
    BY <1>3, <2>1, <2>2, Literals
  <2>4. Emit(st, w) \in FormatterStates /\ Emit(st, w).at = st.at + Len(w)
    BY <1>1, EmitFields
  <2> QED BY <1>4, <2>1, <2>2, <2>3, <2>4
<1>8. st' \in FormatterStates
  BY <1>1, <1>5, <1>6, <1>7 DEF Kinds
<1> QED
  BY <1>1, <1>2, <1>4, <1>5, <1>6, <1>7, <1>8 DEF ConsoleInv, Printed

\* The return of a formatter keeps ConsoleInv: the buffer is what the call promises.
LEMMA FinishConsole == ConsoleInv /\ Finish => ConsoleInv'
<1> SUFFICES ASSUME ConsoleInv, Finish PROVE ConsoleInv'
  OBVIOUS
<1>1. /\ kind \in Kinds \ {"none"} /\ buf \in Cells /\ room \in Nat /\ items \in Seq(Conversions)
      /\ todo \in Seq(Seq(Conversions)) /\ stage = "loop" /\ st \in FormatterStates
      /\ pending = <<>> /\ stage' = "send"
  BY DEF ConsoleInv, Finish
<1>2. kind' = kind /\ room' = room /\ buf' = buf /\ todo' = todo /\ items' = items
  BY DEF Finish
<1>3. /\ kind \in {"printk", "panic"} => st' = vsprintf_implEnd(st, PrintkSize)
      /\ kind = "printf" => st' = vsprintfEnd(st)
      /\ kind = "snprintf" => st' = vsnprintfEnd(st, room)
      /\ kind = "putchar" => st' = st
  BY Zenon DEF Finish
<1>4. /\ kind \in {"printk", "panic"} => PrintkLoop(items, st, <<>>)
      /\ kind \in {"printf", "snprintf"} => VsprintfLoop(items, st, <<>>)
      /\ kind = "snprintf" => room \in Nat \ {0}
      /\ kind = "putchar" => todo = <<>>
  BY <1>1 DEF ConsoleInv
<1>5. kind \in {"printk", "panic"} =>
        st' \in FormatterStates /\ PrintkDone(st', Text(Convert, items))
  BY <1>1, <1>3, <1>4, PrintkLoops
<1>6. kind = "printf" => st' \in FormatterStates /\ VsprintfDone(st', Text(Plain, items))
  BY <1>1, <1>3, <1>4, VsprintfLoops
<1>7. kind = "snprintf" => st' \in FormatterStates /\ SnprintfDone(st', Text(Plain, items), room)
  BY <1>1, <1>3, <1>4, VsprintfLoops
<1>8. st' \in FormatterStates
  BY <1>1, <1>3, <1>5, <1>6, <1>7 DEF Kinds
<1> QED
  BY <1>1, <1>2, <1>4, <1>5, <1>6, <1>7, <1>8 DEF ConsoleInv, Printed

\* The end of the output of a call keeps ConsoleInv.
LEMMA SentConsole == ConsoleInv /\ Sent => ConsoleInv'
<1> SUFFICES ASSUME ConsoleInv, Sent PROVE ConsoleInv'
  OBVIOUS
<1>1. /\ kind' = kind /\ room' = room /\ buf' = buf /\ todo' = todo /\ items' = items
      /\ st' = st /\ pending' = pending /\ stage = "send"
  BY DEF Sent
<1>2. stage' = IF todo # <<>> THEN "format" ELSE IF kind = "panic" THEN "halted" ELSE "done"
  BY DEF Sent
<1>3. kind = "putchar" => todo = <<>> /\ stage' # "format"
  BY <1>1, <1>2 DEF ConsoleInv
<1>4. stage' \in {"format", "halted", "done"}
  BY <1>2
<1> QED BY <1>1, <1>3, <1>4 DEF ConsoleInv, Printed

\* Every step of the library keeps ConsoleInv.
LEMMA NextConsole == ConsoleInv /\ [LibNext]_libVars => ConsoleInv'
<1> SUFFICES ASSUME ConsoleInv, [LibNext]_libVars PROVE ConsoleInv'
  OBVIOUS
<1>1. CASE UNCHANGED consoleVars
  BY <1>1 DEF consoleVars, ConsoleInv, Printed
<1>2. CASE ConsoleStep
  BY <1>1, <1>2, BeginConsole, TurnConsole, FinishConsole, SentConsole DEF ConsoleStep, ConsoleNext
<1>3. CASE StringStep \/ InputStep \/ SyscallStep \/ SyscallOutput
  BY <1>1, <1>3 DEF StringStep, InputStep, SyscallStep, SyscallOutput
<1> QED
  BY <1>1, <1>2, <1>3 DEF LibNext, libVars

\* A call of the console at work is described by ConsoleInv.
THEOREM ConsoleInvariance == LibSpec => []ConsoleInv
  BY InitConsole, NextConsole, PTL DEF LibSpec

\* printk and panic put the text of their format into the buffer, for every format
\* of the conversions, every size of the buffer and every state of the stack.
THEOREM PrintkAlwaysExact == LibSpec => []PrintkExact
<1>1. ConsoleInv => PrintkExact
  <2> SUFFICES ASSUME ConsoleInv, Printed({"printk", "panic"}) PROVE PrintkExact
    BY Zenon DEF PrintkExact
  <2> DEFINE t == Text(Meant, items)
  <2>1. items \in Seq(Conversions) /\ PrintkDone(st, Text(Convert, items))
    BY DEF ConsoleInv
  <2>2. /\ Text(Convert, items) \in Seq(Operations)
        /\ (\A x \in DOMAIN items : items[x].conv # "c") => Text(Convert, items) \in Seq(Calm)
        /\ t = Shown(Text(Convert, items))
    BY <2>1, TextMeant, Zenon
  <2>3. t \in Seq(Int)
    BY <2>2, ShownConcat
  <2> HIDE DEF t
  <2>4. /\ Text(Convert, items) \in Seq(Calm) =>
             /\ \A x \in 1 .. Edge(Len(t)) : t[x] # Unset => st.cell[x - 1] = t[x]
             /\ \A a \in st.stored : a >= PrintkSize - 1 => st.cell[a] = NUL
        /\ Len(t) < PrintkSize - 1 =>
             /\ st.stored \subseteq 0 .. PrintkSize - 1
             /\ st.cell[Len(t)] = NUL /\ st.written = Len(t)
    BY <2>1, <2>2, Zenon DEF PrintkDone
  <2>5. Min({Len(t), PrintkSize - 1}) = Edge(Len(t))
    BY <2>3, MinTwo, Sizes0 DEF Edge
  <2> QED
    BY <2>2, <2>4, <2>5, Zenon DEF PrintkExact, t
<1> QED
  BY ConsoleInvariance, <1>1, PTL

\* printf never stores past its buffer and is exact where the text fits, every
\* number it prints reads back as its value, and snprintf ends with a terminated
\* beginning of the text below size: for every format, size and limit.
THEOREM VsprintfAlwaysExact == LibSpec => []VsprintfExact
<1>1. ConsoleInv => VsprintfExact
  <2> SUFFICES ASSUME ConsoleInv PROVE VsprintfExact
    OBVIOUS
  <2> DEFINE t == Text(Plain, items)
  <2>1. items \in Seq(Conversions) /\ room \in Nat
    BY DEF ConsoleInv
  <2>2. t \in Seq(Nat)
    <3>1. Literal(Zero) \in Conversions
      BY Literals, Zenon DEF Zero
    <3> QED BY <2>1, <3>1, PlainAppend, Zenon
  <2>3. Printed({"printf"}) => VsprintfDone(st, t)
    BY DEF ConsoleInv
  <2>4. Printed({"snprintf"}) /\ room > 0 => SnprintfDone(st, t, room)
    BY DEF ConsoleInv
  <2>5. ASSUME NEW x \in DOMAIN items
        PROVE  ValueOf(Digits(items[x].value, items[x].base), items[x].base) = items[x].value
    <3>1. items[x] \in Conversions
      BY <2>1
    <3>2. items[x].base \in Bases /\ items[x].value \in Nat
      BY <3>1, ItemFields
    <3> QED BY <3>2, DigitsBack
  <2>6. Min({Len(t), room - 1}) = IF Len(t) <= room - 1 THEN Len(t) ELSE room - 1
    <3>1. Len(t) \in Int /\ room - 1 \in Int
      BY <2>1, <2>2
    <3> QED BY <3>1, MinTwo
  <2> HIDE DEF t
  <2>7. Printed({"printf"}) =>
          /\ st.stored \subseteq 0 .. Limit /\ st.cell[st.at] = NUL
          /\ Len(t) <= Limit => st.at = Len(t) /\ \A x \in 1 .. Len(t) : st.cell[x - 1] = t[x]
    BY <2>3, Zenon DEF VsprintfDone
  <2>8. Printed({"snprintf"}) /\ room > 0 =>
          /\ st.at < room /\ st.cell[st.at] = NUL
          /\ Len(t) <= Limit =>
               /\ st.at = Min({Len(t), room - 1})
               /\ \A x \in 1 .. st.at : st.cell[x - 1] = t[x]
    BY <2>4, <2>6, Zenon DEF SnprintfDone
  <2> QED
    BY <2>5, <2>7, <2>8, Zenon DEF VsprintfExact, t
<1> QED
  BY ConsoleInvariance, <1>1, PTL

----------------------------------------------------------------------------
(* Output on the serial line.                                              *)

\* The console passes characters on only when its formatter has returned.
Quiet == job = "console" /\ stage # "send" => text["main"] = <<>>

\* What passes from a formatter to the serial line.
LEMMA FinishText ==
  ASSUME ConsoleInv, Finish
  PROVE  /\ \E t \in Seq(Nat) : text' = [text EXCEPT !["main"] = t]
         /\ kind = "printk" => text' = [text EXCEPT !["main"] = Puts(st'.cell)]
         /\ st'.cell \in Cells
<1> DEFINE shown == [x \in 1 .. st'.at |-> st'.cell[x - 1]]
<1>1. /\ kind \in Kinds \ {"none"} /\ stage = "loop" /\ pending = <<>>
      /\ kind' = kind /\ stage' = "send" /\ items' = items
  BY DEF ConsoleInv, Finish
<1>2. ConsoleInv'
  BY FinishConsole
<1>3. st' \in FormatterStates
  BY <1>1, <1>2 DEF ConsoleInv
<1>4. st'.cell \in Cells /\ st'.at \in Nat
  BY <1>3 DEF FormatterStates
<1>5. /\ kind \in {"printk", "panic"} => text' = [text EXCEPT !["main"] = Puts(st'.cell)]
      /\ kind \in {"printf", "putchar"} => text' = [text EXCEPT !["main"] = shown]
      /\ kind = "snprintf" => text' = [text EXCEPT !["main"] = <<>>]
  BY Zenon DEF Finish
<1>6. Puts(st'.cell) \in Seq(Nat) /\ <<>> \in Seq(Nat)
  BY <1>4, PutsText, EmptyIsSeq, Zenon
<1>7. kind \in {"printf", "putchar"} => shown \in Seq(Nat)
  <2> SUFFICES ASSUME kind \in {"printf", "putchar"} PROVE shown \in Seq(Nat)
    OBVIOUS
  <2>1. st'.at <= Top
    <3>1. CASE kind = "printf"
      <4>1. VsprintfDone(st', Text(Plain, items))
        BY <1>1, <1>2, <3>1 DEF ConsoleInv, Printed
      <4> QED BY <1>4, <4>1, Sizes0 DEF VsprintfDone
    <3>2. CASE kind = "putchar"
      <4>1. Newline # <<>>
        BY DEF Newline
      <4>2. st.at = 1
        BY <1>1, <3>2, <4>1 DEF ConsoleInv
      <4>3. st' = st
        BY <3>2, Zenon DEF Finish
      <4> QED BY <4>2, <4>3, Sizes0
    <3> QED BY <3>1, <3>2
  <2>2. PICK cells \in Cells, i \in Nat : cells = st'.cell /\ i = st'.at
    BY <1>4, Zenon
  <2>3. \A x \in 1 .. i : cells[x - 1] \in Nat
    BY <2>1, <2>2, Sizes0 DEF Cells
  <2>4. shown = [x \in 1 .. i |-> cells[x - 1]]
    BY <2>2
  <2> HIDE DEF shown
  <2> QED BY <2>2, <2>3, <2>4
<1> HIDE DEF shown
<1>8. /\ kind \in {"printk", "panic"} \/ kind \in {"printf", "putchar"} \/ kind = "snprintf"
  BY <1>1 DEF Kinds
<1> QED BY <1>4, <1>5, <1>6, <1>7, <1>8, Zenon

\* A step of the library is, for the serial line, an access to the device, a new
\* text of the kernel, or none.
LEMMA SerialSteps ==
  ASSUME ConsoleInv, Quiet, [LibNext]_libVars
  PROVE  Transmit \/ NewText \/ UNCHANGED <<SerialRest, text>>
<1>1. CASE UNCHANGED libVars
  BY <1>1 DEF libVars, uartVars, txVars, SerialRest
<1>2. CASE StringStep
  BY <1>2 DEF StringStep, uartVars, txVars, SerialRest
<1>3. CASE ConsoleStep
  <2>1. Begin \/ Turn \/ Finish \/ Sent \/ Transmit
    BY <1>3 DEF ConsoleStep, ConsoleNext
  <2>2. CASE Begin \/ Turn \/ Sent
    BY <2>2 DEF Begin, Turn, Sent, uartVars, txVars, SerialRest
  <2>3. CASE Finish
    <3>1. text["main"] = <<>>
      BY <1>3, <2>3 DEF Quiet, ConsoleStep, Finish
    <3>2. UNCHANGED SerialRest
      BY <2>3 DEF Finish, SerialRest
    <3>3. \E t \in Seq(Nat) : text' = [text EXCEPT !["main"] = t]
      BY <2>3, FinishText, Zenon
    <3> QED BY <3>1, <3>2, <3>3, Zenon DEF NewText
  <2> QED BY <2>1, <2>2, <2>3
<1>4. CASE InputStep
  BY <1>4 DEF InputStep, Receive, SerialRest
<1>5. CASE SyscallStep
  <2>1. text["main"] = <<>> /\ UNCHANGED SerialRest
    BY <1>5 DEF SyscallStep, SerialRest
  <2>2. CASE UNCHANGED text
    BY <2>1, <2>2
  <2>3. ASSUME NEW fd \in 0 .. 2, NEW count \in Sizes, fd \in {1, 2} => count <= Len(UserText),
               text' = [text EXCEPT !["main"] =
                          IF fd \in {1, 2} THEN SubSeq(UserText, 1, count) ELSE <<>>]
        PROVE  \E t \in Seq(Nat) : text' = [text EXCEPT !["main"] = t]
    <3>1. count \in Nat
      BY SyscallConstants
    <3>2. ASSUME fd \in {1, 2} PROVE SubSeq(UserText, 1, count) \in Seq(Nat)
      BY <2>3, <3>1, <3>2, LibraryConstants
    <3> QED BY <2>3, <3>2, EmptyIsSeq, Zenon
  <2>4. UNCHANGED text \/ \E t \in Seq(Nat) : text' = [text EXCEPT !["main"] = t]
    BY <1>5, <2>3, Zenon DEF SyscallStep
  <2> QED BY <2>1, <2>2, <2>4, Zenon DEF NewText
<1>6. CASE SyscallOutput
  BY <1>6 DEF SyscallOutput
<1> QED BY <1>1, <1>2, <1>3, <1>4, <1>5, <1>6 DEF LibNext

\* What printk has passed on and has still to pass on is what its formatter left in
\* the buffer, up to the terminator.
PrintkSends ==
  /\ kind # "none" => job = "console"
  /\ kind = "printk" =>
       /\ stage \in {"format", "loop"} => asked["main"] = <<>>
       /\ todo = <<>> \/ (stage = "format" /\ Tail(todo) = <<>>)
       /\ stage \in {"send", "done"} => asked["main"] \o text["main"] = Puts(st.cell)

OutputInv == SerialInv /\ Quiet /\ PrintkSends

\* OutputInv holds at boot: nothing was asked for and nothing sent.
LEMMA InitOutput == LibInit => OutputInv
<1> SUFFICES ASSUME LibInit PROVE OutputInv
  OBVIOUS
<1>1. text["main"] = <<>> /\ asked["main"] = <<>>
  BY DEF LibInit, UartInit, Contexts
<1>2. SerialInv /\ Quiet
  BY <1>1, InitSerial DEF LibInit, Quiet
<1>3. \/ kind = "none" /\ stage = "done"
      \/ job = "console" /\ kind \in {"printf", "snprintf", "panic", "putchar"}
      \/ job = "console" /\ kind = "printk" /\ stage = "format" /\ \E f : todo = <<f>>
  <2>1. ASSUME NEW formats, NEW size, NEW fn0 \in {"printf", "snprintf", "panic", "putchar"},
               ConsoleInit(fn0, formats, size)
        PROVE  kind \in {"printf", "snprintf", "panic", "putchar"}
    BY <2>1 DEF ConsoleInit
  <2>2. ASSUME NEW f, ConsoleInit("printk", <<f>>, 0)
        PROVE  kind = "printk" /\ stage = "format" /\ todo = <<f>>
    BY <2>2 DEF ConsoleInit
  <2>3. ConsoleInit("none", <<>>, 0) => kind = "none" /\ stage = "done"
    BY DEF ConsoleInit
  <2>4. /\ "printf" \in {"printf", "snprintf", "panic", "putchar"}
        /\ "snprintf" \in {"printf", "snprintf", "panic", "putchar"}
        /\ "panic" \in {"printf", "snprintf", "panic", "putchar"}
        /\ "putchar" \in {"printf", "snprintf", "panic", "putchar"}
    OBVIOUS
  <2> QED BY <2>1, <2>2, <2>3, <2>4, Zenon DEF LibInit
<1>4. ASSUME NEW f PROVE Tail(<<f>>) = <<>>
  OBVIOUS
<1>5. PrintkSends
  <2>1. CASE kind = "none" \/ (job = "console" /\ kind # "printk")
    BY <2>1, Zenon DEF PrintkSends
  <2>2. CASE job = "console" /\ kind = "printk" /\ stage = "format" /\ \E f : todo = <<f>>
    <3>1. Tail(todo) = <<>>
      BY <1>4, <2>2, Zenon
    <3> QED BY <1>1, <2>2, <3>1 DEF PrintkSends
  <2> QED BY <1>3, <2>1, <2>2
<1> QED BY <1>2, <1>5 DEF OutputInv

\* The kernel holds no text for the line while a formatter runs.
LEMMA NextQuiet ==
  ASSUME ConsoleInv, SerialTypes, Quiet, [LibNext]_libVars
  PROVE  Quiet'
<1> SUFFICES ASSUME job' = "console", stage' # "send" PROVE text'["main"] = <<>>
  BY DEF Quiet
<1>1. CASE UNCHANGED libVars
  BY <1>1 DEF libVars, uartVars, txVars, consoleVars, Quiet
<1>2. CASE ConsoleStep
  <2>1. \/ Begin \/ Turn \/ Finish \/ Sent \/ (Transmit /\ UNCHANGED consoleVars)
    BY <1>2 DEF ConsoleStep, ConsoleNext
  <2>2. CASE Begin \/ Turn
    BY <1>2, <2>2 DEF Begin, Turn, ConsoleStep, uartVars, txVars, Quiet
  <2>3. CASE Finish
    BY <2>3 DEF Finish
  <2>4. CASE Sent
    BY <2>4 DEF Sent, uartVars, txVars
  <2>5. CASE Transmit /\ UNCHANGED consoleVars
    <3>1. text["main"] = <<>>
      BY <1>2, <2>5 DEF consoleVars, ConsoleStep, Quiet
    <3> QED BY <2>5, <3>1, MainMoves
  <2> QED BY <2>1, <2>2, <2>3, <2>4, <2>5
<1>3. CASE StringStep
  BY <1>3 DEF StringStep, uartVars, txVars, consoleVars, Quiet
<1>4. CASE InputStep \/ SyscallStep \/ SyscallOutput
  BY <1>4 DEF InputStep, SyscallStep, SyscallOutput
<1> QED BY <1>1, <1>2, <1>3, <1>4 DEF LibNext

\* Every step keeps what printk has passed on equal to its buffer.
LEMMA NextSends ==
  ASSUME ConsoleInv, OutputInv, [LibNext]_libVars
  PROVE  PrintkSends'
<1>1. SerialTypes /\ Quiet /\ PrintkSends
  BY DEF OutputInv, SerialInv
<1>2. asked["main"] \in Seq(Nat) /\ text["main"] \in Seq(Nat) /\ text \in [Contexts -> Seq(Nat)]
  BY <1>1 DEF SerialTypes, Contexts
<1>3. CASE kind' = kind /\ todo' = todo /\ stage' = stage /\ st' = st /\ job' = job
           /\ asked' = asked /\ text' = text
  BY <1>1, <1>3, Zenon DEF PrintkSends
<1>4. CASE UNCHANGED libVars \/ StringStep \/ InputStep
  BY <1>3, <1>4, Zenon DEF libVars, StringStep, InputStep, Receive, uartVars, txVars, consoleVars
<1>5. CASE SyscallStep \/ SyscallOutput
  <2>1. job = "syscalls" /\ kind' = kind
    BY <1>5 DEF SyscallStep, SyscallOutput, consoleVars
  <2>2. kind = "none"
    BY <1>1, <2>1, Zenon DEF PrintkSends
  <2> QED BY <2>1, <2>2 DEF PrintkSends
<1>6. CASE ConsoleStep
  <2>1. job = "console" /\ job' = job
    BY <1>6 DEF ConsoleStep
  <2>2. \/ Begin \/ Turn \/ Finish \/ Sent \/ (Transmit /\ UNCHANGED consoleVars)
    BY <1>6 DEF ConsoleStep, ConsoleNext
  <2>3. kind' = kind
    BY <2>2 DEF Begin, Turn, Finish, Sent, consoleVars
  <2> SUFFICES ASSUME kind = "printk" PROVE PrintkSends'
    BY <2>1, <2>3, Zenon DEF PrintkSends
  <2>4. CASE Begin
    <3>1. /\ stage = "format" /\ todo # <<>> /\ todo' = Tail(todo) /\ stage' = "loop"
          /\ asked' = asked
      BY <2>4 DEF Begin, uartVars, txVars
    <3> QED BY <1>1, <2>1, <2>3, <3>1 DEF PrintkSends
  <2>5. CASE Turn
    <3>1. stage = "loop" /\ stage' = "loop" /\ todo' = todo /\ asked' = asked
      BY <2>5 DEF Turn, uartVars, txVars
    <3> QED BY <1>1, <2>1, <2>3, <3>1 DEF PrintkSends
  <2>6. CASE Finish
    <3>1. stage = "loop" /\ stage' = "send" /\ todo' = todo /\ asked' = asked
      BY <2>6 DEF Finish
    <3>2. text' = [text EXCEPT !["main"] = Puts(st'.cell)] /\ st'.cell \in Cells
      BY <2>6, FinishText
    <3>3. text'["main"] = Puts(st'.cell)
      BY <1>2, <3>2 DEF Contexts
    <3>4. Puts(st'.cell) \in Seq(Nat)
      BY <3>2, PutsText, Zenon
    <3>5. ASSUME NEW u \in Seq(Nat) PROVE <<>> \o u = u
      OBVIOUS
    <3>6. asked'["main"] \o text'["main"] = Puts(st'.cell)
      <4>1. asked'["main"] = <<>>
        BY <1>1, <3>1 DEF PrintkSends
      <4> QED BY <3>3, <3>4, <3>5, <4>1, Zenon
    <3> QED BY <1>1, <2>1, <2>3, <3>1, <3>6 DEF PrintkSends
  <2>7. CASE Sent
    <3>1. /\ stage = "send" /\ todo' = todo /\ asked' = asked /\ text' = text /\ st' = st
      BY <2>7 DEF Sent, uartVars, txVars
    <3>2. todo = <<>>
      BY <1>1, <3>1 DEF PrintkSends
    <3>3. stage' = "done"
      BY <2>7, <3>2 DEF Sent
    <3> QED BY <1>1, <2>1, <2>3, <3>1, <3>2, <3>3, Zenon DEF PrintkSends
  <2>8. CASE Transmit /\ UNCHANGED consoleVars
    <3>1. todo' = todo /\ stage' = stage /\ st' = st
      BY <2>8 DEF consoleVars
    <3>2. /\ asked'["main"] \o text'["main"] = asked["main"] \o text["main"]
          /\ text["main"] = <<>> => asked'["main"] = asked["main"]
      BY <1>1, <2>8, MainMoves, Zenon
    <3>3. stage \in {"format", "loop"} => text["main"] = <<>>
      BY <1>1, <2>1 DEF Quiet
    <3> QED BY <1>1, <2>1, <2>3, <3>1, <3>2, <3>3, Zenon DEF PrintkSends
  <2> QED BY <2>2, <2>4, <2>5, <2>6, <2>7, <2>8
<1> QED BY <1>4, <1>5, <1>6 DEF LibNext

\* Every step of the library keeps OutputInv.
LEMMA NextOutput == ConsoleInv /\ OutputInv /\ [LibNext]_libVars => OutputInv'
<1> SUFFICES ASSUME ConsoleInv, OutputInv, [LibNext]_libVars PROVE OutputInv'
  OBVIOUS
<1>1. SerialInv /\ SerialTypes /\ Quiet
  BY DEF OutputInv, SerialInv
<1>2. Transmit \/ NewText \/ UNCHANGED <<SerialRest, text>>
  BY <1>1, SerialSteps, Zenon
<1>3. SerialInv'
  BY <1>1, <1>2, TransmitSerial, NewTextSerial, IdleSerial, Zenon
<1>4. Quiet'
  BY <1>1, NextQuiet, Zenon
<1>5. PrintkSends'
  BY NextSends, Zenon
<1> QED BY <1>3, <1>4, <1>5, Zenon DEF OutputInv

\* The serial line and what printk passes on to it are described by OutputInv.
THEOREM OutputInvariance == LibSpec => []OutputInv
  BY ConsoleInvariance, InitOutput, NextOutput, PTL DEF LibSpec

\* Between two calls of uart_putc, x86_64 has brought every character onto the line, in
\* order, each newline after a carriage return, whatever interrupts print in between
\* and however deep the FIFO is, from four on.  On arm64 only the newline after a '\r'
\* can be lost as long as no interrupt prints, and the handler is never worse off.
THEOREM OnlyNewlinesAreLost == LibSpec => []OnlyNewlinesLost
<1>1. OutputInv => OnlyNewlinesLost
  <2> SUFFICES ASSUME OutputInv, NEW c \in Contexts
               PROVE  /\ arch = "x86_64" =>
                           /\ lost = <<>>
                           /\ point[c] # "data" => Of(c, wire \o fifo) = Expand(asked[c])
                      /\ arch = "arm64" /\ (c = "irq" \/ irqs = 0) =>
                           /\ \A x \in DOMAIN lost : lost[x][1] = c => lost[x][2] = LF
                           /\ point[c] # "data" =>
                                Rest(Of(c, wire \o fifo)) = Rest(Expand(asked[c]))
    BY Zenon DEF OnlyNewlinesLost
  <2>1. SerialTypes /\ X86Inv /\ ArmInv
    BY DEF OutputInv, SerialInv
  <2>2. Expand(asked[c]) \in Seq(Nat)
    BY <2>1, SerialSequences, Zenon
  <2>3. ASSUME NEW u \in Seq(Nat) PROVE u \o <<>> = u
    OBVIOUS
  <2>4. point[c] # "data" => Due(c) = Expand(asked[c])
    BY <2>2, <2>3, Zenon DEF Due, Half
  <2>5. arch = "x86_64" =>
          lost = <<>> /\ (point[c] # "data" => Of(c, wire \o fifo) = Expand(asked[c]))
    BY <2>1, <2>4, Zenon DEF X86Inv, Out
  <2>6. arch = "arm64" /\ (c = "irq" \/ irqs = 0) =>
          /\ \A x \in DOMAIN lost : lost[x][1] = c => lost[x][2] = LF
          /\ point[c] # "data" => Rest(Of(c, wire \o fifo)) = Rest(Expand(asked[c]))
    BY <2>1, <2>4, Zenon DEF ArmInv, Out
  <2> QED BY <2>5, <2>6, Zenon
<1> QED
  BY OutputInvariance, <1>1, PTL

\* From the format to the line: on x86_64 a message of printk without numbers that
\* fits in its buffer has left the driver as it was meant, whatever the stack held and
\* whatever interrupts printed meanwhile.
THEOREM AlwaysSentVerbatim == LibSpec => []SentVerbatim
<1>1. ConsoleInv /\ OutputInv => SentVerbatim
  <2> DEFINE t == Text(Meant, items)
  <2> SUFFICES ASSUME ConsoleInv, OutputInv, arch = "x86_64", stage = "done", kind = "printk",
                      Len(t) < PrintkSize - 1,
                      \A x \in DOMAIN t : t[x] # Unset /\ t[x] # NUL
               PROVE  Of("main", wire \o fifo) = Expand(t)
    BY Zenon DEF SentVerbatim
  <2>1. /\ items \in Seq(Conversions) /\ st \in FormatterStates
        /\ PrintkDone(st, Text(Convert, items))
    BY DEF ConsoleInv, Printed
  <2>2. Text(Convert, items) \in Seq(Operations) /\ t = Shown(Text(Convert, items))
    BY <2>1, TextMeant, Zenon
  <2>3. t \in Seq(Int)
    BY <2>2, ShownConcat
  <2> HIDE DEF t
  <2>4. /\ st.cell[Len(t)] = NUL
        /\ \A x \in 1 .. Len(t) : t[x] # Unset => st.cell[x - 1] = t[x]
    BY <2>2, <2>1, Zenon DEF PrintkDone
  <2>5. PICK cells \in Cells : cells = st.cell
    BY <2>1, Zenon DEF FormatterStates
  <2>6. \A x \in 1 .. Len(t) : cells[x - 1] = t[x] /\ t[x] # NUL
    BY <2>3, <2>4, <2>5
  <2>7. Len(t) <= Top
    BY <2>3, Sizes0
  <2>8. Puts(st.cell) = t
    BY <2>3, <2>4, <2>5, <2>6, <2>7, PutsText, Zenon
  <2>9. /\ SerialTypes /\ X86Inv /\ job = "console" /\ text["main"] = <<>>
        /\ asked["main"] \o text["main"] = Puts(st.cell)
    BY Zenon DEF OutputInv, SerialInv, Quiet, PrintkSends
  <2>10. "main" \in Contexts /\ asked["main"] \in Seq(Nat)
    BY <2>9 DEF SerialTypes, Contexts
  <2>11. ASSUME NEW u \in Seq(Nat) PROVE u \o <<>> = u
    OBVIOUS
  <2>12. asked["main"] = t
    BY <2>8, <2>9, <2>10, <2>11, Zenon
  <2>13. Out("main") = Due("main") /\ point["main"] = "wait"
    BY <2>9, <2>10 DEF X86Inv, SerialTypes
  <2>14. Half("main") = <<>>
    BY <2>13 DEF Half
  <2>15. Expand(asked["main"]) \in Seq(Nat)
    BY <2>9, <2>10, SerialSequences, Zenon
  <2>16. Due("main") = Expand(asked["main"])
    BY <2>11, <2>14, <2>15, Zenon DEF Due
  <2> QED BY <2>12, <2>13, <2>16, Zenon DEF Out
<1> QED
  BY ConsoleInvariance, OutputInvariance, <1>1, PTL
==============================================================================
