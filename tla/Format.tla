------------------------------- MODULE Format -------------------------------
(***************************************************************************)
(* The two formatters: vsprintf_impl of printk.c, with format_number, and   *)
(* vsprintf and vsnprintf of string.c.  A format is a sequence of items:    *)
(* a literal character or a conversion with its parsed flags and its        *)
(* argument, a number as the magnitude and the sign va_arg and the length   *)
(* modifier left of it.  A buffer is an array of character codes from its   *)
(* first byte on, longer than its size by what the code may store past the  *)
(* end.                                                                     *)
(***************************************************************************)
EXTENDS Texts

CONSTANT
  Limit     \* the most characters vsprintf stores: 1023

ASSUME FormatConstants == Limit \in Nat \ {0}

NUL     == 0
Space   == 32
Percent == 37
Zero    == 48
Minus   == 45
NoSign  == 0

Item(conv, chars) ==
  [conv |-> conv, chars |-> chars, width |-> 0, prec |-> -1, left |-> FALSE,
   sign |-> NoSign, hash |-> FALSE, value |-> 0, base |-> 10]
Literal(ch)           == Item("literal", <<ch>>)
Padded(it, w, left)   == [it EXCEPT !.width = w, !.left = left]
Cut(it, precision)    == [it EXCEPT !.prec = precision]
Number(v, base, sign) == [Item("number", <<>>) EXCEPT !.value = v, !.base = base, !.sign = sign]

\* The items of the kernel's formats: widths and precisions with strings and
\* numbers only.
Conversions ==
  {it \in [conv : {"literal", "%", "other", "c", "s", "number", "p"}, chars : Seq(Nat),
           width : Nat, prec : Nat \cup {-1}, left : BOOLEAN, sign : {NoSign, Space, 43, Minus},
           hash : BOOLEAN, value : Nat, base : {10, 16}] :
     it.conv \in {"s", "number", "p"} \/ (Len(it.chars) = 1 /\ it.width = 0 /\ it.prec = -1)}

Repeat(x, times) == IF times > 0 THEN [y \in 1 .. times |-> x] ELSE <<>>

DigitChar(d) == IF d < 10 THEN Zero + d ELSE 87 + d

\* The characters of a positive number, generated from the last to the first.
LowFirst(v, base) ==
  LET low[x \in 0 .. v] ==
        IF x = 0 THEN <<>> ELSE <<DigitChar(x % base)>> \o low[x \div base]
  IN  low[v]

Digits(v, base) == IF v = 0 THEN <<Zero>> ELSE Reversed(LowFirst(v, base))

\* The text of an item without flags for vsprintf.
Plain(it) ==
  CASE it.conv = "number" ->
         (IF it.sign = Minus THEN <<Minus>> ELSE <<>>) \o Digits(it.value, it.base)
    [] it.conv = "p" -> <<Zero, 120>> \o it.chars
    [] it.conv = "other" -> <<Percent>> \o it.chars
    [] OTHER -> it.chars

Text(Of1(_), items) == Joined([x \in DOMAIN items |-> Of1(items[x])])
----------------------------------------------------------------------------
(* st is the buffer, the offset of the next character, the count written    *)
(* and the offsets stored to.                                               *)

Start(buffer) == [cell |-> buffer, at |-> 0, written |-> 0, stored |-> {}]

\* The characters are stored and str moves behind them.
Emit(st, chars) ==
  [st EXCEPT !.cell = [a \in DOMAIN st.cell |->
                         IF a \in st.at .. st.at + Len(chars) - 1
                         THEN chars[a - st.at + 1] ELSE st.cell[a]],
             !.at = st.at + Len(chars),
             !.stored = st.stored \cup st.at .. st.at + Len(chars) - 1]

EndAt(st, a) == [st EXCEPT !.cell[a] = NUL, !.stored = @ \cup {a}]
----------------------------------------------------------------------------
(* vsprintf and vsnprintf.                                                 *)

\* Mutant of Clipped: what is copied is copied whole.
ClippedNot(st, chars) == chars

Clipped(st, chars) == SubSeq(chars, 1, Min({Len(chars), Limit - st.at}))

\* One turn of the loop.  "0x" and the two characters of an unknown
\* conversion are not clipped.
vsprintfTurn(st, it) ==
  CASE st.at >= Limit -> st
    [] st.at < Limit /\ it.conv \in {"s", "number"} -> Emit(st, Clipped(st, Plain(it)))
    [] st.at < Limit /\ it.conv = "p" ->
         Emit(st, Clipped(st, IF st.at + 2 <= Limit THEN Plain(it) ELSE it.chars))
    [] st.at < Limit /\ it.conv \notin {"s", "number", "p"} -> Emit(st, Plain(it))

vsprintfEnd(st) ==
  LET i == Min({st.at, Limit}) IN [EndAt(st, i) EXCEPT !.at = i]

\* at is the value returned; size is not 0.
vsnprintfEnd(st, size) ==
  LET v == vsprintfEnd(st) IN
  IF v.at >= size THEN [EndAt(v, size - 1) EXCEPT !.at = size - 1] ELSE v
----------------------------------------------------------------------------
(* vsprintf_impl, as the character loops of its conversions: a character is *)
(* stored and counted if there is room ("both"), stored if there is room    *)
(* and counted ("count"), passed over if there is room ("skip"), or stored  *)
(* and counted in any case ("force").                                       *)

Ops(op, chars) == [x \in 1 .. Len(chars) |-> [op |-> op, ch |-> chars[x]]]

\* snprintf(num_buf, ..., "0x%lx", ...): vsprintf does not know the l and
\* copies the format.
PointerText ==
  Text(Plain, <<Literal(Zero), Literal(120), Item("other", <<108>>), Literal(120)>>)

\* num_buf.  format_number puts the sign or 0x before a 0, and nothing for a 0
\* with a precision.
NumText(it) ==
  CASE it.conv = "p" -> PointerText
    [] it.conv = "number" /\ it.value = 0 /\ it.prec > 0 -> <<>>
    [] it.conv = "number" /\ it.value = 0 /\ it.prec <= 0 /\ it.sign # NoSign ->
         <<IF it.sign = Minus THEN Minus ELSE 43, Zero>>
    [] it.conv = "number" /\ it.value = 0 /\ it.prec <= 0 /\ it.sign = NoSign /\ it.hash ->
         <<Zero, 120, Zero>>
    [] OTHER -> Digits(it.value, it.base)

Cropped(it) ==
  IF it.prec >= 0 /\ Len(it.chars) > it.prec THEN SubSeq(it.chars, 1, it.prec) ELSE it.chars

SignText(it) == IF it.sign = NoSign THEN <<>> ELSE <<it.sign>>

\* Mutant of Convert: padding is put on the other side.
ConvertSwapped(it) ==
  LET body == Cropped(it)
      pad  == Repeat(Space, it.width - Len(body))
  IN  Ops("count", IF it.left THEN pad \o body ELSE body \o pad)

Convert(it) ==
  CASE it.conv = "literal" -> Ops("both", it.chars)
    [] it.conv = "s" ->
         LET body == Cropped(it)
             pad  == Repeat(Space, it.width - Len(body))
         IN  Ops("count", IF it.left THEN body \o pad ELSE pad \o body)
    [] it.conv = "c" -> Ops("force", it.chars)
    [] it.conv \in {"%", "other"} -> Ops("count", it.chars)
    [] it.conv \in {"number", "p"} ->
         LET pad == it.width - Len(NumText(it)) - Len(SignText(it))
         IN     (IF it.left THEN <<>> ELSE Ops("count", Repeat(Zero, pad)))
             \o Ops("both", SignText(it))
             \o Ops("skip", NumText(it))
             \o (IF it.left THEN Ops("count", Repeat(Space, pad)) ELSE <<>>)

\* Mutant of Room: the place of the terminator counts.
RoomOver(st, size) == st.at < size

Room(st, size) == st.at < size - 1

vsprintf_implTurn(st, size, op) ==
  LET room   == Room(st, size)
      stored == IF (room /\ op.op # "skip") \/ op.op = "force" THEN Emit(st, <<op.ch>>) ELSE st
  IN  [stored EXCEPT !.at = IF room /\ op.op = "skip" THEN @ + 1 ELSE @,
                     !.written = IF room \/ op.op \in {"count", "force"} THEN @ + 1 ELSE @]

\* The terminator goes to str, or to str + size - 1 when there is no room.
vsprintf_implEnd(st, size) ==
  EndAt(st, IF Room(st, size) THEN st.at ELSE st.at + size - 1)
----------------------------------------------------------------------------
(* What a format stands for.                                               *)

\* A place of the text whose character vsprintf_impl does not store.
Unset == -1

\* The text of an item for vsprintf_impl, in a buffer without end: its body in
\* a field of its width.
Meant(it) ==
  LET number == it.conv \in {"number", "p"}
      body   == CASE number -> SignText(it) \o Repeat(Unset, Len(NumText(it)))
                  [] ~number -> Cropped(it)
      pad(ch) == Repeat(ch, it.width - Len(body))
  IN  IF it.left THEN body \o pad(Space)
      ELSE IF number THEN pad(Zero) \o body ELSE pad(Space) \o body

\* The value a sequence of digits stands for.
ValueOf(chars, base) ==
  LET DigitOf(ch) == IF ch < 58 THEN ch - Zero ELSE ch - 87
      val[x \in 0 .. Len(chars)] ==
        IF x = 0 THEN 0 ELSE val[x - 1] * base + DigitOf(chars[x])
  IN  val[Len(chars)]
============================================================================
