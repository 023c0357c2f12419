----------------------------- MODULE UartProofs ------------------------------
(***************************************************************************)
(* The serial line for every text, every depth of the transmit FIFO from   *)
(* four on and both drivers: what was sent, what waits in the FIFO and what *)
(* the driver still holds are together the text it was given.  The module  *)
(* begins with the lemmas about concatenations that this and the formatted *)
(* output rest on.                                                         *)
(***************************************************************************)
EXTENDS Uart, WellFoundedInduction, TLAPS
----------------------------------------------------------------------------
(* Concatenations.                                                         *)

\* Induction, for a set: one that has 0 and the successor of each of its
\* numbers has all the natural numbers.
LEMMA AllNaturals ==
  ASSUME NEW S, 0 \in S, \A m \in Nat : m \in S => m + 1 \in S
  PROVE  Nat \subseteq S
<1> DEFINE R == OpToRel(<, Nat)
           T == Nat \ S
<1>1. \A x, y \in Nat : y < x => <<y, x>> \in R
  BY DEF OpToRel
<1>2. IsWellFoundedOn(R, Nat)
  BY NatLessThanWellFounded, Zenon
<1> SUFFICES ASSUME T # {} PROVE FALSE
  OBVIOUS
<1>3. T \subseteq Nat
  OBVIOUS
<1> HIDE DEF R, T
<1>4. PICK x \in T : \A y \in T : ~ (<<y, x>> \in R)
  BY <1>2, <1>3, WFMin, Zenon
<1>5. x \in Nat /\ x \notin S
  BY DEF T
<1>6. x # 0 /\ x - 1 \in Nat /\ (x - 1) + 1 = x /\ x - 1 < x
  BY <1>5
<1>7. x - 1 \in T
  BY <1>5, <1>6 DEF T
<1> QED
  BY <1>1, <1>4, <1>5, <1>6, <1>7, Zenon

\* The empty sequence is one over every set.
LEMMA EmptyIsSeq == ASSUME NEW S PROVE <<>> \in Seq(S)
  OBVIOUS

\* The partial concatenations of ss.
Flat(ss, g) == g = [x \in 0 .. Len(ss) |-> IF x = 0 THEN <<>> ELSE g[x - 1] \o ss[x]]

\* There are partial concatenations.
LEMMA FlatExists ==
  ASSUME NEW A, NEW ss \in Seq(Seq(A))
  PROVE  \E g : Flat(ss, g)
<1> DEFINE Part(m, g) == g = [x \in 0 .. m |-> IF x = 0 THEN <<>> ELSE g[x - 1] \o ss[x]]
           S == {m \in Nat : \E g : Part(m, g)}
<1>1. 0 \in S
  <2> DEFINE g == [x \in 0 .. 0 |-> <<>>]
  <2>1. Part(0, g)
    OBVIOUS
  <2> QED BY <2>1, Zenon
<1>2. ASSUME NEW m \in Nat, m \in S PROVE m + 1 \in S
  <2>1. m + 1 \in Nat
    OBVIOUS
  <2>2. PICK g : Part(m, g)
    BY <1>2, Zenon
  <2> DEFINE h == [x \in 0 .. m + 1 |-> IF x = m + 1 THEN g[x - 1] \o ss[x] ELSE g[x]]
  <2>3. Part(m + 1, h)
    <3> SUFFICES ASSUME NEW x \in 0 .. m + 1
                 PROVE  h[x] = IF x = 0 THEN <<>> ELSE h[x - 1] \o ss[x]
      BY Zenon
    <3>1. x # 0 => x - 1 \in 0 .. m /\ h[x - 1] = g[x - 1]
      OBVIOUS
    <3>2. CASE x = m + 1
      <4>1. x # 0
        BY <3>2
      <4>2. h[x] = g[x - 1] \o ss[x]
        BY <3>2, Zenon
      <4> QED BY <3>1, <4>1, <4>2, Zenon
    <3>3. CASE x # m + 1
      <4>1. x \in 0 .. m /\ h[x] = g[x]
        BY <3>3
      <4>2. g[x] = IF x = 0 THEN <<>> ELSE g[x - 1] \o ss[x]
        BY <2>2, <4>1, Zenon
      <4> QED BY <3>1, <4>1, <4>2
    <3> QED BY <3>2, <3>3
  <2> HIDE DEF h, Part
  <2> QED BY <2>1, <2>3, Zenon
<1> HIDE DEF S
<1>3. Nat \subseteq S
  BY <1>1, <1>2, AllNaturals, Zenon
<1> QED
  <2>1. Len(ss) \in S
    BY <1>3
  <2> QED BY <2>1, Zenon DEF S, Flat

\* Joined is the last of them.
LEMMA JoinedIs ==
  ASSUME NEW A, NEW ss \in Seq(Seq(A))
  PROVE  \E g : Flat(ss, g) /\ Joined(ss) = g[Len(ss)]
<1> DEFINE g == CHOOSE f : Flat(ss, f)
<1>1. Flat(ss, g)
  BY FlatExists, Zenon
<1>2. Joined(ss) = g[Len(ss)]
  BY DEF Joined, Flat
<1> QED BY <1>1, <1>2, Zenon

\* Nothing joined is nothing.
LEMMA JoinedEmpty == Joined(<<>>) = <<>>
<1>1. <<>> \in Seq(Seq({})) /\ Len(<<>>) = 0
  OBVIOUS
<1>2. PICK g : Flat(<<>>, g) /\ Joined(<<>>) = g[Len(<<>>)]
  BY <1>1, JoinedIs, Zenon
<1> QED BY <1>1, <1>2 DEF Flat

\* Each partial concatenation extends the one before it.
LEMMA FlatSteps ==
  ASSUME NEW ss, NEW g, Flat(ss, g), Len(ss) \in Nat
  PROVE  /\ g[0] = <<>>
         /\ \A m \in Nat : m + 1 <= Len(ss) => g[m + 1] = g[m] \o ss[m + 1]
<1>1. ASSUME NEW x \in 0 .. Len(ss)
      PROVE  g[x] = IF x = 0 THEN <<>> ELSE g[x - 1] \o ss[x]
  BY Zenon DEF Flat
<1>2. 0 \in 0 .. Len(ss)
  OBVIOUS
<1>3. g[0] = <<>>
  BY <1>1, <1>2, Zenon
<1>4. ASSUME NEW m \in Nat, m + 1 <= Len(ss) PROVE g[m + 1] = g[m] \o ss[m + 1]
  <2>1. m + 1 \in 0 .. Len(ss) /\ m + 1 # 0 /\ (m + 1) - 1 = m
    BY <1>4
  <2>2. g[m + 1] = g[(m + 1) - 1] \o ss[m + 1]
    BY <1>1, <2>1, Zenon
  <2> QED BY <2>1, <2>2, Zenon
<1> QED BY <1>3, <1>4, Zenon

\* Partial concatenations are sequences.
LEMMA FlatTyped ==
  ASSUME NEW A, NEW ss \in Seq(Seq(A)), NEW g, Flat(ss, g), NEW i \in 0 .. Len(ss)
  PROVE  g[i] \in Seq(A)
<1> DEFINE S == {m \in Nat : m \in 0 .. Len(ss) => g[m] \in Seq(A)}
<1>0. /\ Len(ss) \in Nat /\ g[0] = <<>>
      /\ \A m \in Nat : m + 1 <= Len(ss) => g[m + 1] = g[m] \o ss[m + 1]
  <2>1. Len(ss) \in Nat
    OBVIOUS
  <2> QED BY <2>1, FlatSteps, Zenon
<1>1. 0 \in S
  <2>1. <<>> \in Seq(A)
    OBVIOUS
  <2> QED BY <1>0, <2>1, Zenon
<1>2. ASSUME NEW m \in Nat, m \in S PROVE m + 1 \in S
  <2> SUFFICES ASSUME m + 1 \in 0 .. Len(ss) PROVE g[m + 1] \in Seq(A)
    OBVIOUS
  <2>1. m + 1 <= Len(ss) /\ m + 1 \in 1 .. Len(ss) /\ m \in 0 .. Len(ss)
    BY <1>0
  <2>2. g[m] \in Seq(A) /\ ss[m + 1] \in Seq(A)
    BY <1>2, <2>1
  <2>3. g[m + 1] = g[m] \o ss[m + 1]
    BY <1>0, <2>1, Zenon
  <2>4. ASSUME NEW u \in Seq(A), NEW v \in Seq(A) PROVE u \o v \in Seq(A)
    OBVIOUS
  <2> QED BY <2>2, <2>3, <2>4, Zenon
<1> HIDE DEF S
<1>3. Nat \subseteq S
  BY <1>1, <1>2, AllNaturals, Zenon
<1> QED
  BY <1>3 DEF S

\* A concatenation of sequences is a sequence.
LEMMA JoinedTyped ==
  ASSUME NEW A, NEW ss \in Seq(Seq(A))
  PROVE  Joined(ss) \in Seq(A)
<1>1. PICK g : Flat(ss, g) /\ Joined(ss) = g[Len(ss)]
  BY JoinedIs, Zenon
<1>2. Len(ss) \in 0 .. Len(ss)
  OBVIOUS
<1> QED BY <1>1, <1>2, FlatTyped

\* One more sequence comes at the end.
LEMMA JoinedAppend ==
  ASSUME NEW A, NEW ss \in Seq(Seq(A)), NEW e \in Seq(A)
  PROVE  Joined(Append(ss, e)) = Joined(ss) \o e
<1> DEFINE tt == Append(ss, e)
<1>1. /\ tt \in Seq(Seq(A)) /\ Len(tt) = Len(ss) + 1 /\ Len(ss) \in Nat
      /\ tt[Len(ss) + 1] = e /\ \A j \in 1 .. Len(ss) : tt[j] = ss[j]
  OBVIOUS
<1> HIDE DEF tt
<1>2. PICK g : Flat(tt, g) /\ Joined(tt) = g[Len(tt)]
  BY <1>1, JoinedIs, Zenon
<1>3. PICK h : Flat(ss, h) /\ Joined(ss) = h[Len(ss)]
  BY JoinedIs, Zenon
<1>4. /\ g[0] = <<>> /\ h[0] = <<>>
      /\ \A m \in Nat : m + 1 <= Len(tt) => g[m + 1] = g[m] \o tt[m + 1]
      /\ \A m \in Nat : m + 1 <= Len(ss) => h[m + 1] = h[m] \o ss[m + 1]
  <2>1. Len(tt) \in Nat /\ Len(ss) \in Nat
    BY <1>1
  <2> QED BY <1>2, <1>3, <2>1, FlatSteps, Zenon
<1> DEFINE S == {m \in Nat : m <= Len(ss) => g[m] = h[m]}
<1>5. 0 \in S
  BY <1>4
<1>6. ASSUME NEW m \in Nat, m \in S PROVE m + 1 \in S
  <2> SUFFICES ASSUME m + 1 <= Len(ss) PROVE g[m + 1] = h[m + 1]
    OBVIOUS
  <2>1. m + 1 <= Len(tt) /\ m <= Len(ss) /\ m + 1 \in 1 .. Len(ss)
    BY <1>1
  <2>2. g[m + 1] = g[m] \o tt[m + 1] /\ h[m + 1] = h[m] \o ss[m + 1]
    BY <1>4, <2>1, Zenon
  <2>3. tt[m + 1] = ss[m + 1] /\ g[m] = h[m]
    BY <1>1, <1>6, <2>1
  <2> QED BY <2>2, <2>3, Zenon
<1> HIDE DEF S
<1>7. Nat \subseteq S
  BY <1>5, <1>6, AllNaturals
<1>8. g[Len(ss)] = h[Len(ss)]
  BY <1>1, <1>7 DEF S
<1>9. g[Len(ss) + 1] = g[Len(ss)] \o e
  <2>1. Len(ss) + 1 <= Len(tt)
    BY <1>1
  <2> QED BY <1>1, <1>4, <2>1, Zenon
<1> QED BY <1>1, <1>2, <1>3, <1>8, <1>9 DEF tt

\* What the FIFO, the wire and the list of lost characters hold.
Pairs == Contexts \X Nat

\* What getchar and uart_getc_nonblock return.
Reads == [f : {"getchar", "nonblock"}, value : Int]

\* One more pair adds its character if it is of the context.
LEMMA OfAppend ==
  ASSUME NEW c, NEW s \in Seq(Pairs), NEW e \in Pairs
  PROVE  /\ Of(c, s) \in Seq(Nat)
         /\ Of(c, Append(s, e)) = Of(c, s) \o (IF e[1] = c THEN <<e[2]>> ELSE <<>>)
<1> DEFINE ss == [x \in DOMAIN s |-> IF s[x][1] = c THEN <<s[x][2]>> ELSE <<>>]
           tt == [x \in DOMAIN Append(s, e) |-> IF Append(s, e)[x][1] = c THEN <<Append(s, e)[x][2]>> ELSE <<>>]
           one == IF e[1] = c THEN <<e[2]>> ELSE <<>>
<1>1. Len(s) \in Nat /\ DOMAIN s = 1 .. Len(s) /\ DOMAIN Append(s, e) = 1 .. Len(s) + 1
  OBVIOUS
<1>2. \A u \in Pairs : (IF u[1] = c THEN <<u[2]>> ELSE <<>>) \in Seq(Nat)
  BY DEF Pairs
<1>3. one \in Seq(Nat)
  BY <1>2
<1>4. ss \in Seq(Seq(Nat))
  <2>1. \A x \in 1 .. Len(s) : s[x] \in Pairs
    OBVIOUS
  <2>2. \A x \in 1 .. Len(s) : ss[x] \in Seq(Nat)
    BY <1>1, <1>2, <2>1, Zenon
  <2>3. ss = [x \in 1 .. Len(s) |-> ss[x]]
    BY <1>1
  <2> HIDE DEF ss
  <2> QED BY <1>1, <2>2, <2>3
<1>5. tt = Append(ss, one)
  <2>1. /\ Append(ss, one) \in Seq(Seq(Nat)) /\ Len(ss) = Len(s)
        /\ DOMAIN Append(ss, one) = 1 .. Len(s) + 1
    BY <1>1, <1>3, <1>4
  <2>2. ASSUME NEW x \in 1 .. Len(s) + 1 PROVE tt[x] = Append(ss, one)[x]
    BY <1>1, <1>3, <1>4, <2>1
  <2> QED BY <1>1, <2>1, <2>2
<1>6. Joined(tt) = Joined(ss) \o one /\ Joined(ss) \in Seq(Nat)
  <2> HIDE DEF ss, tt, one
  <2> QED BY <1>3, <1>4, <1>5, JoinedAppend, JoinedTyped
<1> QED
  BY <1>6, Zenon DEF Of


\* One more character goes to the wire as it is, or as '\r' '\n'.
LEMMA ExpandAppend ==
  ASSUME NEW s \in Seq(Nat), NEW e \in Nat
  PROVE  /\ Expand(s) \in Seq(Nat)
         /\ Expand(Append(s, e)) = Expand(s) \o (IF e = LF THEN <<CR, LF>> ELSE <<e>>)
<1> DEFINE ss == [x \in DOMAIN s |-> IF s[x] = LF THEN <<CR, LF>> ELSE <<s[x]>>]
           tt == [x \in DOMAIN Append(s, e) |-> IF Append(s, e)[x] = LF THEN <<CR, LF>> ELSE <<Append(s, e)[x]>>]
           one == IF e = LF THEN <<CR, LF>> ELSE <<e>>
<1>1. Len(s) \in Nat /\ DOMAIN s = 1 .. Len(s) /\ DOMAIN Append(s, e) = 1 .. Len(s) + 1
  OBVIOUS
<1>2. \A u \in Nat : (IF u = LF THEN <<CR, LF>> ELSE <<u>>) \in Seq(Nat)
  BY DEF LF, CR
<1>3. one \in Seq(Nat)
  BY <1>2
<1>4. ss \in Seq(Seq(Nat))
  <2>1. \A x \in 1 .. Len(s) : s[x] \in Nat
    OBVIOUS
  <2>2. \A x \in 1 .. Len(s) : ss[x] \in Seq(Nat)
    BY <1>1, <1>2, <2>1, Zenon
  <2>3. ss = [x \in 1 .. Len(s) |-> ss[x]]
    BY <1>1
  <2> HIDE DEF ss
  <2> QED BY <1>1, <2>2, <2>3
<1>5. tt = Append(ss, one)
  <2>1. /\ Append(ss, one) \in Seq(Seq(Nat)) /\ Len(ss) = Len(s)
        /\ DOMAIN Append(ss, one) = 1 .. Len(s) + 1
    BY <1>1, <1>3, <1>4
  <2>2. ASSUME NEW x \in 1 .. Len(s) + 1 PROVE tt[x] = Append(ss, one)[x]
    BY <1>1, <1>3, <1>4, <2>1
  <2> QED BY <1>1, <2>1, <2>2
<1>6. Joined(tt) = Joined(ss) \o one /\ Joined(ss) \in Seq(Nat)
  <2> HIDE DEF ss, tt, one
  <2> QED BY <1>3, <1>4, <1>5, JoinedAppend, JoinedTyped
<1> QED
  BY <1>6, Zenon DEF Expand


\* One more character stays unless it is '\n'.
LEMMA RestAppend ==
  ASSUME NEW s \in Seq(Nat), NEW e \in Nat
  PROVE  /\ Rest(s) \in Seq(Nat)
         /\ Rest(Append(s, e)) = Rest(s) \o (IF e = LF THEN <<>> ELSE <<e>>)
<1> DEFINE ss == [x \in DOMAIN s |-> IF s[x] = LF THEN <<>> ELSE <<s[x]>>]
           tt == [x \in DOMAIN Append(s, e) |-> IF Append(s, e)[x] = LF THEN <<>> ELSE <<Append(s, e)[x]>>]
           one == IF e = LF THEN <<>> ELSE <<e>>
<1>1. Len(s) \in Nat /\ DOMAIN s = 1 .. Len(s) /\ DOMAIN Append(s, e) = 1 .. Len(s) + 1
  OBVIOUS
<1>2. \A u \in Nat : (IF u = LF THEN <<>> ELSE <<u>>) \in Seq(Nat)
  BY DEF LF
<1>3. one \in Seq(Nat)
  BY <1>2
<1>4. ss \in Seq(Seq(Nat))
  <2>1. \A x \in 1 .. Len(s) : s[x] \in Nat
    OBVIOUS
  <2>2. \A x \in 1 .. Len(s) : ss[x] \in Seq(Nat)
    BY <1>1, <1>2, <2>1, Zenon
  <2>3. ss = [x \in 1 .. Len(s) |-> ss[x]]
    BY <1>1
  <2> HIDE DEF ss
  <2> QED BY <1>1, <2>2, <2>3
<1>5. tt = Append(ss, one)
  <2>1. /\ Append(ss, one) \in Seq(Seq(Nat)) /\ Len(ss) = Len(s)
        /\ DOMAIN Append(ss, one) = 1 .. Len(s) + 1
    BY <1>1, <1>3, <1>4
  <2>2. ASSUME NEW x \in 1 .. Len(s) + 1 PROVE tt[x] = Append(ss, one)[x]
    BY <1>1, <1>3, <1>4, <2>1
  <2> QED BY <1>1, <2>1, <2>2
<1>6. Joined(tt) = Joined(ss) \o one /\ Joined(ss) \in Seq(Nat)
  <2> HIDE DEF ss, tt, one
  <2> QED BY <1>3, <1>4, <1>5, JoinedAppend, JoinedTyped
<1> QED
  BY <1>6, Zenon DEF Rest


\* One more value read adds its byte.
LEMMA BytesAppend ==
  ASSUME NEW s \in Seq(Reads), NEW e \in Reads
  PROVE  /\ Bytes(s) \in Seq(Int)
         /\ Bytes(Append(s, e)) = Bytes(s) \o (IF e.f = "getchar" \/ e.value # -1 THEN <<e.value % 256>> ELSE <<>>)
<1> DEFINE ss == [x \in DOMAIN s |-> IF s[x].f = "getchar" \/ s[x].value # -1 THEN <<s[x].value % 256>> ELSE <<>>]
           tt == [x \in DOMAIN Append(s, e) |-> IF Append(s, e)[x].f = "getchar" \/ Append(s, e)[x].value # -1 THEN <<Append(s, e)[x].value % 256>> ELSE <<>>]
           one == IF e.f = "getchar" \/ e.value # -1 THEN <<e.value % 256>> ELSE <<>>
<1>1. Len(s) \in Nat /\ DOMAIN s = 1 .. Len(s) /\ DOMAIN Append(s, e) = 1 .. Len(s) + 1
  OBVIOUS
<1>2. \A u \in Reads : (IF u.f = "getchar" \/ u.value # -1 THEN <<u.value % 256>> ELSE <<>>) \in Seq(Int)
  BY DEF Reads
<1>3. one \in Seq(Int)
  BY <1>2
<1>4. ss \in Seq(Seq(Int))
  <2>1. \A x \in 1 .. Len(s) : s[x] \in Reads
    OBVIOUS
  <2>2. \A x \in 1 .. Len(s) : ss[x] \in Seq(Int)
    BY <1>1, <1>2, <2>1, Zenon
  <2>3. ss = [x \in 1 .. Len(s) |-> ss[x]]
    BY <1>1
  <2> HIDE DEF ss
  <2> QED BY <1>1, <2>2, <2>3
<1>5. tt = Append(ss, one)
  <2>1. /\ Append(ss, one) \in Seq(Seq(Int)) /\ Len(ss) = Len(s)
        /\ DOMAIN Append(ss, one) = 1 .. Len(s) + 1
    BY <1>1, <1>3, <1>4
  <2>2. ASSUME NEW x \in 1 .. Len(s) + 1 PROVE tt[x] = Append(ss, one)[x]
    BY <1>1, <1>3, <1>4, <2>1
  <2> QED BY <1>1, <2>1, <2>2
<1>6. Joined(tt) = Joined(ss) \o one /\ Joined(ss) \in Seq(Int)
  <2> HIDE DEF ss, tt, one
  <2> QED BY <1>3, <1>4, <1>5, JoinedAppend, JoinedTyped
<1> QED
  BY <1>6, Zenon DEF Bytes

\* The head of a sequence may as well stand at the end of the one before.
LEMMA MoveHead ==
  ASSUME NEW S, NEW a \in Seq(S), NEW r \in Seq(S), r # <<>>
  PROVE  /\ Head(r) \in S /\ Tail(r) \in Seq(S)
         /\ (a \o <<Head(r)>>) \o Tail(r) = a \o r
<1>1. Head(r) \in S /\ Tail(r) \in Seq(S) /\ <<Head(r)>> \in Seq(S)
  OBVIOUS
<1>2. <<Head(r)>> \o Tail(r) = r
  OBVIOUS
<1>3. (a \o <<Head(r)>>) \o Tail(r) = a \o (<<Head(r)>> \o Tail(r))
  BY <1>1
<1> QED BY <1>1, <1>2, <1>3

\* Appending is the concatenation of one.
LEMMA AppendOne ==
  ASSUME NEW S, NEW a \in Seq(S), NEW e \in S
  PROVE  Append(a, e) = a \o <<e>> /\ Append(a, e) \in Seq(S) /\ Append(a, e) # <<>>
  OBVIOUS
----------------------------------------------------------------------------
(* The serial line.                                                        *)

Points == {"wait", "again", "return", "data"}

\* The driver's state is well formed: an uart_putc is only at work on a character,
\* the second wait is for a newline, and the handler prints after an interrupt.
SerialTypes ==
  /\ arch \in {"arm64", "x86_64"} /\ depth \in Nat \ {0}
  /\ arch = "x86_64" => depth >= 4
  /\ text \in [Contexts -> Seq(Nat)] /\ asked \in [Contexts -> Seq(Nat)]
  /\ point \in [Contexts -> Points]
  /\ fifo \in Seq(Pairs) /\ wire \in Seq(Pairs) /\ lost \in Seq(Pairs)
  /\ irqs \in Nat
  /\ irqs = 0 => text["irq"] = <<>>
  /\ \A c \in Contexts :
       /\ text[c] = <<>> => point[c] = "wait"
       /\ point[c] \in {"again", "return"} => Head(text[c]) = LF

\* What uart_putc has written of a character that it has not completed.
Half(c) == IF point[c] = "data" /\ Head(text[c]) = LF THEN <<CR>> ELSE <<>>

\* What a context has written, and what it should have.
Out(c) == Of(c, wire \o fifo)
Due(c) == Expand(asked[c]) \o Half(c)

\* x86_64 waits for an empty FIFO, so that the few writes that can follow a wait,
\* those of an interrupt included, all find room.
X86Inv ==
  arch = "x86_64" =>
    /\ lost = <<>>
    /\ \A c \in Contexts : Out(c) = Due(c)
    /\ point["irq"] = "return" => fifo = <<>>
    /\ point["irq"] = "data" => Len(fifo) <= 1
    /\ point["main"] = "return" => Len(fifo) <= 2
    /\ point["main"] = "data" => Len(fifo) <= 3

\* arm64 waits for one free place: enough for a character without a newline if
\* nothing is printed in between.
ArmInv ==
  arch = "arm64" =>
    \A c \in Contexts : c = "irq" \/ irqs = 0 =>
      /\ \A x \in DOMAIN lost : lost[x][1] = c => lost[x][2] = LF
      /\ Rest(Out(c)) = Rest(Due(c))
      /\ point[c] = "return" \/ (point[c] = "data" /\ Head(text[c]) # LF) => Len(fifo) < depth


\* The texts SerialInv speaks about are sequences.
LEMMA SerialSequences ==
  ASSUME SerialTypes, NEW c \in Contexts
  PROVE  /\ Out(c) \in Seq(Nat) /\ Due(c) \in Seq(Nat) /\ Half(c) \in Seq(Nat)
         /\ Expand(asked[c]) \in Seq(Nat) /\ wire \o fifo \in Seq(Pairs)
<1>1. wire \o fifo \in Seq(Pairs) /\ asked[c] \in Seq(Nat)
  BY DEF SerialTypes
<1>2. <<"main", 0>> \in Pairs
  BY DEF Pairs, Contexts
<1>3. Out(c) \in Seq(Nat)
  BY <1>1, <1>2, OfAppend, Zenon DEF Out
<1>4. Expand(asked[c]) \in Seq(Nat)
  BY <1>1, ExpandAppend, Zenon
<1>5. Half(c) \in Seq(Nat)
  <2>1. <<13>> \in Seq(Nat) /\ <<>> \in Seq(Nat)
    OBVIOUS
  <2> QED BY <2>1, Zenon DEF Half, CR
<1>6. Due(c) \in Seq(Nat)
  BY <1>4, <1>5 DEF Due
<1> QED BY <1>1, <1>3, <1>4, <1>5, <1>6

\* A character and who wrote it.
LEMMA PairFields ==
  ASSUME NEW c \in Contexts, NEW ch \in Nat
  PROVE  <<c, ch>> \in Pairs /\ <<c, ch>>[1] = c /\ <<c, ch>>[2] = ch
<1>1. ASSUME NEW A, NEW B, NEW a \in A, NEW b \in B
      PROVE  <<a, b>> \in A \X B /\ <<a, b>>[1] = a /\ <<a, b>>[2] = b
  OBVIOUS
<1> QED BY <1>1, Zenon DEF Pairs

\* A write to the data register.
LEMMA WriteEffect ==
  ASSUME SerialTypes, NEW c \in Contexts, NEW ch \in Nat, WriteData(c, ch), wire' = wire
  PROVE  /\ fifo' \in Seq(Pairs) /\ lost' \in Seq(Pairs)
         /\ Len(fifo) < depth =>
              /\ lost' = lost /\ Len(fifo') = Len(fifo) + 1
              /\ Out(c)' = Out(c) \o <<ch>>
              /\ \A d \in Contexts : d # c => Out(d)' = Out(d)
         /\ ~ (Len(fifo) < depth) =>
              /\ fifo' = fifo /\ lost' = Append(lost, <<c, ch>>)
              /\ \A d \in Contexts : Out(d)' = Out(d)
<1>1. PICK e \in Pairs : e = <<c, ch>> /\ e[1] = c /\ e[2] = ch
  BY PairFields, Zenon
<1>2. fifo \in Seq(Pairs) /\ wire \in Seq(Pairs) /\ lost \in Seq(Pairs) /\ wire \o fifo \in Seq(Pairs)
  BY DEF SerialTypes
<1>3. CASE Len(fifo) < depth
  <2>1. fifo' = Append(fifo, e) /\ lost' = lost
    BY <1>1, <1>3 DEF WriteData
  <2>2. fifo' \in Seq(Pairs) /\ Len(fifo') = Len(fifo) + 1
    BY <1>2, <2>1
  <2>3. wire' \o fifo' = Append(wire \o fifo, e)
    <3>1. ASSUME NEW u \in Seq(Pairs), NEW v \in Seq(Pairs) PROVE u \o Append(v, e) = Append(u \o v, e)
      OBVIOUS
    <3> QED BY <1>2, <2>1, <3>1
  <2>4. ASSUME NEW d \in Contexts
        PROVE  Out(d)' = Out(d) \o (IF c = d THEN <<ch>> ELSE <<>>)
    <3>0. ASSUME NEW w \in Seq(Pairs)
          PROVE  Of(d, Append(w, e)) = Of(d, w) \o (IF e[1] = d THEN <<e[2]>> ELSE <<>>)
      BY OfAppend
    <3>1. Of(d, Append(wire \o fifo, e)) = Of(d, wire \o fifo) \o (IF e[1] = d THEN <<e[2]>> ELSE <<>>)
      BY <1>2, <3>0, Zenon
    <3> QED BY <1>1, <2>3, <3>1, Zenon DEF Out
  <2>5. ASSUME NEW d \in Contexts, d # c PROVE Out(d)' = Out(d)
    <3>1. Out(d) \in Seq(Nat)
      BY SerialSequences
    <3>2. Out(d) \o <<>> = Out(d)
      BY <3>1
    <3>3. Out(d)' = Out(d) \o <<>>
      BY <2>4, <2>5, Zenon
    <3> QED BY <3>2, <3>3
  <2>6. Out(c)' = Out(c) \o <<ch>>
    BY <2>4
  <2> QED BY <1>2, <1>3, <2>1, <2>2, <2>5, <2>6
<1>4. CASE ~ (Len(fifo) < depth)
  <2>1. fifo' = fifo /\ lost' = Append(lost, e)
    BY <1>1, <1>4 DEF WriteData
  <2>2. \A d \in Contexts : Out(d)' = Out(d)
    BY <2>1 DEF Out
  <2>3. lost' \in Seq(Pairs)
    BY <1>2, <2>1
  <2> QED BY <1>1, <1>2, <1>4, <2>1, <2>2, <2>3
<1> QED BY <1>3, <1>4

\* The part of the invariants that a write concerns, if the character is due and,
\* on arm64, either there is room or it is a newline.
LEMMA WriteKeeps ==
  ASSUME SerialTypes, X86Inv, ArmInv, NEW c \in Contexts, NEW ch \in Nat,
         WriteData(c, ch), wire' = wire, Due(c)' = Due(c) \o <<ch>>,
         \A d \in Contexts : d # c => Due(d)' = Due(d)
  PROVE  /\ arch = "x86_64" /\ Len(fifo) < depth =>
              lost' = <<>> /\ \A d \in Contexts : Out(d)' = Due(d)'
         /\ arch = "arm64" /\ (Len(fifo) < depth \/ ch = LF \/ (c = "main" /\ irqs # 0)) =>
              \A d \in Contexts : d = "irq" \/ irqs = 0 =>
                /\ \A x \in DOMAIN lost' : lost'[x][1] = d => lost'[x][2] = LF
                /\ Rest(Out(d)') = Rest(Due(d)')
<1>1. /\ Len(fifo) < depth =>
           /\ lost' = lost /\ Out(c)' = Out(c) \o <<ch>>
           /\ \A d \in Contexts : d # c => Out(d)' = Out(d)
      /\ ~ (Len(fifo) < depth) =>
           lost' = Append(lost, <<c, ch>>) /\ \A d \in Contexts : Out(d)' = Out(d)
  BY WriteEffect
<1>2. ASSUME arch = "x86_64", Len(fifo) < depth
      PROVE  lost' = <<>> /\ \A d \in Contexts : Out(d)' = Due(d)'
  <2>1. lost = <<>> /\ \A d \in Contexts : Out(d) = Due(d)
    BY <1>2 DEF X86Inv
  <2> QED BY <1>1, <1>2, <2>1, Zenon
<1>3. ASSUME arch = "arm64", Len(fifo) < depth \/ ch = LF \/ (c = "main" /\ irqs # 0),
             NEW d \in Contexts, d = "irq" \/ irqs = 0
      PROVE  /\ \A x \in DOMAIN lost' : lost'[x][1] = d => lost'[x][2] = LF
             /\ Rest(Out(d)') = Rest(Due(d)')
  <2>1. /\ \A x \in DOMAIN lost : lost[x][1] = d => lost[x][2] = LF
        /\ Rest(Out(d)) = Rest(Due(d))
    BY <1>3 DEF ArmInv
  <2>2. Out(d) \in Seq(Nat) /\ Due(d) \in Seq(Nat)
    BY SerialSequences
  <2>3. ASSUME NEW u \in Seq(Nat)
        PROVE  Rest(u \o <<ch>>) = Rest(u) \o (IF ch = LF THEN <<>> ELSE <<ch>>) /\ Rest(u) \in Seq(Nat)
    <3>1. Append(u, ch) = u \o <<ch>>
      OBVIOUS
    <3>2. /\ Rest(u) \in Seq(Nat)
          /\ Rest(Append(u, ch)) = Rest(u) \o (IF ch = LF THEN <<>> ELSE <<ch>>)
      BY RestAppend
    <3> QED BY <3>1, <3>2, Zenon
  <2>4. CASE Len(fifo) < depth
    <3>1. lost' = lost
      BY <1>1, <2>4
    <3>2. CASE d = c
      <4>1. Out(d)' = Out(d) \o <<ch>> /\ Due(d)' = Due(d) \o <<ch>>
        BY <1>1, <2>4, <3>2, Zenon
      <4>2. Rest(Out(d) \o <<ch>>) = Rest(Due(d) \o <<ch>>)
        BY <2>1, <2>2, <2>3, Zenon
      <4> QED BY <2>1, <3>1, <4>1, <4>2, Zenon
    <3>3. CASE d # c
      BY <1>1, <2>1, <2>4, <3>1, <3>3, Zenon
    <3> QED BY <3>2, <3>3
  <2>5. CASE ~ (Len(fifo) < depth)
    <3>1. lost' = Append(lost, <<c, ch>>) /\ Out(d)' = Out(d)
      BY <1>1, <2>5
    <3>2. d = c => ch = LF
      BY <1>3, <2>5 DEF Contexts
    <3>3. \A x \in DOMAIN lost' : lost'[x][1] = d => lost'[x][2] = LF
      <4>1. PICK e \in Pairs : e = <<c, ch>> /\ e[1] = c /\ e[2] = ch
        BY PairFields, Zenon
      <4>2. lost \in Seq(Pairs)
        BY DEF SerialTypes
      <4>3. \A x \in DOMAIN Append(lost, e) : (x \in DOMAIN lost /\ Append(lost, e)[x] = lost[x])
                                                \/ Append(lost, e)[x] = e
        BY <4>2
      <4> QED BY <2>1, <3>1, <3>2, <4>1, <4>3, Zenon
    <3>4. Rest(Due(d)') = Rest(Due(d))
      <4>1. CASE d = c
        <5>1. Rest(Due(d) \o <<ch>>) = Rest(Due(d)) \o <<>> /\ Rest(Due(d)) \in Seq(Nat)
          BY <2>2, <2>3, <3>2, <4>1, Zenon
        <5>2. Due(d)' = Due(d) \o <<ch>>
          BY <4>1, Zenon
        <5>3. ASSUME NEW u \in Seq(Nat) PROVE u \o <<>> = u
          OBVIOUS
        <5> QED BY <5>1, <5>2, <5>3, Zenon
      <4>2. CASE d # c
        BY <4>2
      <4> QED BY <4>1, <4>2
    <3> QED BY <2>1, <3>1, <3>3, <3>4, Zenon
  <2> QED BY <2>4, <2>5
<1> QED BY <1>2, <1>3

SerialInv == SerialTypes /\ X86Inv /\ ArmInv

\* The steps of the serial line: an access to the device, a new text of the kernel,
\* or none.
SerialRest == <<arch, depth, point, fifo, wire, asked, lost, irqs>>

NewText ==
  /\ text["main"] = <<>> /\ UNCHANGED SerialRest
  /\ \E t \in Seq(Nat) : text' = [text EXCEPT !["main"] = t]

\* What is left alone by a step that neither writes nor completes a character.
LEMMA SameDue ==
  ASSUME SerialTypes, NEW c \in Contexts, asked'[c] = asked[c],
         \/ point'[c] = point[c] /\ Head(text'[c]) = Head(text[c])
         \/ point'[c] # "data" /\ point[c] # "data"
         \/ point'[c] = "data" /\ point[c] # "data" /\ Head(text'[c]) # LF
  PROVE  Due(c)' = Due(c)
<1>1. Half(c)' = Half(c)
  BY DEF Half
<1> QED BY <1>1, Zenon DEF Due

\* SerialInv holds before the first access to the device.
LEMMA InitSerial == UartInit => SerialInv
<1> SUFFICES ASSUME UartInit PROVE SerialInv
  OBVIOUS
<1>1. UartInit
  OBVIOUS
<1>2. /\ arch \in {"arm64", "x86_64"} /\ depth \in Nat \ {0} /\ (arch = "x86_64" => depth >= 4)
  BY <1>1, UartConstants DEF UartInit
<1>3. /\ text = [c \in Contexts |-> <<>>] /\ point = [c \in Contexts |-> "wait"]
      /\ asked = [c \in Contexts |-> <<>>] /\ irqs = 0
      /\ fifo = <<>> /\ wire = <<>> /\ lost = <<>>
  BY <1>1 DEF UartInit
<1>4. <<>> \in Seq(Nat) /\ <<>> \in Seq(Pairs)
  OBVIOUS
<1>5. SerialTypes
  BY <1>2, <1>3, <1>4 DEF SerialTypes, Contexts, Points
<1>6. ASSUME NEW c \in Contexts PROVE Out(c) = <<>> /\ Due(c) = <<>>
  <2>1. <<>> \o <<>> = <<>> /\ [x \in DOMAIN <<>> |-> x] = <<>>
    OBVIOUS
  <2>2. Of(c, <<>>) = <<>> /\ Expand(<<>>) = <<>>
    BY JoinedEmpty DEF Of, Expand
  <2>3. Half(c) = <<>> /\ asked[c] = <<>>
    BY <1>3 DEF Half
  <2> QED BY <1>3, <2>1, <2>2, <2>3 DEF Out, Due
<1>7. X86Inv
  BY <1>3, <1>6 DEF X86Inv, Contexts
<1>8. ArmInv
  BY <1>3, <1>6 DEF ArmInv, Contexts
<1> QED BY <1>5, <1>7, <1>8 DEF SerialInv

\* A new text of the kernel, when it has none.
LEMMA NewTextSerial == SerialInv /\ NewText => SerialInv'
<1> SUFFICES ASSUME SerialInv, NewText PROVE SerialInv'
  OBVIOUS
<1>1. SerialTypes
  BY DEF SerialInv
<1>2. /\ arch' = arch /\ depth' = depth /\ point' = point /\ fifo' = fifo /\ wire' = wire
      /\ asked' = asked /\ lost' = lost /\ irqs' = irqs
  BY DEF NewText, SerialRest
<1>3. PICK t \in Seq(Nat) : text' = [text EXCEPT !["main"] = t]
  BY Zenon DEF NewText
<1>4. /\ "main" \in Contexts /\ "irq" \in Contexts /\ point["main"] = "wait"
      /\ text' \in [Contexts -> Seq(Nat)] /\ text'["irq"] = text["irq"]
  BY <1>1, <1>3 DEF SerialTypes, NewText, Contexts
<1>5. \A c \in Contexts : c = "main" \/ c = "irq"
  BY DEF Contexts
<1>6. SerialTypes'
  BY <1>1, <1>2, <1>4, <1>5, Zenon DEF SerialTypes
<1>7. \A c \in Contexts : Out(c)' = Out(c)
  BY <1>2, Zenon DEF Out
<1>8. ASSUME NEW c \in Contexts PROVE Due(c)' = Due(c)
  BY <1>1, <1>2, <1>4, <1>5, SameDue, Zenon
<1>9. X86Inv'
  BY <1>2, <1>7, <1>8 DEF SerialInv, X86Inv
<1>10. ArmInv'
  BY <1>2, <1>4, <1>5, <1>7, <1>8 DEF SerialInv, ArmInv
<1> QED BY <1>6, <1>9, <1>10 DEF SerialInv

\* An interrupt.
LEMMA InterruptSerial == SerialInv /\ Interrupt /\ UNCHANGED <<arch, depth>> => SerialInv'
<1> SUFFICES ASSUME SerialInv, Interrupt, arch' = arch, depth' = depth PROVE SerialInv'
  OBVIOUS
<1>1. SerialTypes
  BY DEF SerialInv
<1>2. /\ point' = point /\ fifo' = fifo /\ wire' = wire /\ asked' = asked /\ lost' = lost
      /\ irqs' = irqs + 1 /\ text["irq"] = <<>> /\ text' = [text EXCEPT !["irq"] = IrqText]
  BY DEF Interrupt
<1>4. /\ "main" \in Contexts /\ "irq" \in Contexts /\ point["irq"] = "wait"
      /\ text' \in [Contexts -> Seq(Nat)] /\ text'["main"] = text["main"]
  BY <1>1, <1>2, UartConstants DEF SerialTypes, Contexts
<1>5. \A c \in Contexts : c = "main" \/ c = "irq"
  BY DEF Contexts
<1>6. irqs' \in Nat /\ irqs' # 0
  BY <1>1, <1>2 DEF SerialTypes
<1>7. SerialTypes'
  BY <1>1, <1>2, <1>4, <1>5, <1>6, Zenon DEF SerialTypes
<1>8. \A c \in Contexts : Out(c)' = Out(c)
  BY <1>2, Zenon DEF Out
<1>9. ASSUME NEW c \in Contexts PROVE Due(c)' = Due(c)
  BY <1>1, <1>2, <1>4, <1>5, SameDue
<1>10. X86Inv'
  BY <1>2, <1>8, <1>9 DEF SerialInv, X86Inv
<1>11. ArmInv'
  BY <1>2, <1>4, <1>5, <1>6, <1>8, <1>9 DEF SerialInv, ArmInv
<1> QED BY <1>7, <1>10, <1>11 DEF SerialInv

\* The device sends a character.
LEMMA ShiftSerial == SerialInv /\ Shift /\ UNCHANGED <<arch, depth>> => SerialInv'
<1> SUFFICES ASSUME SerialInv, Shift, arch' = arch, depth' = depth PROVE SerialInv'
  OBVIOUS
<1>1. SerialTypes /\ fifo \in Seq(Pairs) /\ wire \in Seq(Pairs) /\ depth \in Nat
  BY DEF SerialInv, SerialTypes
<1>2. /\ point' = point /\ text' = text /\ asked' = asked /\ lost' = lost /\ irqs' = irqs
      /\ fifo # <<>> /\ wire' = Append(wire, Head(fifo)) /\ fifo' = Tail(fifo)
  BY DEF Shift
<1>3. /\ Head(fifo) \in Pairs /\ fifo' \in Seq(Pairs) /\ wire' \in Seq(Pairs)
      /\ Len(fifo) \in Nat /\ Len(fifo') = Len(fifo) - 1
  BY <1>1, <1>2
<1>4. wire' \o fifo' = wire \o fifo
  <2>1. (wire \o <<Head(fifo)>>) \o Tail(fifo) = wire \o fifo
    BY <1>1, <1>2, MoveHead
  <2>2. wire' = wire \o <<Head(fifo)>>
    BY <1>1, <1>2, <1>3, AppendOne
  <2> QED BY <1>2, <2>1, <2>2
<1>5. SerialTypes'
  BY <1>1, <1>2, <1>3 DEF SerialTypes
<1>6. \A c \in Contexts : Out(c)' = Out(c)
  BY <1>4, Zenon DEF Out
<1>7. ASSUME NEW c \in Contexts PROVE Due(c)' = Due(c)
  BY <1>1, <1>2, SameDue
<1>8. X86Inv'
  <2>1. point["irq"] # "return" \/ arch # "x86_64"
    BY <1>2 DEF SerialInv, X86Inv
  <2> QED
    BY <1>2, <1>3, <1>6, <1>7, <2>1 DEF SerialInv, X86Inv
<1>9. ArmInv'
  BY <1>1, <1>2, <1>3, <1>6, <1>7 DEF SerialInv, ArmInv
<1> QED BY <1>5, <1>8, <1>9 DEF SerialInv

\* A context that runs: the handler, or the kernel while the handler has nothing to do.
LEMMA RunsFields ==
  ASSUME SerialTypes, NEW c \in Contexts, Runs(c)
  PROVE  /\ text[c] \in Seq(Nat) /\ text[c] # <<>> /\ asked[c] \in Seq(Nat)
         /\ Head(text[c]) \in Nat /\ Tail(text[c]) \in Seq(Nat)
         /\ c = "main" => text["irq"] = <<>> /\ point["irq"] = "wait"
         /\ c = "irq" => irqs # 0
<1>1. text[c] \in Seq(Nat) /\ text[c] # <<>> /\ asked[c] \in Seq(Nat)
  BY DEF SerialTypes, Runs
<1>2. Head(text[c]) \in Nat /\ Tail(text[c]) \in Seq(Nat)
  BY <1>1
<1>3. c = "main" => text["irq"] = <<>> /\ point["irq"] = "wait"
  BY DEF SerialTypes, Runs, Contexts
<1>4. c = "irq" => irqs # 0
  BY <1>1 DEF SerialTypes
<1> QED BY <1>1, <1>2, <1>3, <1>4

\* A test of the status register that succeeds.
LEMMA WaitSerial ==
  ASSUME SerialInv, NEW c \in Contexts, Runs(c), TxReady, NEW next,
         \/ point[c] = "wait" /\ next = (IF Head(text[c]) = LF THEN "again" ELSE "data")
         \/ point[c] = "again" /\ next = "return",
         point' = [point EXCEPT ![c] = next],
         UNCHANGED <<arch, depth, text, fifo, wire, asked, lost, irqs>>
  PROVE  SerialInv'
<1>1. /\ SerialTypes /\ depth \in Nat \ {0} /\ point[c] # "data"
      /\ next \in {"again", "data", "return"}
  BY DEF SerialInv, SerialTypes
<1>2. /\ arch' = arch /\ depth' = depth /\ text' = text /\ fifo' = fifo /\ wire' = wire
      /\ asked' = asked /\ lost' = lost /\ irqs' = irqs
  OBVIOUS
<1>3. /\ point' \in [Contexts -> Points] /\ point'[c] = next
      /\ \A d \in Contexts : d # c => point'[d] = point[d]
  BY <1>1 DEF SerialTypes, Points
<1>4. /\ text[c] # <<>> /\ (c = "main" => text["irq"] = <<>> /\ point["irq"] = "wait")
      /\ (c = "irq" => irqs # 0)
  BY <1>1, RunsFields
<1>5. next \in {"again", "return"} => Head(text[c]) = LF
  <2>1. point[c] = "again" => Head(text[c]) = LF
    BY <1>1 DEF SerialTypes
  <2> QED BY <2>1
<1>6. next = "data" => Head(text[c]) # LF
  OBVIOUS
<1>7. SerialTypes'
  <2>1. ASSUME NEW d \in Contexts
        PROVE  /\ text'[d] = <<>> => point'[d] = "wait"
               /\ point'[d] \in {"again", "return"} => Head(text'[d]) = LF
    <3>1. CASE d = c
      BY <1>2, <1>3, <1>4, <1>5, <3>1
    <3>2. CASE d # c
      BY <1>1, <1>2, <1>3, <3>2, Zenon DEF SerialTypes
    <3> QED BY <3>1, <3>2, Zenon
  <2> QED BY <1>1, <1>2, <1>3, <2>1 DEF SerialTypes
<1>8. \A d \in Contexts : Out(d)' = Out(d)
  BY <1>2, Zenon DEF Out
<1>9. ASSUME NEW d \in Contexts PROVE Due(d)' = Due(d)
  <2>1. asked'[d] = asked[d]
    BY <1>2
  <2>2. CASE d = c
    BY <1>1, <1>2, <1>3, <1>6, <2>1, <2>2, SameDue
  <2>3. CASE d # c
    BY <1>1, <1>2, <1>3, <2>1, <2>3, SameDue
  <2> QED BY <2>2, <2>3
<1>10. X86Inv'
  <2> SUFFICES ASSUME arch = "x86_64" PROVE X86Inv'
    BY <1>2 DEF X86Inv
  <2>1. fifo = <<>> /\ Len(fifo) = 0
    BY DEF TxReady
  <2> QED
    BY <1>2, <1>8, <1>9, <2>1 DEF SerialInv, X86Inv
<1>11. ArmInv'
  <2> SUFFICES ASSUME arch = "arm64" PROVE ArmInv'
    BY <1>2, Zenon DEF ArmInv
  <2>1. Len(fifo) < depth
    BY DEF TxReady
  <2> QED
    BY <1>2, <1>8, <1>9, <2>1, Zenon DEF SerialInv, ArmInv
<1> QED BY <1>7, <1>10, <1>11 DEF SerialInv

\* The '\r' that goes before a newline is one character more that is due.
LEMMA DueReturn ==
  ASSUME SerialTypes, NEW c \in Contexts, CarriageReturn(c)
  PROVE  Due(c)' = Due(c) \o <<CR>> /\ \A d \in Contexts : d # c => Due(d)' = Due(d)
<1>1. /\ point[c] = "return" /\ Head(text[c]) = LF /\ text' = text /\ asked' = asked
      /\ point'[c] = "data" /\ \A d \in Contexts : d # c => point'[d] = point[d]
  BY DEF CarriageReturn, SerialTypes
<1>2. ASSUME NEW d \in Contexts, d # c PROVE Due(d)' = Due(d)
  BY <1>1, <1>2, SameDue
<1>3. Half(c) = <<>> /\ Half(c)' = <<CR>>
  BY <1>1 DEF Half
<1>4. Expand(asked[c]) \in Seq(Nat)
  BY SerialSequences, Zenon
<1>5. ASSUME NEW u \in Seq(Nat) PROVE u \o <<>> = u
  OBVIOUS
<1>6. Due(c) = Expand(asked[c])
  BY <1>3, <1>4, <1>5, Zenon DEF Due
<1>7. Due(c)' = Expand(asked[c]) \o <<CR>>
  BY <1>1, <1>3, Zenon DEF Due
<1> QED BY <1>2, <1>6, <1>7, Zenon

\* So is the character itself.
LEMMA DueData ==
  ASSUME SerialTypes, NEW c \in Contexts, Data(c)
  PROVE  /\ Due(c)' = Due(c) \o <<Head(text[c])>>
         /\ \A d \in Contexts : d # c => Due(d)' = Due(d)
<1> DEFINE ch == Head(text[c])
<1>1. /\ point[c] = "data" /\ point'[c] = "wait" /\ asked'[c] = Append(asked[c], ch)
      /\ \A d \in Contexts : d # c =>
           point'[d] = point[d] /\ text'[d] = text[d] /\ asked'[d] = asked[d]
  BY DEF Data, SerialTypes
<1>2. asked[c] \in Seq(Nat) /\ ch \in Nat
  BY RunsFields DEF Data
<1>3. ASSUME NEW d \in Contexts, d # c PROVE Due(d)' = Due(d)
  BY <1>1, <1>3, SameDue
<1>4. Expand(asked[c]) \in Seq(Nat)
  BY SerialSequences, Zenon
<1>5. /\ Expand(Append(asked[c], ch)) =
           Expand(asked[c]) \o (IF ch = LF THEN <<CR, LF>> ELSE <<ch>>)
      /\ Expand(Append(asked[c], ch)) \in Seq(Nat)
  <2>1. Append(asked[c], ch) \in Seq(Nat)
    BY <1>2
  <2> QED BY <1>2, <2>1, ExpandAppend, Zenon
<1>6. ASSUME NEW u \in Seq(Nat) PROVE u \o <<>> = u
  OBVIOUS
<1>7. ASSUME NEW u \in Seq(Nat) PROVE u \o <<13, 10>> = (u \o <<13>>) \o <<10>>
  OBVIOUS
<1>8. Half(c)' = <<>> /\ Half(c) = IF ch = LF THEN <<CR>> ELSE <<>>
  BY <1>1, Zenon DEF Half
<1>9. Due(c)' = Expand(asked[c]) \o (IF ch = LF THEN <<CR, LF>> ELSE <<ch>>)
  BY <1>1, <1>5, <1>6, <1>8, Zenon DEF Due
<1>10. CASE ch = LF
  <2>1. Due(c)' = Expand(asked[c]) \o <<13, 10>> /\ Due(c) = Expand(asked[c]) \o <<13>>
    BY <1>8, <1>9, <1>10, Zenon DEF Due, LF, CR
  <2>2. <<ch>> = <<10>>
    BY <1>10, Zenon DEF LF
  <2> QED BY <1>3, <1>4, <1>7, <2>1, <2>2, Zenon
<1>11. CASE ch # LF
  <2>1. Due(c)' = Expand(asked[c]) \o <<ch>> /\ Due(c) = Expand(asked[c])
    BY <1>4, <1>6, <1>8, <1>9, <1>11, Zenon DEF Due
  <2> QED BY <1>3, <2>1, Zenon
<1> QED BY <1>10, <1>11

\* A write makes the FIFO longer by at most one character.
LEMMA WriteLength ==
  ASSUME SerialTypes, NEW c \in Contexts, NEW ch \in Nat, WriteData(c, ch)
  PROVE  /\ fifo' \in Seq(Pairs) /\ lost' \in Seq(Pairs)
         /\ Len(fifo) \in Nat /\ Len(fifo') \in Nat /\ Len(fifo') <= Len(fifo) + 1
<1>1. <<c, ch>> \in Pairs
  BY DEF Pairs
<1>2. fifo \in Seq(Pairs) /\ lost \in Seq(Pairs)
  BY DEF SerialTypes
<1>3. ASSUME NEW u \in Seq(Pairs), NEW e \in Pairs
      PROVE  Append(u, e) \in Seq(Pairs) /\ Len(u) \in Nat /\ Len(Append(u, e)) = Len(u) + 1
  OBVIOUS
<1>4. fifo' \in Seq(Pairs) /\ lost' \in Seq(Pairs)
  BY <1>1, <1>2, <1>3, Zenon DEF WriteData
<1>5. fifo' = fifo \/ fifo' = Append(fifo, <<c, ch>>)
  BY Zenon DEF WriteData
<1>6. Len(fifo) \in Nat /\ Len(Append(fifo, <<c, ch>>)) = Len(fifo) + 1
  BY <1>1, <1>2, <1>3, Zenon
<1> QED BY <1>4, <1>5, <1>6

\* On x86_64 every write finds room; on arm64 one does that follows a wait and is
\* not interrupted.
LEMMA RoomLeft ==
  ASSUME SerialInv, NEW c \in Contexts, Runs(c), point[c] \in {"return", "data"}
  PROVE  /\ arch = "x86_64" => Len(fifo) < depth
         /\ arch = "arm64" =>
              \/ Len(fifo) < depth \/ (c = "main" /\ irqs # 0)
              \/ (point[c] = "data" /\ Head(text[c]) = LF)
<1>1. SerialTypes
  BY DEF SerialInv
<1>2. depth \in Nat /\ (arch = "x86_64" => depth >= 4) /\ Len(fifo) \in Nat /\ Len(<<>>) = 0
  BY <1>1 DEF SerialTypes
<1>3. c = "main" \/ c = "irq"
  BY DEF Contexts
<1>4. ASSUME arch = "x86_64" PROVE Len(fifo) < depth
  <2>1. fifo = <<>> \/ Len(fifo) <= 1 \/ Len(fifo) <= 2 \/ Len(fifo) <= 3
    BY <1>3, <1>4 DEF SerialInv, X86Inv
  <2> QED BY <1>2, <1>4, <2>1
<1>5. ASSUME arch = "arm64"
      PROVE  \/ Len(fifo) < depth \/ (c = "main" /\ irqs # 0)
             \/ (point[c] = "data" /\ Head(text[c]) = LF)
  BY <1>3, <1>5 DEF SerialInv, ArmInv
<1> QED BY <1>4, <1>5

\* The carriage return before a newline keeps SerialInv.
LEMMA ReturnSerial ==
  ASSUME SerialInv, NEW c \in Contexts, CarriageReturn(c), UNCHANGED <<arch, depth>>
  PROVE  SerialInv'
<1>1. /\ SerialTypes /\ X86Inv /\ ArmInv
  BY DEF SerialInv
<1>2. /\ Runs(c) /\ point[c] = "return" /\ WriteData(c, CR) /\ text' = text /\ wire' = wire
      /\ asked' = asked /\ irqs' = irqs /\ point' = [point EXCEPT ![c] = "data"]
  BY DEF CarriageReturn
<1>3. /\ c = "main" => text["irq"] = <<>> /\ point["irq"] = "wait"
      /\ c = "irq" => irqs # 0
      /\ text[c] # <<>>
  BY <1>1, <1>2, RunsFields, Zenon
<1>4. CR \in Nat
  BY DEF CR
<1>5. /\ fifo' \in Seq(Pairs) /\ lost' \in Seq(Pairs)
      /\ Len(fifo) \in Nat /\ Len(fifo') \in Nat /\ Len(fifo') <= Len(fifo) + 1
  BY <1>1, <1>2, <1>4, WriteLength, Zenon
<1>6. /\ point' \in [Contexts -> Points] /\ point'[c] = "data" /\ Head(text[c]) = LF
      /\ \A d \in Contexts : d # c => point'[d] = point[d]
  BY <1>1, <1>2 DEF SerialTypes, Points
<1>7. SerialTypes'
  <2>1. ASSUME NEW d \in Contexts
        PROVE  /\ text'[d] = <<>> => point'[d] = "wait"
               /\ point'[d] \in {"again", "return"} => Head(text'[d]) = LF
    <3>1. CASE d = c
      BY <1>2, <1>3, <1>6, <3>1, Zenon
    <3>2. CASE d # c
      BY <1>1, <1>2, <1>6, <3>2, Zenon DEF SerialTypes
    <3> QED BY <3>1, <3>2
  <2> QED BY <1>1, <1>2, <1>5, <1>6, <2>1, Zenon DEF SerialTypes
<1>8. Due(c)' = Due(c) \o <<CR>> /\ \A d \in Contexts : d # c => Due(d)' = Due(d)
  BY <1>1, DueReturn, Zenon
<1>9. /\ arch = "x86_64" => Len(fifo) < depth
      /\ arch = "arm64" => Len(fifo) < depth \/ (c = "main" /\ irqs # 0)
  BY <1>2, RoomLeft
<1>10. /\ arch = "x86_64" => lost' = <<>> /\ \A d \in Contexts : Out(d)' = Due(d)'
       /\ arch = "arm64" =>
            \A d \in Contexts : d = "irq" \/ irqs = 0 =>
              /\ \A x \in DOMAIN lost' : lost'[x][1] = d => lost'[x][2] = LF
              /\ Rest(Out(d)') = Rest(Due(d)')
  BY <1>1, <1>2, <1>4, <1>8, <1>9, WriteKeeps, Zenon
<1>11. c = "main" \/ c = "irq"
  BY DEF Contexts
<1>12. "main" \in Contexts /\ "irq" \in Contexts
  BY DEF Contexts
<1>13. X86Inv'
  <2> SUFFICES ASSUME arch = "x86_64" PROVE X86Inv'
    BY DEF X86Inv
  <2>1. /\ point["irq"] = "return" => Len(fifo) = 0
        /\ point["main"] = "return" => Len(fifo) <= 2
    BY <1>1 DEF X86Inv
  <2>2. /\ point'["irq"] # "return" /\ (point'["irq"] = "data" => Len(fifo') <= 1)
        /\ (point'["main"] = "return" => Len(fifo') <= 2)
        /\ (point'["main"] = "data" => Len(fifo') <= 3)
    <3>1. CASE c = "main"
      BY <1>2, <1>3, <1>5, <1>6, <1>12, <2>1, <3>1
    <3>2. CASE c = "irq"
      BY <1>2, <1>5, <1>6, <1>12, <2>1, <3>2
    <3> QED BY <1>11, <3>1, <3>2
  <2> QED BY <1>10, <2>2 DEF X86Inv
<1>14. ArmInv'
  <2> SUFFICES ASSUME arch = "arm64" PROVE ArmInv'
    BY DEF ArmInv
  <2>1. ASSUME NEW d \in Contexts, d = "irq" \/ irqs = 0
        PROVE  ~ (point'[d] = "return" \/ (point'[d] = "data" /\ Head(text'[d]) # LF))
    BY <1>2, <1>3, <1>6, <1>11, <2>1 DEF Contexts
  <2> QED BY <1>2, <1>10, <2>1, Zenon DEF ArmInv
<1> QED BY <1>7, <1>13, <1>14 DEF SerialInv

\* The write of a character keeps SerialInv.
LEMMA DataSerial ==
  ASSUME SerialInv, NEW c \in Contexts, Data(c), UNCHANGED <<arch, depth>>
  PROVE  SerialInv'
<1> DEFINE ch == Head(text[c])
<1>1. /\ SerialTypes /\ X86Inv /\ ArmInv
  BY DEF SerialInv
<1>2. /\ Runs(c) /\ point[c] = "data" /\ WriteData(c, ch) /\ wire' = wire /\ irqs' = irqs
      /\ text' = [text EXCEPT ![c] = Tail(@)] /\ point' = [point EXCEPT ![c] = "wait"]
      /\ asked' = [asked EXCEPT ![c] = Append(@, ch)]
  BY DEF Data
<1>3. /\ c = "main" => text["irq"] = <<>> /\ point["irq"] = "wait"
      /\ c = "irq" => irqs # 0
      /\ ch \in Nat /\ Tail(text[c]) \in Seq(Nat) /\ asked[c] \in Seq(Nat)
  BY <1>1, <1>2, RunsFields, Zenon
<1>4. /\ fifo' \in Seq(Pairs) /\ lost' \in Seq(Pairs)
      /\ Len(fifo) \in Nat /\ Len(fifo') \in Nat /\ Len(fifo') <= Len(fifo) + 1
  BY <1>1, <1>2, <1>3, WriteLength, Zenon
<1>5. /\ point' \in [Contexts -> Points] /\ point'[c] = "wait"
      /\ \A d \in Contexts : d # c => point'[d] = point[d]
  BY <1>1, <1>2 DEF SerialTypes, Points
<1>6. /\ text' \in [Contexts -> Seq(Nat)] /\ \A d \in Contexts : d # c => text'[d] = text[d]
  BY <1>1, <1>2, <1>3 DEF SerialTypes
<1>7. asked' \in [Contexts -> Seq(Nat)]
  <2>1. Append(asked[c], ch) \in Seq(Nat)
    BY <1>3
  <2> HIDE DEF ch
  <2> QED BY <1>1, <1>2, <2>1 DEF SerialTypes
<1> HIDE DEF ch
<1>8. "main" \in Contexts /\ "irq" \in Contexts /\ (c = "main" \/ c = "irq")
  BY DEF Contexts
<1>9. SerialTypes'
  <2>1. ASSUME NEW d \in Contexts
        PROVE  /\ text'[d] = <<>> => point'[d] = "wait"
               /\ point'[d] \in {"again", "return"} => Head(text'[d]) = LF
    <3>1. CASE d = c
      BY <1>5, <3>1
    <3>2. CASE d # c
      BY <1>1, <1>5, <1>6, <3>2 DEF SerialTypes
    <3> QED BY <3>1, <3>2
  <2>2. irqs' = 0 => text'["irq"] = <<>>
    BY <1>1, <1>2, <1>3, <1>6, <1>8 DEF SerialTypes
  <2> QED BY <1>1, <1>2, <1>4, <1>5, <1>6, <1>7, <2>1, <2>2, Zenon DEF SerialTypes
<1>10. Due(c)' = Due(c) \o <<ch>> /\ \A d \in Contexts : d # c => Due(d)' = Due(d)
  BY <1>1, DueData, Zenon DEF ch
<1>11. /\ arch = "x86_64" => Len(fifo) < depth
       /\ arch = "arm64" => Len(fifo) < depth \/ ch = LF \/ (c = "main" /\ irqs # 0)
  BY <1>2, RoomLeft DEF ch
<1>12. /\ arch = "x86_64" => lost' = <<>> /\ \A d \in Contexts : Out(d)' = Due(d)'
       /\ arch = "arm64" =>
            \A d \in Contexts : d = "irq" \/ irqs = 0 =>
              /\ \A x \in DOMAIN lost' : lost'[x][1] = d => lost'[x][2] = LF
              /\ Rest(Out(d)') = Rest(Due(d)')
  BY <1>1, <1>2, <1>3, <1>10, <1>11, WriteKeeps, Zenon
<1>13. X86Inv'
  <2> SUFFICES ASSUME arch = "x86_64" PROVE X86Inv'
    BY DEF X86Inv
  <2>1. point["irq"] = "data" => Len(fifo) <= 1
    BY <1>1 DEF X86Inv
  <2>2. /\ point'["irq"] # "return" /\ point'["irq"] # "data"
        /\ (point'["main"] = "return" => Len(fifo') <= 2)
        /\ (point'["main"] = "data" => Len(fifo') <= 3)
    <3>1. CASE c = "main"
      BY <1>3, <1>5, <1>8, <3>1
    <3>2. CASE c = "irq"
      BY <1>2, <1>4, <1>5, <1>8, <2>1, <3>2
    <3> QED BY <1>8, <3>1, <3>2
  <2> QED BY <1>12, <2>2 DEF X86Inv
<1>14. ArmInv'
  <2> SUFFICES ASSUME arch = "arm64" PROVE ArmInv'
    BY DEF ArmInv
  <2>1. ASSUME NEW d \in Contexts, d = "irq" \/ irqs = 0
        PROVE  ~ (point'[d] = "return" \/ (point'[d] = "data" /\ Head(text'[d]) # LF))
    BY <1>3, <1>5, <1>8, <2>1 DEF Contexts
  <2> QED BY <1>2, <1>12, <2>1, Zenon DEF ArmInv
<1> QED BY <1>9, <1>13, <1>14 DEF SerialInv

\* Every access to the device.
LEMMA TransmitSerial == SerialInv /\ Transmit => SerialInv'
<1> SUFFICES ASSUME SerialInv, Transmit PROVE SerialInv'
  OBVIOUS
<1>1. arch' = arch /\ depth' = depth
  BY DEF Transmit
<1>2. CASE Interrupt \/ Shift
  BY <1>1, <1>2, InterruptSerial, ShiftSerial
<1>3. ASSUME NEW c \in Contexts, uart_putc(c) PROVE SerialInv'
  <2>1. CASE uart_init(c)
    <3>1. /\ text' = text /\ point' = point /\ fifo' = fifo /\ wire' = wire /\ asked' = asked
          /\ lost' = lost /\ irqs' = irqs
      BY <2>1 DEF uart_init
    <3>2. SerialTypes' /\ SerialTypes
      BY <1>1, <3>1 DEF SerialInv, SerialTypes
    <3>3. ASSUME NEW d \in Contexts PROVE Out(d)' = Out(d) /\ Due(d)' = Due(d)
      BY <3>1, Zenon DEF Out, Due, Half
    <3>4. X86Inv'
      BY <1>1, <3>1, <3>3 DEF SerialInv, X86Inv
    <3>5. ArmInv'
      BY <1>1, <3>1, <3>3, Zenon DEF SerialInv, ArmInv
    <3> QED BY <3>2, <3>4, <3>5 DEF SerialInv
  <2>2. CASE Wait(c)
    <3> DEFINE next == IF Head(text[c]) = LF THEN "again" ELSE "data"
    <3>1. /\ Runs(c) /\ TxReady /\ point[c] = "wait" /\ point' = [point EXCEPT ![c] = next]
          /\ UNCHANGED <<arch, depth, text, fifo, wire, asked, lost, irqs>>
      BY <1>1, <2>2 DEF Wait
    <3> QED BY <3>1, WaitSerial, Zenon
  <2>3. CASE WaitAgain(c)
    <3>1. /\ Runs(c) /\ TxReady /\ point[c] = "again" /\ point' = [point EXCEPT ![c] = "return"]
          /\ UNCHANGED <<arch, depth, text, fifo, wire, asked, lost, irqs>>
      BY <1>1, <2>3 DEF WaitAgain
    <3> QED BY <3>1, WaitSerial, Zenon
  <2>4. CASE CarriageReturn(c)
    <3>1. UNCHANGED <<arch, depth>>
      BY <1>1
    <3> QED BY <2>4, <3>1, ReturnSerial, Zenon
  <2>5. CASE Data(c)
    <3>1. UNCHANGED <<arch, depth>>
      BY <1>1
    <3> QED BY <2>5, <3>1, DataSerial, Zenon
  <2> QED BY <1>3, <2>1, <2>2, <2>3, <2>4, <2>5, Zenon DEF uart_putc
<1> QED BY <1>2, <1>3, Zenon DEF Transmit

\* A step that is none for the serial line.
LEMMA IdleSerial == SerialInv /\ UNCHANGED <<SerialRest, text>> => SerialInv'
<1> SUFFICES ASSUME SerialInv, UNCHANGED <<SerialRest, text>> PROVE SerialInv'
  OBVIOUS
<1>1. /\ arch' = arch /\ depth' = depth /\ point' = point /\ fifo' = fifo /\ wire' = wire
      /\ asked' = asked /\ lost' = lost /\ irqs' = irqs /\ text' = text
  BY DEF SerialRest
<1>2. SerialTypes'
  BY <1>1 DEF SerialInv, SerialTypes
<1>3. ASSUME NEW d \in Contexts PROVE Out(d)' = Out(d) /\ Due(d)' = Due(d)
  BY <1>1, Zenon DEF Out, Due, Half
<1>4. X86Inv'
  BY <1>1, <1>3 DEF SerialInv, X86Inv
<1>5. ArmInv'
  BY <1>1, <1>3 DEF SerialInv, ArmInv
<1> QED BY <1>2, <1>4, <1>5 DEF SerialInv

\* The device takes the characters of the kernel from its text, one by one.
LEMMA MainMoves ==
  ASSUME SerialTypes, Transmit
  PROVE  /\ asked'["main"] \o text'["main"] = asked["main"] \o text["main"]
         /\ text["main"] = <<>> => text'["main"] = <<>> /\ asked'["main"] = asked["main"]
<1>1. /\ "main" \in Contexts /\ text["main"] \in Seq(Nat) /\ asked["main"] \in Seq(Nat)
  BY DEF SerialTypes, Contexts
<1>2. CASE Data("main")
  <2>1. text["main"] # <<>>
    BY <1>2 DEF Data, Runs
  <2>2. /\ asked'["main"] = Append(asked["main"], Head(text["main"]))
        /\ text'["main"] = Tail(text["main"])
    BY <1>1, <1>2 DEF Data, SerialTypes
  <2>3. /\ Head(text["main"]) \in Nat
        /\ (asked["main"] \o <<Head(text["main"])>>) \o Tail(text["main"]) =
             asked["main"] \o text["main"]
    BY <1>1, <2>1, MoveHead, Zenon
  <2>4. Append(asked["main"], Head(text["main"])) = asked["main"] \o <<Head(text["main"])>>
    BY <1>1, <2>3, AppendOne, Zenon
  <2> QED BY <2>1, <2>2, <2>3, <2>4, Zenon
<1>3. CASE ~Data("main")
  <2>1. asked'["main"] = asked["main"] /\ text'["main"] = text["main"]
    <3>1. CASE Interrupt \/ Shift
      <4>1. CASE Shift
        BY <4>1 DEF Shift
      <4>2. CASE Interrupt
        <5>1. asked' = asked /\ text' = [text EXCEPT !["irq"] = IrqText]
          BY <4>2 DEF Interrupt
        <5>2. text \in [Contexts -> Seq(Nat)]
          BY DEF SerialTypes
        <5> QED BY <1>1, <5>1, <5>2
      <4> QED BY <3>1, <4>1, <4>2
    <3>2. ASSUME NEW c \in Contexts, uart_putc(c)
          PROVE  asked'["main"] = asked["main"] /\ text'["main"] = text["main"]
      <4>1. CASE Data(c)
        <5>1. c # "main"
          BY <1>3, <4>1
        <5> QED BY <1>1, <4>1, <5>1 DEF Data, SerialTypes
      <4>2. CASE uart_init(c) \/ Wait(c) \/ WaitAgain(c) \/ CarriageReturn(c)
        BY <4>2 DEF uart_init, Wait, WaitAgain, CarriageReturn
      <4> QED BY <3>2, <4>1, <4>2, Zenon DEF uart_putc
    <3> QED BY <3>1, <3>2, Zenon DEF Transmit
  <2> QED BY <2>1
<1> QED BY <1>2, <1>3, Zenon
============================================================================
