---------------------------- MODULE FormatProofs -----------------------------
(***************************************************************************)
(* The formatters as functions, for every format and buffer size: the      *)
(* digits of a number and the value they read back as, the characters and  *)
(* operations of a conversion, and the loops of vsprintf_impl and vsprintf,*)
(* whose turns do one operation or one conversion each.                    *)
(***************************************************************************)
EXTENDS Console, UartProofs
----------------------------------------------------------------------------
(* Numbers.                                                                *)

Bases == {10, 16}

\* Division by a base leaves less.
LEMMA Shorter ==
  ASSUME NEW base \in Bases, NEW v \in Nat
  PROVE  /\ v \div base \in Nat /\ v % base \in 0 .. 15
         /\ v = (v \div base) * base + (v % base)
         /\ v \div base <= v /\ (v # 0 => v \div base < v)
<1>1. CASE base = 10
  BY <1>1
<1>2. CASE base = 16
  BY <1>2
<1> QED BY <1>1, <1>2 DEF Bases

\* The digits of the numbers up to v, the last one first.
Low(v, base, g) ==
  g = [x \in 0 .. v |-> IF x = 0 THEN <<>> ELSE <<DigitChar(x % base)>> \o g[x \div base]]

\* The digits of the numbers up to v are defined.
LEMMA LowExists ==
  ASSUME NEW base \in Bases, NEW v \in Nat
  PROVE  \E g : Low(v, base, g)
<1> DEFINE S == {m \in Nat : \E g : Low(m, base, g)}
<1>1. 0 \in S
  <2> DEFINE h == [x \in 0 .. 0 |-> <<>>]
  <2>1. Low(0, base, h)
    BY DEF Low
  <2> QED BY <2>1
<1>2. ASSUME NEW m \in Nat, m \in S PROVE m + 1 \in S
  <2>1. PICK g : Low(m, base, g)
    BY <1>2
  <2> DEFINE h == [x \in 0 .. m + 1 |->
                     IF x = m + 1 THEN <<DigitChar(x % base)>> \o g[x \div base] ELSE g[x]]
             e(x) == IF x = 0 THEN <<>> ELSE <<DigitChar(x % base)>> \o h[x \div base]
  <2>2. ASSUME NEW x \in 0 .. m + 1 PROVE h[x] = e(x)
    <3>1. x \in Nat /\ (x # 0 => x \div base \in 0 .. m + 1 /\ x \div base # m + 1)
      BY Shorter
    <3>2. x # 0 => h[x \div base] = g[x \div base]
      BY <3>1
    <3>3. CASE x = m + 1
      <4>1. x # 0 /\ h[x] = <<DigitChar(x % base)>> \o g[x \div base]
        BY <3>3
      <4> QED BY <3>2, <4>1, Zenon
    <3>4. CASE x # m + 1
      <4>1. x \in 0 .. m /\ h[x] = g[x]
        BY <3>4
      <4>2. g[x] = IF x = 0 THEN <<>> ELSE <<DigitChar(x % base)>> \o g[x \div base]
        BY <2>1, <4>1, Zenon DEF Low
      <4> QED BY <3>2, <4>1, <4>2, Zenon
    <3> QED BY <3>3, <3>4
  <2>3. Low(m + 1, base, h)
    <3>1. h = [x \in 0 .. m + 1 |-> h[x]]
      OBVIOUS
    <3>2. h = [x \in 0 .. m + 1 |-> e(x)]
      <4> HIDE DEF h, e
      <4> QED BY <2>2, <3>1, Zenon
    <3> QED BY <3>2, Zenon DEF Low
  <2>4. m + 1 \in Nat
    OBVIOUS
  <2> HIDE DEF h
  <2> QED BY <2>3, <2>4, Zenon
<1> HIDE DEF S
<1>3. Nat \subseteq S
  BY <1>1, <1>2, AllNaturals
<1> QED BY <1>3 DEF S

\* They do not depend on v, and are characters.
LEMMA LowSame ==
  ASSUME NEW base \in Bases, NEW v \in Nat, NEW w \in Nat, NEW g, NEW h,
         Low(v, base, g), Low(w, base, h), NEW x \in Nat, x <= v, x <= w
  PROVE  g[x] = h[x] /\ g[x] \in Seq(Nat)
<1> DEFINE S == {m \in Nat : \A y \in 0 .. m : y <= v /\ y <= w => g[y] = h[y] /\ g[y] \in Seq(Nat)}
<1>1. ASSUME NEW y \in Nat, y <= v, y <= w
      PROVE  /\ g[y] = IF y = 0 THEN <<>> ELSE <<DigitChar(y % base)>> \o g[y \div base]
             /\ h[y] = IF y = 0 THEN <<>> ELSE <<DigitChar(y % base)>> \o h[y \div base]
  <2>1. y \in 0 .. v /\ y \in 0 .. w
    BY <1>1
  <2> QED BY <2>1, Zenon DEF Low
<1>2. 0 \in S
  <2>1. g[0] = <<>> /\ h[0] = <<>> /\ <<>> \in Seq(Nat)
    <3>1. 0 \in 0 .. v /\ 0 \in 0 .. w
      OBVIOUS
    <3>2. g[0] = <<>> /\ h[0] = <<>>
      BY <3>1, Zenon DEF Low
    <3> QED BY <3>2
  <2>2. \A y \in 0 .. 0 : y = 0
    OBVIOUS
  <2>3. \A y \in 0 .. 0 : g[y] = h[y] /\ g[y] \in Seq(Nat)
    BY <2>1, <2>2, Zenon
  <2> QED BY <2>3
<1>3. ASSUME NEW m \in Nat, m \in S PROVE m + 1 \in S
  <2> SUFFICES ASSUME NEW y \in 0 .. m + 1, y <= v, y <= w
               PROVE  g[y] = h[y] /\ g[y] \in Seq(Nat)
    OBVIOUS
  <2>1. CASE y \in 0 .. m
    BY <1>3, <2>1
  <2>2. CASE y = m + 1
    <3> DEFINE z == y \div base
    <3>1. y \in Nat /\ y # 0 /\ z \in 0 .. m /\ z <= v /\ z <= w
      BY <2>2, Shorter
    <3>2. g[z] = h[z] /\ g[z] \in Seq(Nat)
      BY <1>3, <3>1
    <3>3. g[y] = <<DigitChar(y % base)>> \o g[z] /\ h[y] = <<DigitChar(y % base)>> \o h[z]
      BY <1>1, <3>1, Zenon
    <3>4. y % base \in 0 .. 15
      BY <3>1, Shorter
    <3>5. DigitChar(y % base) \in Nat
      <4> DEFINE d == y % base
      <4> HIDE DEF d
      <4>1. d \in 0 .. 15 => DigitChar(d) \in Nat
        BY DEF DigitChar, Zero
      <4> QED BY <3>4, <4>1 DEF d
    <3> HIDE DEF z
    <3> QED BY <3>2, <3>3, <3>5
  <2> QED BY <2>1, <2>2
<1> HIDE DEF S
<1>4. x \in S
  BY <1>2, <1>3, AllNaturals
<1> QED BY <1>4 DEF S

\* format_number: the last digit, then those of the rest.
LEMMA LowFirstStep ==
  ASSUME NEW base \in Bases, NEW v \in Nat
  PROVE  /\ LowFirst(v, base) \in Seq(Nat)
         /\ LowFirst(v, base) =
              IF v = 0 THEN <<>> ELSE <<DigitChar(v % base)>> \o LowFirst(v \div base, base)
<1>1. ASSUME NEW u \in Nat
      PROVE  \E g : Low(u, base, g) /\ LowFirst(u, base) = g[u]
  <2> DEFINE g == CHOOSE f : Low(u, base, f)
  <2>1. Low(u, base, g)
    BY LowExists, Zenon
  <2>2. LowFirst(u, base) = g[u]
    BY DEF LowFirst, Low
  <2> QED BY <2>1, <2>2, Zenon
<1> DEFINE w == v \div base
<1>2. w \in Nat /\ w <= v
  BY Shorter, Zenon
<1>3. PICK g : Low(v, base, g) /\ LowFirst(v, base) = g[v]
  BY <1>1
<1>4. PICK h : Low(w, base, h) /\ LowFirst(w, base) = h[w]
  BY <1>1, <1>2
<1>5. g[v] = IF v = 0 THEN <<>> ELSE <<DigitChar(v % base)>> \o g[w]
  <2>1. v \in 0 .. v
    OBVIOUS
  <2> QED BY <1>3, <2>1, Zenon DEF Low
<1> HIDE DEF w
<1>6. g[w] = h[w] /\ g[v] \in Seq(Nat)
  BY <1>2, <1>3, <1>4, LowSame
<1> QED BY <1>3, <1>4, <1>5, <1>6 DEF w

DigitVal(ch) == IF ch < 58 THEN ch - Zero ELSE ch - 87

\* The values of the beginnings of a sequence of digits.
Val(chars, base, g) ==
  g = [x \in 0 .. Len(chars) |-> IF x = 0 THEN 0 ELSE g[x - 1] * base + DigitVal(chars[x])]

\* The value of the prefixes of a text is defined.
LEMMA ValExists ==
  ASSUME NEW base \in Bases, NEW chars \in Seq(Nat)
  PROVE  \E g : Val(chars, base, g)
<1> DEFINE Part(m, g) ==
             g = [x \in 0 .. m |-> IF x = 0 THEN 0 ELSE g[x - 1] * base + DigitVal(chars[x])]
           S == {m \in Nat : \E g : Part(m, g)}
<1>1. 0 \in S
  <2> DEFINE h == [x \in 0 .. 0 |-> 0]
  <2>1. Part(0, h)
    <3>1. \A x \in 0 .. 0 : x = 0
      OBVIOUS
    <3> QED BY <3>1, Zenon
  <2> HIDE DEF Part, h
  <2> QED BY <2>1
<1>2. ASSUME NEW m \in Nat, m \in S PROVE m + 1 \in S
  <2>1. PICK g : Part(m, g)
    BY <1>2
  <2> DEFINE h == [x \in 0 .. m + 1 |->
                     IF x = m + 1 THEN g[x - 1] * base + DigitVal(chars[x]) ELSE g[x]]
             e(x) == IF x = 0 THEN 0 ELSE h[x - 1] * base + DigitVal(chars[x])
  <2>2. ASSUME NEW x \in 0 .. m + 1 PROVE h[x] = e(x)
    <3>1. x # 0 => x - 1 \in 0 .. m + 1 /\ x - 1 # m + 1
      OBVIOUS
    <3>2. x # 0 => h[x - 1] = g[x - 1]
      BY <3>1
    <3>3. CASE x = m + 1
      <4>1. x # 0 /\ h[x] = g[x - 1] * base + DigitVal(chars[x])
        BY <3>3
      <4> QED BY <3>2, <4>1
    <3>4. CASE x # m + 1
      <4>1. x \in 0 .. m /\ h[x] = g[x]
        BY <3>4
      <4>2. g[x] = IF x = 0 THEN 0 ELSE g[x - 1] * base + DigitVal(chars[x])
        BY <2>1, <4>1, Zenon
      <4> QED BY <3>2, <4>1, <4>2
    <3> QED BY <3>3, <3>4
  <2>3. Part(m + 1, h)
    <3>1. h = [x \in 0 .. m + 1 |-> h[x]]
      OBVIOUS
    <3>2. h = [x \in 0 .. m + 1 |-> e(x)]
      <4> HIDE DEF h, e
      <4> QED BY <2>2, <3>1, Zenon
    <3> QED BY <3>2, Zenon
  <2>4. m + 1 \in Nat
    OBVIOUS
  <2> HIDE DEF h, Part
  <2> QED BY <2>3, <2>4, Zenon
<1> HIDE DEF S
<1>3. Nat \subseteq S
  BY <1>1, <1>2, AllNaturals, Zenon
<1>4. Len(chars) \in S
  BY <1>3
<1> QED BY <1>4, Zenon DEF S, Val

\* ValueOf is the last of them.
LEMMA ValueIs ==
  ASSUME NEW base \in Bases, NEW chars \in Seq(Nat)
  PROVE  \E g : Val(chars, base, g) /\ ValueOf(chars, base) = g[Len(chars)]
<1> DEFINE g == CHOOSE f : Val(chars, base, f)
<1>1. Val(chars, base, g)
  BY ValExists, Zenon
<1>2. ValueOf(chars, base) = g[Len(chars)]
  BY DEF ValueOf, Val, DigitVal
<1> QED BY <1>1, <1>2, Zenon

\* A digit more multiplies the value by the base and adds that digit.
LEMMA ValueAppend ==
  ASSUME NEW base \in Bases, NEW chars \in Seq(Nat), NEW ch \in Nat
  PROVE  ValueOf(Append(chars, ch), base) = ValueOf(chars, base) * base + DigitVal(ch)
<1> DEFINE more == Append(chars, ch)
<1>1. /\ more \in Seq(Nat) /\ Len(chars) \in Nat /\ Len(more) = Len(chars) + 1
      /\ more[Len(chars) + 1] = ch /\ \A j \in 1 .. Len(chars) : more[j] = chars[j]
  OBVIOUS
<1> HIDE DEF more
<1>2. PICK g : Val(more, base, g) /\ ValueOf(more, base) = g[Len(more)]
  BY <1>1, ValueIs
<1>3. PICK h : Val(chars, base, h) /\ ValueOf(chars, base) = h[Len(chars)]
  BY ValueIs
<1> DEFINE S == {m \in Nat : m <= Len(chars) => g[m] = h[m]}
<1>4. 0 \in S
  <2>1. 0 \in 0 .. Len(more) /\ 0 \in 0 .. Len(chars)
    BY <1>1
  <2>2. g[0] = 0 /\ h[0] = 0
    BY <1>2, <1>3, <2>1, Zenon DEF Val
  <2> QED BY <2>2
<1>5. ASSUME NEW m \in Nat, m \in S PROVE m + 1 \in S
  <2> SUFFICES ASSUME m + 1 <= Len(chars) PROVE g[m + 1] = h[m + 1]
    OBVIOUS
  <2>1. /\ m + 1 \in 0 .. Len(more) /\ m + 1 \in 0 .. Len(chars) /\ m + 1 \in 1 .. Len(chars)
        /\ m + 1 # 0 /\ (m + 1) - 1 = m /\ m <= Len(chars)
    BY <1>1
  <2>2. /\ g[m + 1] = g[(m + 1) - 1] * base + DigitVal(more[m + 1])
        /\ h[m + 1] = h[(m + 1) - 1] * base + DigitVal(chars[m + 1])
    BY <1>2, <1>3, <2>1, Zenon DEF Val
  <2>3. g[m] = h[m] /\ more[m + 1] = chars[m + 1]
    BY <1>1, <1>5, <2>1
  <2> QED BY <2>1, <2>2, <2>3
<1> HIDE DEF S
<1>6. Len(chars) \in S
  BY <1>1, <1>4, <1>5, AllNaturals, Zenon
<1>7. g[Len(chars)] = h[Len(chars)]
  BY <1>1, <1>6 DEF S
<1>8. g[Len(chars) + 1] = g[(Len(chars) + 1) - 1] * base + DigitVal(more[Len(chars) + 1])
  <2>1. Len(chars) + 1 \in 0 .. Len(more) /\ Len(chars) + 1 # 0
    BY <1>1
  <2> QED BY <1>2, <2>1, Zenon DEF Val
<1>9. (Len(chars) + 1) - 1 = Len(chars)
  BY <1>1
<1> QED BY <1>1, <1>2, <1>3, <1>7, <1>8, <1>9 DEF more

\* Reversing turns a first element into the last.
LEMMA ReverseFirst ==
  ASSUME NEW S, NEW d \in S, NEW s \in Seq(S)
  PROVE  /\ Reversed(s) \in Seq(S) /\ Reversed(<<d>> \o s) \in Seq(S)
         /\ Reversed(<<d>> \o s) = Append(Reversed(s), d)
<1> DEFINE t == <<d>> \o s
           u == Append(Reversed(s), d)
<1>1. /\ t \in Seq(S) /\ Len(s) \in Nat /\ Len(t) = Len(s) + 1 /\ t[1] = d
      /\ \A j \in 1 .. Len(s) : t[j + 1] = s[j]
  OBVIOUS
<1>2. /\ Reversed(s) \in Seq(S) /\ Len(Reversed(s)) = Len(s)
      /\ \A j \in 1 .. Len(s) : Reversed(s)[j] = s[(Len(s) - j) + 1]
  BY <1>1 DEF Reversed
<1> HIDE DEF t
<1>3. /\ Reversed(t) \in Seq(S) /\ DOMAIN Reversed(t) = 1 .. Len(s) + 1
      /\ \A j \in 1 .. Len(s) + 1 : Reversed(t)[j] = t[(Len(t) - j) + 1]
  BY <1>1 DEF Reversed
<1>4. /\ u \in Seq(S) /\ DOMAIN u = 1 .. Len(s) + 1 /\ u[Len(s) + 1] = d
      /\ \A j \in 1 .. Len(s) : u[j] = Reversed(s)[j]
  <2> DEFINE v == Reversed(s)
  <2> HIDE DEF v
  <2>1. v \in Seq(S) /\ Len(v) = Len(s) => /\ Append(v, d) \in Seq(S) /\ DOMAIN Append(v, d) = 1 .. Len(s) + 1
                          /\ Append(v, d)[Len(s) + 1] = d /\ \A j \in 1 .. Len(s) : Append(v, d)[j] = v[j]
    OBVIOUS
  <2> QED BY <1>2, <2>1 DEF v
<1> HIDE DEF u
<1>5. ASSUME NEW j \in 1 .. Len(s) + 1 PROVE Reversed(t)[j] = u[j]
  <2>1. CASE j = Len(s) + 1
    <3>1. (Len(t) - j) + 1 = 1
      BY <1>1, <2>1
    <3> QED BY <1>1, <1>3, <1>4, <2>1, <3>1
  <2>2. CASE j \in 1 .. Len(s)
    <3> DEFINE i == (Len(s) - j) + 1
    <3>1. i \in 1 .. Len(s) /\ (Len(t) - j) + 1 = i + 1
      BY <1>1, <2>2
    <3> HIDE DEF i
    <3>2. t[i + 1] = s[i]
      BY <1>1, <3>1
    <3>3. Reversed(t)[j] = s[i]
      BY <1>3, <3>1, <3>2
    <3>4. u[j] = s[i]
      BY <1>2, <1>4, <2>2 DEF i
    <3> QED BY <3>3, <3>4
  <2> QED BY <1>1, <2>1, <2>2
<1>6. Reversed(t) = u
  <2>1. Reversed(t) = [j \in 1 .. Len(s) + 1 |-> Reversed(t)[j]] /\ u = [j \in 1 .. Len(s) + 1 |-> u[j]]
    BY <1>3, <1>4
  <2> QED BY <1>5, <2>1, Zenon
<1> QED BY <1>2, <1>3, <1>6 DEF t, u

\* The digits of a number, read back, are the number.
LEMMA DigitsBack ==
  ASSUME NEW base \in Bases, NEW v \in Nat
  PROVE  Digits(v, base) \in Seq(Nat) /\ ValueOf(Digits(v, base), base) = v
<1>0. ValueOf(<<>>, base) = 0
  <2>1. <<>> \in Seq(Nat) /\ Len(<<>>) = 0 /\ 0 \in 0 .. Len(<<>>)
    OBVIOUS
  <2>2. PICK g : Val(<<>>, base, g) /\ ValueOf(<<>>, base) = g[Len(<<>>)]
    BY <2>1, ValueIs, Zenon
  <2>3. g[0] = 0
    BY <2>1, <2>2, Zenon DEF Val
  <2> QED BY <2>1, <2>2, <2>3
<1>1. base \in Nat /\ \A d \in 0 .. 15 : DigitChar(d) \in Nat /\ DigitVal(DigitChar(d)) = d
  BY DEF Bases, DigitChar, DigitVal, Zero
<1> DEFINE R(m) == Reversed(LowFirst(m, base))
           S == {m \in Nat : \A y \in 0 .. m : R(y) \in Seq(Nat) /\ ValueOf(R(y), base) = y}
<1>2. R(0) = <<>>
  <2>1. LowFirst(0, base) = <<>>
    BY LowFirstStep, Zenon
  <2> QED BY <2>1 DEF Reversed
<1>3. 0 \in S
  <2>1. \A y \in 0 .. 0 : y = 0
    OBVIOUS
  <2> HIDE DEF R
  <2>2. R(0) \in Seq(Nat) /\ ValueOf(R(0), base) = 0
    BY <1>0, <1>2, EmptyIsSeq, Zenon
  <2> QED BY <2>1, <2>2
<1>4. ASSUME NEW m \in Nat, m \in S PROVE m + 1 \in S
  <2> SUFFICES ASSUME NEW y \in 0 .. m + 1 PROVE R(y) \in Seq(Nat) /\ ValueOf(R(y), base) = y
    OBVIOUS
  <2>1. CASE y \in 0 .. m
    BY <1>4, <2>1
  <2>2. CASE y = m + 1
    <3> DEFINE z == y \div base
               d == y % base
    <3>1. y \in Nat /\ y # 0 /\ z \in 0 .. m /\ z \in Nat /\ d \in 0 .. 15 /\ y = z * base + d
      BY <2>2, Shorter
    <3>2. LowFirst(z, base) \in Seq(Nat) /\ LowFirst(y, base) = <<DigitChar(d)>> \o LowFirst(z, base)
      BY <3>1, LowFirstStep, Zenon
    <3> HIDE DEF z, d
    <3>3. DigitChar(d) \in Nat /\ DigitVal(DigitChar(d)) = d
      BY <1>1, <3>1
    <3>4. R(y) = Append(R(z), DigitChar(d)) /\ R(y) \in Seq(Nat)
      BY <3>2, <3>3, ReverseFirst, Zenon
    <3>5. R(z) \in Seq(Nat) /\ ValueOf(R(z), base) = z
      BY <1>4, <3>1
    <3> HIDE DEF R
    <3>6. ValueOf(R(y), base) = z * base + d
      BY <3>3, <3>4, <3>5, ValueAppend
    <3> QED BY <3>1, <3>4, <3>6
  <2> QED BY <2>1, <2>2
<1>5. v \in S
  <2> HIDE DEF S
  <2> QED BY <1>3, <1>4, AllNaturals
<1>6. R(v) \in Seq(Nat) /\ ValueOf(R(v), base) = v
  BY <1>5
<1>7. CASE v = 0
  <2>1. PICK e \in Seq(Nat) : e = <<>>
    BY EmptyIsSeq, Zenon
  <2>2. Digits(v, base) = <<Zero>> /\ Zero \in Nat /\ DigitVal(Zero) = 0
    BY <1>7 DEF Digits, Zero, DigitVal
  <2>3. Digits(v, base) = Append(e, Zero) /\ Digits(v, base) \in Seq(Nat)
    BY <2>1, <2>2
  <2>4. ValueOf(Append(e, Zero), base) = ValueOf(e, base) * base + DigitVal(Zero)
    BY <2>2, ValueAppend, Zenon
  <2>5. ValueOf(e, base) = 0
    BY <1>0, <2>1, Zenon
  <2>6. 0 * base + 0 = 0
    BY <1>1
  <2> QED BY <1>7, <2>2, <2>3, <2>4, <2>5, <2>6, Zenon
<1>8. CASE v # 0
  BY <1>6, <1>8 DEF Digits
<1> QED BY <1>7, <1>8

----------------------------------------------------------------------------
(* Formats.                                                                *)

\* The operations of vsprintf_impl.
Operations == [op : {"both", "count", "skip", "force"}, ch : Nat]

\* Those that look for room.
Calm == {o \in Operations : o.op # "force"}

\* The text that operations leave in a buffer without end.
Shown(ops) == [x \in 1 .. Len(ops) |-> IF ops[x].op = "skip" THEN Unset ELSE ops[x].ch]

\* The fields of a conversion.
LEMMA ItemFields ==
  ASSUME NEW it \in Conversions
  PROVE  /\ it.conv \in {"literal", "%", "other", "c", "s", "number", "p"}
         /\ it.chars \in Seq(Nat) /\ it.width \in Nat /\ it.prec \in Int
         /\ it.left \in BOOLEAN /\ it.sign \in Nat /\ it.hash \in BOOLEAN
         /\ it.value \in Nat /\ it.base \in Bases
         /\ it.conv \notin {"s", "number", "p"} =>
              Len(it.chars) = 1 /\ it.width = 0 /\ it.prec = -1
  BY DEF Conversions, NoSign, Space, Minus, Bases

\* What vsprintf writes for a conversion is a text.
LEMMA PlainTyped ==
  ASSUME NEW it \in Conversions PROVE Plain(it) \in Seq(Nat)
<1>1. /\ it.conv \in {"literal", "%", "other", "c", "s", "number", "p"}
      /\ it.chars \in Seq(Nat) /\ it.value \in Nat /\ it.base \in Bases
  BY ItemFields
<1>2. CASE it.conv = "number"
  <2>1. Digits(it.value, it.base) \in Seq(Nat)
    BY <1>1, DigitsBack
  <2>2. (IF it.sign = Minus THEN <<Minus>> ELSE <<>>) \in Seq(Nat)
    BY DEF Minus
  <2> QED BY <1>2, <2>1, <2>2 DEF Plain
<1>3. CASE it.conv = "p"
  BY <1>1, <1>3 DEF Plain, Zero
<1>4. CASE it.conv = "other"
  BY <1>1, <1>4 DEF Plain, Percent
<1>5. CASE it.conv \in {"literal", "%", "c", "s"}
  BY <1>1, <1>5 DEF Plain
<1> QED BY <1>1, <1>2, <1>3, <1>4, <1>5

\* One more item adds its text.
LEMMA PlainAppend ==
  ASSUME NEW s \in Seq(Conversions), NEW e \in Conversions
  PROVE  /\ Text(Plain, s) \in Seq(Nat)
         /\ Text(Plain, Append(s, e)) = Text(Plain, s) \o Plain(e)
<1> DEFINE ss == [x \in DOMAIN s |-> Plain(s[x])]
           tt == [x \in DOMAIN Append(s, e) |-> Plain(Append(s, e)[x])]
<1>1. Len(s) \in Nat /\ DOMAIN s = 1 .. Len(s) /\ DOMAIN Append(s, e) = 1 .. Len(s) + 1
  OBVIOUS
<1>2. \A u \in Conversions : Plain(u) \in Seq(Nat)
  BY PlainTyped
<1>3. ss \in Seq(Seq(Nat))
  <2>1. \A x \in 1 .. Len(s) : s[x] \in Conversions
    OBVIOUS
  <2>2. \A x \in 1 .. Len(s) : ss[x] \in Seq(Nat)
    BY <1>1, <1>2, <2>1, Zenon
  <2>3. ss = [x \in 1 .. Len(s) |-> ss[x]]
    BY <1>1
  <2> HIDE DEF ss
  <2> QED BY <1>1, <2>2, <2>3
<1>4. tt = Append(ss, Plain(e))
  <2>1. /\ Append(ss, Plain(e)) \in Seq(Seq(Nat)) /\ Len(ss) = Len(s)
        /\ DOMAIN Append(ss, Plain(e)) = 1 .. Len(s) + 1
    BY <1>1, <1>2, <1>3
  <2>2. ASSUME NEW x \in 1 .. Len(s) + 1 PROVE tt[x] = Append(ss, Plain(e))[x]
    BY <1>1, <1>2, <1>3, <2>1
  <2> QED BY <1>1, <2>1, <2>2
<1>5. Joined(tt) = Joined(ss) \o Plain(e) /\ Joined(ss) \in Seq(Nat)
  <2> HIDE DEF ss, tt
  <2> QED BY <1>2, <1>3, <1>4, JoinedAppend, JoinedTyped
<1> QED
  BY <1>5, Zenon DEF Text

\* The digits vsprintf_impl writes for a conversion are a text.
LEMMA NumTextTyped ==
  ASSUME NEW it \in Conversions PROVE NumText(it) \in Seq(Nat)
<1>1. PointerText \in Seq(Nat)
  <2> DEFINE s == <<Literal(Zero), Literal(120), Item("other", <<108>>), Literal(120)>>
  <2>1. /\ Literal(Zero) \in Conversions /\ Literal(120) \in Conversions
        /\ Item("other", <<108>>) \in Conversions
    BY DEF Literal, Item, Conversions, Zero, NoSign
  <2>2. s \in Seq(Conversions)
    BY <2>1
  <2> HIDE DEF s
  <2>3. Text(Plain, s) \in Seq(Nat)
    BY <2>1, <2>2, PlainAppend, Zenon
  <2> QED BY <2>3, Zenon DEF PointerText, s
<1>2. Digits(it.value, it.base) \in Seq(Nat)
  BY ItemFields, DigitsBack
<1>3. <<>> \in Seq(Nat) /\ <<Zero, 120, Zero>> \in Seq(Nat)
      /\ <<IF it.sign = Minus THEN Minus ELSE 43, Zero>> \in Seq(Nat)
  BY DEF Zero, Minus
<1> QED
  BY <1>1, <1>2, <1>3, Zenon DEF NumText

\* The padding of a field has the length asked for.
LEMMA RepeatTyped ==
  ASSUME NEW S, NEW ch \in S, NEW times \in Int
  PROVE  /\ Repeat(ch, times) \in Seq(S)
         /\ Len(Repeat(ch, times)) = IF times > 0 THEN times ELSE 0
<1>1. CASE times > 0
  BY <1>1 DEF Repeat
<1>2. CASE ~ (times > 0)
  BY <1>2 DEF Repeat
<1> QED BY <1>1, <1>2

\* The operations of one kind show their characters.
LEMMA OpsShown ==
  ASSUME NEW chars \in Seq(Nat), NEW op \in {"both", "count", "skip", "force"}
  PROVE  /\ Ops(op, chars) \in Seq(Operations) /\ Len(Ops(op, chars)) = Len(chars)
         /\ op # "force" => Ops(op, chars) \in Seq(Calm)
         /\ Shown(Ops(op, chars)) = IF op = "skip" THEN Repeat(Unset, Len(chars)) ELSE chars
<1> DEFINE o(x) == [op |-> op, ch |-> chars[x]]
<1>1. Len(chars) \in Nat /\ \A x \in 1 .. Len(chars) : o(x) \in Operations /\ o(x).op = op /\ o(x).ch = chars[x]
  BY DEF Operations
<1>2. Ops(op, chars) = [x \in 1 .. Len(chars) |-> o(x)]
  BY DEF Ops
<1> HIDE DEF o
<1>3. Ops(op, chars) \in Seq(Operations) /\ Len(Ops(op, chars)) = Len(chars)
  BY <1>1, <1>2
<1>4. op # "force" => Ops(op, chars) \in Seq(Calm)
  <2> SUFFICES ASSUME op # "force" PROVE Ops(op, chars) \in Seq(Calm)
    OBVIOUS
  <2>1. \A x \in 1 .. Len(chars) : o(x) \in Calm
    BY <1>1 DEF Calm
  <2> QED BY <1>1, <1>2, <2>1
<1>5. Shown(Ops(op, chars)) = [x \in 1 .. Len(chars) |-> IF op = "skip" THEN Unset ELSE chars[x]]
  BY <1>1, <1>2, <1>3 DEF Shown
<1>6. op = "skip" => Shown(Ops(op, chars)) = Repeat(Unset, Len(chars))
  <2> SUFFICES ASSUME op = "skip" PROVE Shown(Ops(op, chars)) = Repeat(Unset, Len(chars))
    OBVIOUS
  <2>1. Shown(Ops(op, chars)) = [x \in 1 .. Len(chars) |-> Unset]
    BY <1>5
  <2>2. CASE Len(chars) > 0
    BY <2>1, <2>2 DEF Repeat
  <2>3. CASE ~ (Len(chars) > 0)
    <3>1. 1 .. Len(chars) = {} /\ Repeat(Unset, Len(chars)) = <<>>
      BY <1>1, <2>3 DEF Repeat
    <3>2. [x \in 1 .. Len(chars) |-> Unset] = <<>>
      BY <3>1
    <3> QED BY <2>1, <3>1, <3>2
  <2> QED BY <2>2, <2>3
<1>7. op # "skip" => Shown(Ops(op, chars)) = chars
  <2> SUFFICES ASSUME op # "skip" PROVE Shown(Ops(op, chars)) = chars
    OBVIOUS
  <2>1. Shown(Ops(op, chars)) = [x \in 1 .. Len(chars) |-> chars[x]]
    BY <1>5
  <2>2. chars = [x \in 1 .. Len(chars) |-> chars[x]]
    OBVIOUS
  <2> QED BY <2>1, <2>2, Zenon
<1> QED BY <1>3, <1>4, <1>6, <1>7

\* What two sequences of operations show.
LEMMA ShownConcat ==
  ASSUME NEW a \in Seq(Operations), NEW b \in Seq(Operations)
  PROVE  /\ Shown(a) \in Seq(Int) /\ Shown(b) \in Seq(Int)
         /\ Shown(a \o b) = Shown(a) \o Shown(b)
<1>1. ASSUME NEW s \in Seq(Operations)
      PROVE  /\ Shown(s) \in Seq(Int) /\ Len(Shown(s)) = Len(s)
             /\ \A x \in 1 .. Len(s) : Shown(s)[x] = IF s[x].op = "skip" THEN Unset ELSE s[x].ch
  <2>1. ASSUME NEW x \in 1 .. Len(s) PROVE (IF s[x].op = "skip" THEN Unset ELSE s[x].ch) \in Int
    <3>1. s[x] \in Operations
      OBVIOUS
    <3>2. \A u \in Operations : u.ch \in Int
      BY DEF Operations
    <3> QED BY <3>1, <3>2 DEF Unset
  <2> QED BY <2>1 DEF Shown
<1> DEFINE c == a \o b
<1>2. /\ c \in Seq(Operations) /\ Len(c) = Len(a) + Len(b) /\ Len(a) \in Nat /\ Len(b) \in Nat
      /\ \A x \in 1 .. Len(a) : c[x] = a[x]
      /\ \A x \in Len(a) + 1 .. Len(a) + Len(b) : c[x] = b[x - Len(a)]
  OBVIOUS
<1> HIDE DEF c
<1> DEFINE u == Shown(a)
           v == Shown(b)
           w == u \o v
<1>3. /\ w \in Seq(Int) /\ Len(w) = Len(a) + Len(b)
      /\ \A x \in 1 .. Len(a) : w[x] = u[x]
      /\ \A x \in Len(a) + 1 .. Len(a) + Len(b) : w[x] = v[x - Len(a)]
  <2>1. u \in Seq(Int) /\ Len(u) = Len(a) /\ v \in Seq(Int) /\ Len(v) = Len(b)
    BY <1>1
  <2> HIDE DEF u, v
  <2>2. /\ u \o v \in Seq(Int) /\ Len(u \o v) = Len(u) + Len(v)
        /\ \A x \in 1 .. Len(u) : (u \o v)[x] = u[x]
        /\ \A x \in Len(u) + 1 .. Len(u) + Len(v) : (u \o v)[x] = v[x - Len(u)]
    <3>1. \A x \in 1 .. Len(u) : (u \o v)[x] = u[x]
      BY <2>1
    <3>2. ASSUME NEW x \in Len(u) + 1 .. Len(u) + Len(v) PROVE (u \o v)[x] = v[x - Len(u)]
      <4>1. Len(u) \in Nat /\ Len(v) \in Nat
        BY <2>1
      <4>2. x \in 1 .. Len(u) + Len(v) /\ ~ (x <= Len(u))
        BY <4>1
      <4> QED BY <2>1, <4>2
    <3>3. u \o v \in Seq(Int) /\ Len(u \o v) = Len(u) + Len(v)
      <4>1. ASSUME NEW p \in Seq(Int), NEW q \in Seq(Int)
            PROVE  p \o q \in Seq(Int) /\ Len(p \o q) = Len(p) + Len(q)
        OBVIOUS
      <4> QED BY <2>1, <4>1, Zenon
    <3> QED BY <3>1, <3>2, <3>3, Zenon
  <2> QED BY <2>1, <2>2, Zenon
<1>4. Shown(c) \in Seq(Int) /\ Len(Shown(c)) = Len(a) + Len(b)
  BY <1>1, <1>2
<1> HIDE DEF w
<1>5. ASSUME NEW x \in 1 .. Len(a) + Len(b) PROVE Shown(c)[x] = w[x]
  <2>1. Shown(c)[x] = IF c[x].op = "skip" THEN Unset ELSE c[x].ch
    BY <1>1, <1>2, Zenon
  <2>2. CASE x \in 1 .. Len(a)
    <3>1. u[x] = IF a[x].op = "skip" THEN Unset ELSE a[x].ch
      BY <1>1, <2>2
    <3>2. w[x] = u[x] /\ c[x] = a[x]
      BY <1>2, <1>3, <2>2, Zenon
    <3> HIDE DEF u
    <3> QED BY <2>1, <3>1, <3>2
  <2>3. CASE x \in Len(a) + 1 .. Len(a) + Len(b)
    <3> DEFINE y == x - Len(a)
    <3>1. y \in 1 .. Len(b)
      BY <1>2, <2>3
    <3>2. w[x] = v[y] /\ c[x] = b[y]
      BY <1>2, <1>3, <2>3, Zenon
    <3> HIDE DEF y
    <3>3. v[y] = IF b[y].op = "skip" THEN Unset ELSE b[y].ch
      BY <1>1, <3>1
    <3> HIDE DEF v
    <3> QED BY <2>1, <3>2, <3>3
  <2>4. x \in 1 .. Len(a) \/ x \in Len(a) + 1 .. Len(a) + Len(b)
    BY <1>2
  <2> QED BY <2>2, <2>3, <2>4
<1>6. Shown(c) = w
  <2>1. Len(Shown(c)) = Len(w) /\ \A x \in 1 .. Len(Shown(c)) : Shown(c)[x] = w[x]
    BY <1>3, <1>4, <1>5
  <2> QED BY <1>3, <1>4, <2>1
<1> QED BY <1>1, <1>6 DEF c, w

\* Nothing more on either side.
LEMMA ConcatNothing ==
  ASSUME NEW S, NEW s \in Seq(S) PROVE s \o <<>> = s /\ <<>> \o s = s
  OBVIOUS

\* %s: the string, cut and padded.
LEMMA StringMeant ==
  ASSUME NEW it \in Conversions, it.conv = "s"
  PROVE  /\ Convert(it) \in Seq(Operations) /\ Convert(it) \in Seq(Calm)
         /\ Shown(Convert(it)) = Meant(it)
<1> DEFINE body == Cropped(it)
           pad == Repeat(Space, it.width - Len(body))
           whole == IF it.left THEN body \o pad ELSE pad \o body
<1>1. body \in Seq(Nat)
  BY ItemFields DEF Cropped
<1>2. pad \in Seq(Nat)
  <2>1. it.width - Len(body) \in Int /\ Space \in Nat
    BY <1>1, ItemFields DEF Space
  <2> QED BY <2>1, RepeatTyped, Zenon
<1>3. Convert(it) = Ops("count", whole)
  BY Zenon DEF Convert
<1>4. Meant(it) = whole
  BY Zenon DEF Meant
<1> HIDE DEF body, pad
<1>5. whole \in Seq(Nat)
  BY <1>1, <1>2
<1> HIDE DEF whole
<1>6. Ops("count", whole) \in Seq(Operations) /\ Ops("count", whole) \in Seq(Calm) /\ Shown(Ops("count", whole)) = whole
  BY <1>5, OpsShown
<1> QED BY <1>3, <1>4, <1>6

\* A character: as it is.
LEMMA CharMeant ==
  ASSUME NEW it \in Conversions, it.conv \in {"literal", "%", "other", "c"}
  PROVE  /\ Convert(it) \in Seq(Operations) /\ (it.conv # "c" => Convert(it) \in Seq(Calm))
         /\ Shown(Convert(it)) = Meant(it)
<1>1. /\ it.chars \in Seq(Nat) /\ Len(it.chars) = 1 /\ it.width = 0 /\ it.prec = -1
  BY ItemFields
<1>2. PICK o \in {"both", "count", "force"} : Convert(it) = Ops(o, it.chars) /\ (it.conv # "c" => o # "force")
  <2>1. CASE it.conv = "literal"
    BY <2>1, Zenon DEF Convert
  <2>2. CASE it.conv = "c"
    BY <2>2, Zenon DEF Convert
  <2>3. CASE it.conv \in {"%", "other"}
    BY <2>3, Zenon DEF Convert
  <2> QED BY <2>1, <2>2, <2>3
<1>3. /\ Ops(o, it.chars) \in Seq(Operations) /\ (o # "force" => Ops(o, it.chars) \in Seq(Calm))
      /\ Shown(Ops(o, it.chars)) = it.chars
  BY <1>1, OpsShown
<1>4. Cropped(it) = it.chars
  BY <1>1 DEF Cropped
<1>5. Repeat(Space, it.width - Len(it.chars)) = <<>>
  BY <1>1 DEF Repeat
<1>6. it.chars \o <<>> = it.chars /\ <<>> \o it.chars = it.chars
  BY <1>1, ConcatNothing
<1>7. Meant(it) = IF it.left THEN it.chars \o <<>> ELSE <<>> \o it.chars
  BY <1>4, <1>5, Zenon DEF Meant
<1> QED BY <1>2, <1>3, <1>6, <1>7

\* A number: its sign and the places of its digits, filled with zeros on the left or
\* with spaces on the right.
LEMMA NumberMeant ==
  ASSUME NEW it \in Conversions, it.conv \in {"number", "p"}
  PROVE  /\ Convert(it) \in Seq(Operations) /\ Convert(it) \in Seq(Calm)
         /\ Shown(Convert(it)) = Meant(it)
<1> DEFINE num == NumText(it)
           sig == SignText(it)
           gap == Repeat(Unset, Len(num))
           pad == (it.width - Len(num)) - Len(sig)
           zeros == Repeat(Zero, pad)
           spaces == Repeat(Space, pad)
<1>1. num \in Seq(Nat) /\ sig \in Seq(Nat) /\ it.width \in Nat
  BY NumTextTyped, ItemFields DEF SignText
<1> HIDE DEF num, sig
<1>2. pad \in Int /\ gap \in Seq(Int) /\ Len(gap) = Len(num)
  <2>1. Len(num) \in Nat /\ Len(sig) \in Nat /\ Len(num) \in Int /\ Unset \in Int
    BY <1>1 DEF Unset
  <2>2. gap \in Seq(Int) /\ Len(gap) = IF Len(num) > 0 THEN Len(num) ELSE 0
    BY <2>1, RepeatTyped, Zenon
  <2> QED BY <1>1, <2>1, <2>2
<1>3. it.width - Len(sig \o gap) = pad
  <2>1. sig \in Seq(Int)
    BY <1>1
  <2> HIDE DEF gap
  <2>2. Len(sig \o gap) = Len(sig) + Len(num)
    <3>1. ASSUME NEW u \in Seq(Int), NEW v \in Seq(Int) PROVE Len(u \o v) = Len(u) + Len(v)
      OBVIOUS
    <3> QED BY <1>2, <2>1, <3>1, Zenon
  <2> QED BY <1>1, <2>2
<1>4. Convert(it) = (IF it.left THEN <<>> ELSE Ops("count", zeros)) \o Ops("both", sig)
                    \o Ops("skip", num) \o (IF it.left THEN Ops("count", spaces) ELSE <<>>)
  BY Zenon DEF Convert, num, sig
<1>5. Meant(it) = IF it.left THEN (sig \o gap) \o Repeat(Space, it.width - Len(sig \o gap))
                  ELSE Repeat(Zero, it.width - Len(sig \o gap)) \o (sig \o gap)
  BY Zenon DEF Meant, num, sig
<1> HIDE DEF pad
<1>6. zeros \in Seq(Nat) /\ spaces \in Seq(Nat)
  BY <1>2, RepeatTyped, Zenon DEF Zero, Space
<1>7. Meant(it) = IF it.left THEN (sig \o gap) \o spaces ELSE zeros \o (sig \o gap)
  BY <1>3, <1>5, Zenon
<1> HIDE DEF zeros, spaces, gap
<1> DEFINE a == IF it.left THEN <<>> ELSE Ops("count", zeros)
           b == Ops("both", sig)
           c == Ops("skip", num)
           d == IF it.left THEN Ops("count", spaces) ELSE <<>>
<1>8. /\ b \in Seq(Operations) /\ b \in Seq(Calm) /\ Shown(b) = sig
      /\ c \in Seq(Operations) /\ c \in Seq(Calm) /\ Shown(c) = gap
  BY <1>1, OpsShown DEF gap
<1>9. /\ Ops("count", zeros) \in Seq(Operations) /\ Ops("count", zeros) \in Seq(Calm)
      /\ Shown(Ops("count", zeros)) = zeros
      /\ Ops("count", spaces) \in Seq(Operations) /\ Ops("count", spaces) \in Seq(Calm)
      /\ Shown(Ops("count", spaces)) = spaces
  BY <1>6, OpsShown
<1>10. Shown(<<>>) = <<>>
  BY DEF Shown
<1>11. /\ a \in Seq(Operations) /\ a \in Seq(Calm) /\ d \in Seq(Operations) /\ d \in Seq(Calm)
       /\ Shown(a) = IF it.left THEN <<>> ELSE zeros
       /\ Shown(d) = IF it.left THEN spaces ELSE <<>>
  BY <1>9, <1>10
<1> HIDE DEF a, b, c, d
<1>12. Convert(it) = ((a \o b) \o c) \o d
  BY <1>4 DEF a, b, c, d
<1>13. /\ a \o b \in Seq(Operations) /\ (a \o b) \o c \in Seq(Operations) /\ ((a \o b) \o c) \o d \in Seq(Operations)
       /\ ((a \o b) \o c) \o d \in Seq(Calm)
  BY <1>8, <1>11
<1>14. Shown(((a \o b) \o c) \o d) = ((Shown(a) \o sig) \o gap) \o Shown(d)
  <2>1. Shown(a \o b) = Shown(a) \o Shown(b)
    BY <1>8, <1>11, ShownConcat, Zenon
  <2>2. Shown((a \o b) \o c) = Shown(a \o b) \o Shown(c)
    BY <1>8, <1>13, ShownConcat, Zenon
  <2>3. Shown(((a \o b) \o c) \o d) = Shown((a \o b) \o c) \o Shown(d)
    BY <1>11, <1>13, ShownConcat, Zenon
  <2> QED BY <1>8, <2>1, <2>2, <2>3
<1>15. sig \in Seq(Int) /\ zeros \in Seq(Int) /\ spaces \in Seq(Int) /\ sig \o gap \in Seq(Int)
  BY <1>1, <1>2, <1>6
<1>16. ((Shown(a) \o sig) \o gap) \o Shown(d) = Meant(it)
  <2>1. CASE it.left
    <3>1. <<>> \o sig = sig
      BY <1>15, ConcatNothing
    <3>2. Shown(a) = <<>> /\ Shown(d) = spaces
      BY <1>11, <2>1
    <3> QED BY <1>7, <2>1, <3>1, <3>2
  <2>2. CASE ~it.left
    <3>1. (zeros \o sig) \o gap = zeros \o (sig \o gap)
      <4>1. ASSUME NEW u \in Seq(Int), NEW v \in Seq(Int), NEW w \in Seq(Int)
            PROVE  (u \o v) \o w = u \o (v \o w)
        OBVIOUS
      <4> QED BY <1>2, <1>15, <4>1, Zenon
    <3>2. (zeros \o (sig \o gap)) \o <<>> = zeros \o (sig \o gap)
      BY <1>15, ConcatNothing
    <3>3. Shown(a) = zeros /\ Shown(d) = <<>>
      BY <1>11, <2>2
    <3> QED BY <1>7, <2>2, <3>1, <3>2, <3>3
  <2> QED BY <2>1, <2>2
<1> QED BY <1>12, <1>13, <1>14, <1>16

\* Every item becomes operations that show what it means.
LEMMA ConvertMeant ==
  ASSUME NEW it \in Conversions
  PROVE  /\ Convert(it) \in Seq(Operations) /\ (it.conv # "c" => Convert(it) \in Seq(Calm))
         /\ Shown(Convert(it)) = Meant(it)
<1>1. it.conv \in {"literal", "%", "other", "c", "s", "number", "p"}
  BY ItemFields
<1> QED BY <1>1, StringMeant, CharMeant, NumberMeant

\* So does a whole format.
LEMMA TextMeant ==
  ASSUME NEW s \in Seq(Conversions)
  PROVE  /\ Text(Convert, s) \in Seq(Operations)
         /\ (\A x \in DOMAIN s : s[x].conv # "c") => Text(Convert, s) \in Seq(Calm)
         /\ Text(Meant, s) = Shown(Text(Convert, s))
<1> DEFINE ss == [x \in DOMAIN s |-> Convert(s[x])]
           tt == [x \in DOMAIN s |-> Meant(s[x])]
<1>1. Len(s) \in Nat /\ DOMAIN s = 1 .. Len(s) /\ \A x \in 1 .. Len(s) : s[x] \in Conversions
  OBVIOUS
<1>2. /\ \A x \in 1 .. Len(s) : ss[x] \in Seq(Operations)
      /\ \A x \in 1 .. Len(s) : s[x].conv # "c" => ss[x] \in Seq(Calm)
      /\ \A x \in 1 .. Len(s) : tt[x] = Shown(ss[x])
  BY <1>1, ConvertMeant
<1>3. /\ ss = [x \in 1 .. Len(s) |-> ss[x]]
      /\ tt = [x \in 1 .. Len(s) |-> tt[x]]
  BY <1>1
<1>4. Text(Convert, s) = Joined(ss) /\ Text(Meant, s) = Joined(tt)
  BY Zenon DEF Text
<1> HIDE DEF ss, tt
<1>5. ss \in Seq(Seq(Operations)) /\ Len(ss) = Len(s)
  <2>1. ss \in Seq(Seq(Operations))
    BY <1>1, <1>2, <1>3
  <2>2. DOMAIN ss = 1 .. Len(s)
    BY <1>3
  <2> QED BY <1>1, <2>1, <2>2
<1>6. tt \in Seq(Seq(Int)) /\ Len(tt) = Len(s)
  <2>1. \A x \in 1 .. Len(s) : tt[x] \in Seq(Int)
    BY <1>2, ShownConcat
  <2>2. tt \in Seq(Seq(Int))
    BY <1>1, <2>1, <1>3
  <2>3. DOMAIN tt = 1 .. Len(s)
    BY <1>3
  <2> QED BY <1>1, <2>2, <2>3
<1>7. (\A x \in DOMAIN s : s[x].conv # "c") => Joined(ss) \in Seq(Calm)
  <2> SUFFICES ASSUME \A x \in DOMAIN s : s[x].conv # "c" PROVE Joined(ss) \in Seq(Calm)
    OBVIOUS
  <2>1. \A x \in 1 .. Len(s) : ss[x] \in Seq(Calm)
    BY <1>1, <1>2
  <2>2. ss \in Seq(Seq(Calm))
    BY <1>1, <2>1, <1>3
  <2> QED BY <2>2, JoinedTyped
<1>8. Joined(ss) \in Seq(Operations)
  BY <1>5, JoinedTyped
<1>9. Joined(tt) = Shown(Joined(ss))
  <2>1. PICK g : Flat(ss, g) /\ Joined(ss) = g[Len(ss)]
    BY <1>5, JoinedIs, Zenon
  <2>2. PICK h : Flat(tt, h) /\ Joined(tt) = h[Len(tt)]
    BY <1>6, JoinedIs, Zenon
  <2>3. /\ g[0] = <<>>
        /\ \A m \in Nat : m + 1 <= Len(s) => g[m + 1] = g[m] \o ss[m + 1]
    BY <1>1, <1>5, <2>1, FlatSteps, Zenon
  <2>4. /\ h[0] = <<>>
        /\ \A m \in Nat : m + 1 <= Len(s) => h[m + 1] = h[m] \o tt[m + 1]
    BY <1>1, <1>6, <2>2, FlatSteps, Zenon
  <2> DEFINE S == {m \in Nat : m <= Len(s) => h[m] = Shown(g[m])}
  <2>5. 0 \in S
    <3>1. Shown(<<>>) = <<>>
      BY DEF Shown
    <3> QED BY <2>3, <2>4, <3>1
  <2>6. ASSUME NEW m \in Nat, m \in S PROVE m + 1 \in S
    <3> SUFFICES ASSUME m + 1 <= Len(s) PROVE h[m + 1] = Shown(g[m + 1])
      OBVIOUS
    <3>1. m + 1 \in 1 .. Len(s) /\ m <= Len(s) /\ m \in 0 .. Len(ss)
      BY <1>1, <1>5
    <3>2. tt[m + 1] = Shown(ss[m + 1]) /\ ss[m + 1] \in Seq(Operations)
      BY <1>2, <3>1, Zenon
    <3>3. h[m] = Shown(g[m])
      BY <2>6, <3>1
    <3>4. g[m] \in Seq(Operations)
      BY <1>5, <2>1, <3>1, FlatTyped, Zenon
    <3>5. Shown(g[m] \o ss[m + 1]) = Shown(g[m]) \o Shown(ss[m + 1])
      BY <3>2, <3>4, ShownConcat, Zenon
    <3>6. g[m + 1] = g[m] \o ss[m + 1] /\ h[m + 1] = h[m] \o tt[m + 1]
      BY <2>3, <2>4, Zenon
    <3> QED BY <3>2, <3>3, <3>5, <3>6, Zenon
  <2> HIDE DEF S
  <2>7. Len(s) \in S
    BY <1>1, <2>5, <2>6, AllNaturals
  <2>8. h[Len(s)] = Shown(g[Len(s)])
    BY <1>1, <2>7 DEF S
  <2> QED BY <1>5, <1>6, <2>1, <2>2, <2>8, Zenon
<1> QED BY <1>4, <1>7, <1>8, <1>9, Zenon

----------------------------------------------------------------------------
(* The loop of vsprintf_impl.                                              *)

\* The memory of a call that is followed.
Top   == PrintkSize + Limit + Slack
Cells == [0 .. Top -> Nat]

FormatterStates == [cell : Cells, at : Nat, written : Nat, stored : SUBSET Nat]

\* The sizes of the buffers.
LEMMA Sizes0 ==
  /\ PrintkSize \in Nat /\ PrintkSize >= 1 /\ Limit \in Nat /\ Limit >= 1 /\ Slack \in Nat
  /\ Top \in Nat /\ PrintkSize <= Top /\ Limit <= Top /\ 2 * PrintkSize - 2 <= Top
  BY ConsoleConstants, FormatConstants DEF Top

\* Storing characters one behind the other.
LEMMA EmitFields ==
  ASSUME NEW s \in FormatterStates, NEW chars \in Seq(Nat)
  PROVE  /\ Emit(s, chars) \in FormatterStates
         /\ Emit(s, chars).at = s.at + Len(chars)
         /\ Emit(s, chars).written = s.written
         /\ Emit(s, chars).stored = s.stored \cup s.at .. s.at + Len(chars) - 1
         /\ \A a \in 0 .. Top : Emit(s, chars).cell[a] =
              IF a \in s.at .. s.at + Len(chars) - 1 THEN chars[a - s.at + 1] ELSE s.cell[a]
<1>1. PICK i \in Nat : i = s.at
  BY DEF FormatterStates
<1>2. PICK l \in Nat : l = Len(chars)
  OBVIOUS
<1> DEFINE new(a) == IF a \in i .. i + l - 1 THEN chars[a - i + 1] ELSE s.cell[a]
           mem1 == [a \in 0 .. Top |-> new(a)]
<1>3. s.cell \in Cells /\ DOMAIN s.cell = 0 .. Top /\ s.written \in Nat /\ s.stored \subseteq Nat
  BY DEF FormatterStates, Cells
<1>4. mem1 \in Cells
  <2>1. ASSUME NEW a \in 0 .. Top PROVE new(a) \in Nat
    <3>1. CASE a \in i .. i + l - 1
      <4>1. a - i + 1 \in 1 .. Len(chars)
        BY <1>2, <3>1, Sizes0
      <4> QED BY <3>1, <4>1
    <3>2. CASE a \notin i .. i + l - 1
      BY <1>3, <3>2, Zenon DEF Cells
    <3> QED BY <3>1, <3>2
  <2> HIDE DEF new
  <2> QED BY <2>1 DEF Cells
<1>5. Emit(s, chars) = [s EXCEPT !.cell = mem1, !.at = i + l, !.stored = s.stored \cup i .. i + l - 1]
  BY <1>1, <1>2, <1>3, Zenon DEF Emit
<1>6. \A a \in 0 .. Top : mem1[a] = new(a)
  OBVIOUS
<1>7. PICK new1 \in SUBSET Nat : new1 = s.stored \cup i .. i + l - 1
  <2>1. (s.stored \cup i .. i + l - 1) \in SUBSET Nat
    BY <1>3
  <2> QED BY <2>1, Zenon
<1> HIDE DEF mem1, new
<1>8. /\ Emit(s, chars) \in FormatterStates
      /\ Emit(s, chars).cell = mem1 /\ Emit(s, chars).at = i + l
      /\ Emit(s, chars).written = s.written
      /\ Emit(s, chars).stored = s.stored \cup i .. i + l - 1
  <2>1. PICK j \in Nat : j = i + l
    OBVIOUS
  <2>2. Emit(s, chars) = [s EXCEPT !.cell = mem1, !.at = j, !.stored = new1]
    BY <1>5, <1>7, <2>1, Zenon
  <2>3. /\ Emit(s, chars) \in FormatterStates
        /\ Emit(s, chars).cell = mem1 /\ Emit(s, chars).at = j
        /\ Emit(s, chars).written = s.written /\ Emit(s, chars).stored = new1
    BY <1>4, <2>2, Zenon DEF FormatterStates
  <2> QED BY <1>7, <2>1, <2>3, Zenon
<1> QED
  BY <1>1, <1>2, <1>6, <1>8, Zenon DEF new

\* One operation.
LEMMA TurnFields ==
  ASSUME NEW s \in FormatterStates, NEW o \in Operations
  PROVE  LET r   == vsprintf_implTurn(s, PrintkSize, o)
             in  == Room(s, PrintkSize)
             put == (in /\ o.op # "skip") \/ o.op = "force"
         IN  /\ r \in FormatterStates
             /\ r.at = IF in \/ o.op = "force" THEN s.at + 1 ELSE s.at
             /\ r.written = IF in \/ o.op \in {"count", "force"} THEN s.written + 1 ELSE s.written
             /\ r.stored \subseteq s.stored \cup (IF put THEN {s.at} ELSE {})
             /\ \A a \in 0 .. Top : r.cell[a] = IF put /\ a = s.at THEN o.ch ELSE s.cell[a]
<1> DEFINE r   == vsprintf_implTurn(s, PrintkSize, o)
           in  == Room(s, PrintkSize)
           put == (in /\ o.op # "skip") \/ o.op = "force"
           e   == IF put THEN Emit(s, <<o.ch>>) ELSE s
<1>1. o.ch \in Nat /\ <<o.ch>> \in Seq(Nat) /\ Len(<<o.ch>>) = 1 /\ <<o.ch>>[1] = o.ch
  BY DEF Operations
<1>2. s.at \in Nat /\ s.written \in Nat /\ s.stored \subseteq Nat
  BY DEF FormatterStates
<1>3. /\ e \in FormatterStates /\ e.at = (IF put THEN s.at + 1 ELSE s.at)
      /\ e.written = s.written
      /\ e.stored \subseteq s.stored \cup (IF put THEN {s.at} ELSE {})
      /\ \A a \in 0 .. Top : e.cell[a] = IF put /\ a = s.at THEN o.ch ELSE s.cell[a]
  <2>1. CASE put
    <3>1. /\ e \in FormatterStates /\ e.at = s.at + Len(<<o.ch>>) /\ e.written = s.written
          /\ e.stored = s.stored \cup s.at .. s.at + Len(<<o.ch>>) - 1
          /\ \A a \in 0 .. Top : e.cell[a] =
               IF a \in s.at .. s.at + Len(<<o.ch>>) - 1 THEN <<o.ch>>[a - s.at + 1] ELSE s.cell[a]
      <4>1. e = Emit(s, <<o.ch>>)
        BY <2>1
      <4> HIDE DEF e, put
      <4>2. PICK v \in Seq(Nat) : v = <<o.ch>>
        BY <1>1, Zenon
      <4>3. e = Emit(s, v)
        BY <4>1, <4>2
      <4>4. /\ e \in FormatterStates /\ e.at = s.at + Len(v) /\ e.written = s.written
            /\ e.stored = s.stored \cup s.at .. s.at + Len(v) - 1
            /\ \A a \in 0 .. Top : e.cell[a] =
                 IF a \in s.at .. s.at + Len(v) - 1 THEN v[a - s.at + 1] ELSE s.cell[a]
        BY <4>3, EmitFields
      <4> QED BY <4>2, <4>4, Zenon
    <3>2. s.at .. s.at + Len(<<o.ch>>) - 1 = {s.at}
      BY <1>1, <1>2
    <3>3. s.at - s.at + 1 = 1
      BY <1>2
    <3> HIDE DEF e, put
    <3>4. \A a \in 0 .. Top : e.cell[a] = IF a = s.at THEN o.ch ELSE s.cell[a]
      <4> SUFFICES ASSUME NEW a \in 0 .. Top PROVE e.cell[a] = IF a = s.at THEN o.ch ELSE s.cell[a]
        OBVIOUS
      <4>1. e.cell[a] = IF a \in {s.at} THEN <<o.ch>>[a - s.at + 1] ELSE s.cell[a]
        BY <3>1, <3>2
      <4>2. a = s.at => <<o.ch>>[a - s.at + 1] = o.ch
        BY <1>1, <3>3
      <4> QED BY <4>1, <4>2
    <3> QED BY <1>1, <2>1, <3>1, <3>2, <3>4
  <2>2. CASE ~put
    BY <2>2
  <2> QED BY <2>1, <2>2
<1>4. r = [e EXCEPT !.at = IF in /\ o.op = "skip" THEN @ + 1 ELSE @,
                    !.written = IF in \/ o.op \in {"count", "force"} THEN @ + 1 ELSE @]
  BY Zenon DEF vsprintf_implTurn
<1> HIDE DEF e, in
<1>5. /\ e.at \in Nat /\ e.written \in Nat
  BY <1>3 DEF FormatterStates
<1>6. /\ r \in FormatterStates
      /\ r.at = (IF in /\ o.op = "skip" THEN e.at + 1 ELSE e.at)
      /\ r.written = (IF in \/ o.op \in {"count", "force"} THEN e.written + 1 ELSE e.written)
      /\ r.stored = e.stored /\ r.cell = e.cell
  <2>1. (IF in /\ o.op = "skip" THEN e.at + 1 ELSE e.at) \in Nat
        /\ (IF in \/ o.op \in {"count", "force"} THEN e.written + 1 ELSE e.written) \in Nat
    BY <1>5
  <2> HIDE DEF r
  <2> QED BY <1>3, <1>4, <2>1, Zenon DEF FormatterStates
<1>7. r.at = IF in \/ o.op = "force" THEN s.at + 1 ELSE s.at
  <2> HIDE DEF r
  <2> QED BY <1>2, <1>3, <1>6
<1> HIDE DEF r
<1>8. /\ r.written = IF in \/ o.op \in {"count", "force"} THEN s.written + 1 ELSE s.written
      /\ r.stored \subseteq s.stored \cup (IF put THEN {s.at} ELSE {})
      /\ \A a \in 0 .. Top : r.cell[a] = IF put /\ a = s.at THEN o.ch ELSE s.cell[a]
  <2> HIDE DEF put
  <2> QED BY <1>3, <1>6
<1> QED
  BY <1>6, <1>7, <1>8 DEF r, in

\* Where the text ends that has been stored of the first i operations.
Edge(i) == IF i <= PrintkSize - 1 THEN i ELSE PrintkSize - 1

\* The formatter after the operations done, if no %c was among them or all had room.
PrintkAt(s, done) ==
  done \in Seq(Calm) \/ Len(done) <= PrintkSize - 1 =>
    /\ s.at = Edge(Len(done))
    /\ s.stored \subseteq 0 .. Edge(Len(done)) - 1
    /\ \A x \in 1 .. Edge(Len(done)) : done[x].op # "skip" => s.cell[x - 1] = done[x].ch
    /\ Len(done) <= PrintkSize - 1 => s.written = Len(done)

\* vsprintf_impl before its first turn.
LEMMA PrintkStart == ASSUME NEW cells \in Cells PROVE Start(cells) \in FormatterStates /\ PrintkAt(Start(cells), <<>>)
<1>1. Start(cells) \in FormatterStates
  BY DEF Start, FormatterStates
<1>2. Edge(0) = 0 /\ Len(<<>>) = 0
  BY Sizes0 DEF Edge
<1> QED BY <1>1, <1>2 DEF PrintkAt, Start

\* One turn of vsprintf_impl does one more of the operations its format asks for.
LEMMA PrintkTurn ==
  ASSUME NEW s \in FormatterStates, NEW done \in Seq(Operations), NEW o \in Operations,
         PrintkAt(s, done)
  PROVE  PrintkAt(vsprintf_implTurn(s, PrintkSize, o), Append(done, o))
<1> DEFINE r    == vsprintf_implTurn(s, PrintkSize, o)
           more == Append(done, o)
           in   == s.at < PrintkSize - 1
           put  == (in /\ o.op # "skip") \/ o.op = "force"
<1>1. PICK l \in Nat : l = Len(done)
  OBVIOUS
<1>2. /\ more \in Seq(Operations) /\ Len(more) = l + 1 /\ more[l + 1] = o
      /\ \A x \in 1 .. l : more[x] = done[x]
  BY <1>1
<1>3. /\ r.at = IF in \/ o.op = "force" THEN s.at + 1 ELSE s.at
      /\ r.written = IF in \/ o.op \in {"count", "force"} THEN s.written + 1 ELSE s.written
      /\ r.stored \subseteq s.stored \cup (IF put THEN {s.at} ELSE {})
      /\ \A a \in 0 .. Top : r.cell[a] = IF put /\ a = s.at THEN o.ch ELSE s.cell[a]
  BY TurnFields, Zenon DEF Room
<1> HIDE DEF r, more
<1> SUFFICES ASSUME more \in Seq(Calm) \/ l + 1 <= PrintkSize - 1
             PROVE  /\ r.at = Edge(l + 1)
                    /\ r.stored \subseteq 0 .. Edge(l + 1) - 1
                    /\ \A x \in 1 .. Edge(l + 1) : more[x].op # "skip" => r.cell[x - 1] = more[x].ch
                    /\ l + 1 <= PrintkSize - 1 => r.written = l + 1
  BY <1>2, Zenon DEF PrintkAt, r, more
<1>4. more \in Seq(Calm) => done \in Seq(Calm) /\ o.op # "force"
  <2> SUFFICES ASSUME more \in Seq(Calm) PROVE done \in Seq(Calm) /\ o.op # "force"
    OBVIOUS
  <2>1. \A x \in 1 .. l + 1 : more[x] \in Calm
    BY <1>2
  <2>2. \A x \in 1 .. l : done[x] \in Calm
    BY <1>2, <2>1
  <2>3. done = [x \in 1 .. l |-> done[x]]
    BY <1>1
  <2>4. done \in Seq(Calm)
    BY <2>2, <2>3
  <2>5. o \in Calm
    BY <1>2, <2>1
  <2> QED BY <2>4, <2>5 DEF Calm
<1>5. /\ s.at = Edge(l)
      /\ s.stored \subseteq 0 .. Edge(l) - 1
      /\ \A x \in 1 .. Edge(l) : done[x].op # "skip" => s.cell[x - 1] = done[x].ch
      /\ l <= PrintkSize - 1 => s.written = l
  <2>1. l + 1 <= PrintkSize - 1 => l <= PrintkSize - 1
    BY Sizes0
  <2> QED BY <1>1, <1>4, <2>1 DEF PrintkAt
<1>6. CASE l + 1 <= PrintkSize - 1
  <2>1. Edge(l) = l /\ Edge(l + 1) = l + 1 /\ s.at = l /\ in /\ l <= PrintkSize - 1 /\ l <= Top
    BY <1>5, <1>6, Sizes0 DEF Edge
  <2>2. r.at = l + 1 /\ r.written = l + 1
    BY <1>3, <1>5, <2>1
  <2>3. r.stored \subseteq 0 .. l
    <3>1. s.stored \subseteq 0 .. l - 1
      BY <1>5, <2>1
    <3>2. r.stored \subseteq s.stored \cup {l}
      BY <1>3, <2>1
    <3> QED BY <3>1, <3>2
  <2>4. ASSUME NEW x \in 1 .. l + 1, more[x].op # "skip" PROVE r.cell[x - 1] = more[x].ch
    <3>1. x - 1 \in 0 .. Top
      BY <2>1, Sizes0
    <3>2. r.cell[x - 1] = IF put /\ x - 1 = l THEN o.ch ELSE s.cell[x - 1]
      BY <1>3, <2>1, <3>1
    <3>3. CASE x = l + 1
      <4>1. more[x] = o /\ x - 1 = l
        BY <1>2, <3>3
      <4> QED BY <2>1, <2>4, <3>2, <4>1
    <3>4. CASE x \in 1 .. l
      <4>1. more[x] = done[x] /\ x - 1 # l
        BY <1>2, <3>4
      <4>2. s.cell[x - 1] = done[x].ch
        BY <1>5, <2>1, <2>4, <3>4, <4>1
      <4> QED BY <3>2, <4>1, <4>2
    <3> QED BY <3>3, <3>4
  <2>5. Edge(l + 1) - 1 = l
    BY <2>1
  <2> QED BY <2>1, <2>2, <2>3, <2>4, <2>5
<1>7. CASE ~ (l + 1 <= PrintkSize - 1)
  <2>1. /\ Edge(l) = PrintkSize - 1 /\ Edge(l + 1) = PrintkSize - 1 /\ s.at = PrintkSize - 1
        /\ PrintkSize - 1 <= l
    BY <1>5, <1>7, Sizes0 DEF Edge
  <2>2. ~in /\ o.op # "force" /\ ~put
    BY <1>4, <1>7, <2>1, Sizes0
  <2>3. r.at = s.at /\ r.stored \subseteq s.stored
    BY <1>3, <2>2
  <2>4. ASSUME NEW x \in 1 .. PrintkSize - 1, more[x].op # "skip" PROVE r.cell[x - 1] = more[x].ch
    <3>1. x - 1 \in 0 .. Top /\ x \in 1 .. l
      BY <2>1, Sizes0
    <3>2. r.cell[x - 1] = s.cell[x - 1]
      BY <1>3, <2>2, <3>1
    <3>3. more[x] = done[x]
      BY <1>2, <3>1
    <3> QED BY <1>5, <2>1, <2>4, <3>2, <3>3
  <2>5. s.stored \subseteq 0 .. Edge(l + 1) - 1
    BY <1>5, <2>1
  <2> QED BY <1>7, <2>1, <2>3, <2>4, <2>5
<1> QED BY <1>6, <1>7

\* What a finished text is: PrintkExact of it, and all of it if it fits.
PrintkDone(s, ops) ==
  LET t == Shown(ops) IN
  /\ ops \in Seq(Calm) =>
       /\ \A x \in 1 .. Edge(Len(t)) : t[x] # Unset => s.cell[x - 1] = t[x]
       /\ \A a \in s.stored : a >= PrintkSize - 1 => s.cell[a] = NUL
  /\ Len(t) < PrintkSize - 1 =>
       /\ s.stored \subseteq 0 .. PrintkSize - 1
       /\ s.cell[Len(t)] = NUL /\ s.written = Len(t)
       /\ \A x \in 1 .. Len(t) : t[x] # Unset => s.cell[x - 1] = t[x]

\* The terminator vsprintf_impl stores leaves the buffer it promises.
LEMMA PrintkEnd ==
  ASSUME NEW s \in FormatterStates, NEW ops \in Seq(Operations), PrintkAt(s, ops)
  PROVE  /\ vsprintf_implEnd(s, PrintkSize) \in FormatterStates
         /\ PrintkDone(vsprintf_implEnd(s, PrintkSize), ops)
<1> DEFINE e == vsprintf_implEnd(s, PrintkSize)
           t == Shown(ops)
<1>1. PICK l \in Nat : l = Len(ops)
  OBVIOUS
<1>2. PICK i \in Nat : i = s.at
  BY DEF FormatterStates
<1>3. PICK z \in Nat : z = IF i < PrintkSize - 1 THEN i ELSE i + PrintkSize - 1
  BY Sizes0
<1>4. /\ s.cell \in Cells /\ s.stored \subseteq Nat /\ s.written \in Nat
  BY DEF FormatterStates
<1>5. e = [s EXCEPT !.cell[z] = NUL, !.stored = @ \cup {z}]
  BY <1>2, <1>3, Zenon DEF vsprintf_implEnd, EndAt, Room
<1> HIDE DEF e
<1>6. PICK c2 \in Cells : c2 = [s.cell EXCEPT ![z] = NUL]
  <2>1. [s.cell EXCEPT ![z] = NUL] \in Cells
    BY <1>4, Zenon DEF Cells, NUL
  <2> QED BY <2>1, Zenon
<1>7. PICK s2 \in SUBSET Nat : s2 = s.stored \cup {z}
  <2>1. s.stored \cup {z} \in SUBSET Nat
    BY <1>4
  <2> QED BY <2>1, Zenon
<1>8. /\ e \in FormatterStates /\ e.cell = c2 /\ e.stored = s2 /\ e.written = s.written
  <2>1. e = [s EXCEPT !.cell = c2, !.stored = s2]
    BY <1>5, <1>6, <1>7, Zenon
  <2> QED BY <2>1, Zenon DEF FormatterStates
<1>9. \A a \in 0 .. Top : c2[a] = IF a = z THEN NUL ELSE s.cell[a]
  BY <1>4, <1>6, Zenon DEF Cells
<1>10. Len(t) = l /\ \A x \in 1 .. l : t[x] # Unset => ops[x].op # "skip" /\ t[x] = ops[x].ch
  <2>1. Len(t) = l
    BY <1>1 DEF Shown
  <2>2. ASSUME NEW x \in 1 .. l PROVE t[x] = IF ops[x].op = "skip" THEN Unset ELSE ops[x].ch
    BY <1>1 DEF Shown
  <2> QED BY <2>1, <2>2
<1> HIDE DEF t
<1>11. ASSUME ops \in Seq(Calm) \/ l <= PrintkSize - 1
       PROVE  /\ i = Edge(l) /\ s.stored \subseteq 0 .. Edge(l) - 1
              /\ \A x \in 1 .. Edge(l) : t[x] # Unset => e.cell[x - 1] = t[x]
  <2>1. /\ i = Edge(l) /\ s.stored \subseteq 0 .. Edge(l) - 1
        /\ \A x \in 1 .. Edge(l) : ops[x].op # "skip" => s.cell[x - 1] = ops[x].ch
    BY <1>1, <1>2, <1>11 DEF PrintkAt
  <2>2. ASSUME NEW x \in 1 .. Edge(l), t[x] # Unset PROVE e.cell[x - 1] = t[x]
    <3>1. x \in 1 .. l /\ x - 1 \in 0 .. Top /\ x - 1 # z
      BY <1>3, <2>1, Sizes0 DEF Edge
    <3>2. s.cell[x - 1] = t[x]
      BY <1>10, <2>1, <2>2, <3>1
    <3> QED BY <1>8, <1>9, <3>1, <3>2
  <2> QED BY <2>1, <2>2
<1>12. ASSUME ops \in Seq(Calm), NEW a \in e.stored, a >= PrintkSize - 1 PROVE e.cell[a] = NUL
  <2>1. i = Edge(l) /\ s.stored \subseteq 0 .. Edge(l) - 1
    BY <1>11, <1>12
  <2>2. a = z
    <3>1. a \in s.stored \cup {z}
      BY <1>7, <1>8, <1>12
    <3>2. a \notin 0 .. Edge(l) - 1
      BY <1>12, Sizes0 DEF Edge
    <3> QED BY <2>1, <3>1, <3>2
  <2>3. z \in 0 .. Top
    BY <1>3, <2>1, Sizes0 DEF Edge
  <2> QED BY <1>8, <1>9, <2>2, <2>3
<1>13. ASSUME l < PrintkSize - 1
       PROVE  /\ e.stored \subseteq 0 .. PrintkSize - 1
              /\ e.cell[l] = NUL /\ e.written = l
              /\ \A x \in 1 .. l : t[x] # Unset => e.cell[x - 1] = t[x]
  <2>1. l <= PrintkSize - 1 /\ Edge(l) = l
    BY <1>13, Sizes0 DEF Edge
  <2>2. /\ i = l /\ s.stored \subseteq 0 .. l - 1
        /\ \A x \in 1 .. l : t[x] # Unset => e.cell[x - 1] = t[x]
    BY <1>11, <2>1
  <2>3. z = l
    BY <1>3, <1>13, <2>2
  <2>4. s.written = l
    BY <1>1, <2>1 DEF PrintkAt
  <2>5. e.stored \subseteq 0 .. PrintkSize - 1
    <3>1. e.stored = s.stored \cup {l}
      BY <1>7, <1>8, <2>3
    <3> QED BY <1>13, <2>2, <3>1, Sizes0
  <2>6. l \in 0 .. Top
    BY <1>13, Sizes0
  <2> QED BY <1>8, <1>9, <2>2, <2>3, <2>4, <2>5, <2>6
<1> QED
  BY <1>8, <1>10, <1>11, <1>12, <1>13 DEF PrintkDone, e, t

----------------------------------------------------------------------------
(* The loop of vsprintf.                                                   *)

\* The smaller of two integers.
LEMMA MinTwo ==
  ASSUME NEW a \in Int, NEW b \in Int
  PROVE  Min({a, b}) = IF a <= b THEN a ELSE b
<1> DEFINE c == IF a <= b THEN a ELSE b
<1>1. c \in {a, b} /\ \A y \in {a, b} : c <= y
  OBVIOUS
<1>2. \A x \in {a, b} : (\A y \in {a, b} : x <= y) => x = c
  OBVIOUS
<1> QED BY <1>1, <1>2 DEF Min

\* The test of pos < 1023 in the copying loops.
LEMMA ClippedFields ==
  ASSUME NEW s, NEW i \in Nat, i = s.at, i < Limit, NEW chars \in Seq(Nat)
  PROVE  /\ Clipped(s, chars) \in Seq(Nat)
         /\ i + Len(Clipped(s, chars)) <= Limit
         /\ i + Len(chars) <= Limit => Clipped(s, chars) = chars
<1>1. PICK l \in Nat : l = Len(chars)
  OBVIOUS
<1>2. PICK d \in Nat : d = Limit - i /\ d > 0
  BY Sizes0
<1>3. PICK j \in Nat : j = IF l <= d THEN l ELSE d
  OBVIOUS
<1>4. Clipped(s, chars) = SubSeq(chars, 1, j)
  <2>1. Min({l, d}) = j
    BY <1>3, MinTwo
  <2> QED BY <1>1, <1>2, <2>1, Zenon DEF Clipped
<1>5. j <= l /\ j <= d
  BY <1>3
<1>6. SubSeq(chars, 1, j) \in Seq(Nat) /\ Len(SubSeq(chars, 1, j)) = j
  BY <1>1, <1>5
<1>7. i + l <= Limit => SubSeq(chars, 1, j) = chars
  <2> SUFFICES ASSUME i + l <= Limit PROVE SubSeq(chars, 1, j) = chars
    OBVIOUS
  <2>1. j = l
    BY <1>2, <1>3, Sizes0
  <2> QED BY <1>1, <2>1
<1>8. i + j <= Limit
  BY <1>2, <1>5, Sizes0
<1> QED BY <1>1, <1>4, <1>6, <1>7, <1>8

\* Its state after the items done.
VsprintfAt(s, done) ==
  LET t == Text(Plain, done) IN
  /\ s.at <= Limit + 1 /\ s.stored \subseteq 0 .. Limit
  /\ Len(t) <= Limit => s.at = Len(t) /\ \A x \in 1 .. Len(t) : s.cell[x - 1] = t[x]

\* vsprintf before its first turn.
LEMMA VsprintfStart ==
  ASSUME NEW cells \in Cells PROVE VsprintfAt(Start(cells), <<>>)
<1>1. Text(Plain, <<>>) = <<>>
  BY JoinedEmpty DEF Text
<1>2. Start(cells).at = 0 /\ Start(cells).stored = {} /\ 0 <= Limit + 1 /\ Len(<<>>) = 0
  BY Sizes0 DEF Start
<1> QED BY <1>1, <1>2 DEF VsprintfAt

\* What a turn adds: never past the place of the terminator, and all of the text if
\* it fits.
LEMMA VsprintfEmits ==
  ASSUME NEW s \in FormatterStates, NEW it \in Conversions, NEW i \in Nat, i = s.at, i < Limit
  PROVE  \E chars \in Seq(Nat) :
           /\ vsprintfTurn(s, it) = Emit(s, chars)
           /\ i + Len(chars) <= Limit + 1
           /\ i + Len(Plain(it)) <= Limit => chars = Plain(it)
<1> DEFINE Good(chars) == /\ chars \in Seq(Nat)
                          /\ vsprintfTurn(s, it) = Emit(s, chars)
                          /\ i + Len(chars) <= Limit + 1
                          /\ i + Len(Plain(it)) <= Limit => chars = Plain(it)
<1> SUFFICES \E chars : Good(chars)
  OBVIOUS
<1>1. /\ Plain(it) \in Seq(Nat) /\ it.chars \in Seq(Nat)
      /\ it.conv \in {"literal", "%", "other", "c", "s", "number", "p"}
      /\ it.conv \notin {"s", "number", "p"} => Len(it.chars) = 1
  BY PlainTyped, ItemFields
<1>2. s.at < Limit /\ ~ (s.at >= Limit) /\ Limit \in Nat
  BY Sizes0
<1>3. CASE it.conv \in {"s", "number"}
  <2>1. vsprintfTurn(s, it) = Emit(s, Clipped(s, Plain(it)))
    BY <1>2, <1>3, Zenon DEF vsprintfTurn
  <2> DEFINE ch == Clipped(s, Plain(it))
  <2>2. /\ ch \in Seq(Nat) /\ i + Len(ch) <= Limit
        /\ i + Len(Plain(it)) <= Limit => ch = Plain(it)
    BY <1>1, ClippedFields
  <2> HIDE DEF ch
  <2>3. i + Len(ch) <= Limit + 1
    BY <1>2, <2>2
  <2> QED BY <2>1, <2>2, <2>3, Zenon DEF ch
<1>4. CASE it.conv = "p"
  <2> DEFINE txt == IF s.at + 2 <= Limit THEN Plain(it) ELSE it.chars
             ch == Clipped(s, txt)
  <2>1. vsprintfTurn(s, it) = Emit(s, ch)
    BY <1>2, <1>4, Zenon DEF vsprintfTurn
  <2>2. txt \in Seq(Nat)
    BY <1>1
  <2>3. i + Len(Plain(it)) <= Limit => txt = Plain(it)
    <3>1. Plain(it) = <<Zero, 120>> \o it.chars
      BY <1>4, Zenon DEF Plain
    <3>2. PICK m \in Nat : m = Len(it.chars)
      BY <1>1
    <3>3. Len(Plain(it)) = 2 + m
      BY <1>1, <3>1, <3>2 DEF Zero
    <3> QED BY <1>2, <3>3
  <2> HIDE DEF txt
  <2>4. /\ ch \in Seq(Nat) /\ i + Len(ch) <= Limit
        /\ i + Len(txt) <= Limit => ch = txt
    BY <2>2, ClippedFields
  <2> HIDE DEF ch
  <2>5. i + Len(ch) <= Limit + 1
    BY <1>2, <2>4
  <2> QED BY <2>1, <2>3, <2>4, <2>5, Zenon
<1>5. CASE it.conv \in {"literal", "%", "other", "c"}
  <2>1. it.conv \notin {"s", "number", "p"}
    BY <1>5
  <2>2. vsprintfTurn(s, it) = Emit(s, Plain(it))
    BY <1>2, <2>1, Zenon DEF vsprintfTurn
  <2>3. i + Len(Plain(it)) <= Limit + 1
    <3>1. Plain(it) = (IF it.conv = "other" THEN <<Percent>> \o it.chars ELSE it.chars)
      BY <1>5, Zenon DEF Plain
    <3>2. Len(Plain(it)) <= 2
      <4>1. PICK w \in Seq(Nat) : w = it.chars /\ Len(w) = 1
        BY <1>1, <2>1
      <4>2. Len(<<Percent>> \o w) = 2
        <5>0. <<Percent>> \in Seq(Nat) /\ Len(<<Percent>>) = 1
          BY DEF Percent
        <5>1. PICK y \in Seq(Nat) : y = <<Percent>> /\ Len(y) = 1
          BY <5>0, Zenon
        <5>2. Len(y \o w) = Len(y) + Len(w)
          OBVIOUS
        <5> QED BY <4>1, <5>1, <5>2
      <4> QED BY <3>1, <4>1, <4>2
    <3>3. Len(Plain(it)) \in Nat
      BY <1>1
    <3> QED BY <1>2, <3>2, <3>3
  <2> QED BY <1>1, <2>2, <2>3, Zenon
<1> QED BY <1>1, <1>3, <1>4, <1>5

\* One turn of vsprintf appends the text of one conversion.
LEMMA VsprintfTurns ==
  ASSUME NEW s \in FormatterStates, NEW done \in Seq(Conversions), NEW it \in Conversions,
         VsprintfAt(s, done)
  PROVE  /\ vsprintfTurn(s, it) \in FormatterStates
         /\ VsprintfAt(vsprintfTurn(s, it), Append(done, it))
<1> DEFINE r == vsprintfTurn(s, it)
           t == Text(Plain, done)
           u == Plain(it)
           v == Text(Plain, Append(done, it))
<1>1. t \in Seq(Nat) /\ u \in Seq(Nat) /\ v = t \o u
  BY PlainAppend, PlainTyped, Zenon
<1>2. PICK i \in Nat : i = s.at
  BY DEF FormatterStates
<1>3. /\ i <= Limit + 1 /\ s.stored \subseteq 0 .. Limit
      /\ Len(t) <= Limit => i = Len(t) /\ \A x \in 1 .. Len(t) : s.cell[x - 1] = t[x]
  BY <1>2 DEF VsprintfAt
<1> HIDE DEF t, u, v
<1>4. /\ Len(t) \in Nat /\ Len(u) \in Nat /\ Len(v) = Len(t) + Len(u)
      /\ \A x \in 1 .. Len(t) : v[x] = t[x]
      /\ \A x \in Len(t) + 1 .. Len(t) + Len(u) : v[x] = u[x - Len(t)]
  BY <1>1
<1> SUFFICES /\ r \in FormatterStates
             /\ r.at <= Limit + 1 /\ r.stored \subseteq 0 .. Limit
             /\ Len(v) <= Limit => r.at = Len(v) /\ \A x \in 1 .. Len(v) : r.cell[x - 1] = v[x]
  BY DEF VsprintfAt, v
<1>5. CASE i >= Limit
  <2>1. r = s
    <3>1. s.at >= Limit /\ ~ (s.at < Limit)
      BY <1>2, <1>5, Sizes0
    <3> QED BY <3>1, Zenon DEF vsprintfTurn
  <2> HIDE DEF r
  <2>2. Len(v) <= Limit => Len(t) <= Limit /\ Len(v) = Len(t)
    BY <1>3, <1>4, <1>5, Sizes0
  <2>3. Len(v) <= Limit => \A x \in 1 .. Len(v) : s.cell[x - 1] = v[x]
    BY <1>3, <1>4, <2>2
  <2> QED BY <1>2, <1>3, <2>1, <2>2, <2>3
<1>6. CASE ~ (i >= Limit)
  <2>1. i < Limit
    BY <1>6, Sizes0
  <2>2. PICK chars \in Seq(Nat) :
          r = Emit(s, chars) /\ i + Len(chars) <= Limit + 1 /\ (i + Len(u) <= Limit => chars = u)
    BY <1>2, <2>1, VsprintfEmits DEF u
  <2>3. PICK l \in Nat : l = Len(chars)
    OBVIOUS
  <2>4. /\ r \in FormatterStates /\ r.at = i + l
        /\ r.stored = s.stored \cup i .. i + l - 1
        /\ \A a \in 0 .. Top : r.cell[a] = IF a \in i .. i + l - 1 THEN chars[a - i + 1] ELSE s.cell[a]
    <3>1. /\ r \in FormatterStates /\ r.at = s.at + Len(chars)
          /\ r.stored = s.stored \cup s.at .. s.at + Len(chars) - 1
          /\ \A a \in 0 .. Top : r.cell[a] =
               IF a \in s.at .. s.at + Len(chars) - 1 THEN chars[a - s.at + 1] ELSE s.cell[a]
      <4> DEFINE e == Emit(s, chars)
      <4>1. /\ e \in FormatterStates /\ e.at = s.at + Len(chars)
            /\ e.stored = s.stored \cup s.at .. s.at + Len(chars) - 1
            /\ \A a \in 0 .. Top : e.cell[a] =
                 IF a \in s.at .. s.at + Len(chars) - 1 THEN chars[a - s.at + 1] ELSE s.cell[a]
        BY EmitFields, Zenon
      <4>2. r = e
        BY <2>2
      <4> HIDE DEF r, e
      <4> QED BY <4>1, <4>2
    <3> HIDE DEF r
    <3> QED BY <1>2, <2>3, <3>1, Zenon
  <2> HIDE DEF r
  <2>5. r.stored \subseteq 0 .. Limit
    BY <1>3, <2>2, <2>3, <2>4, Sizes0
  <2>6. ASSUME Len(v) <= Limit
        PROVE  r.at = Len(v) /\ \A x \in 1 .. Len(v) : r.cell[x - 1] = v[x]
    <3>1. Len(t) <= Limit /\ i = Len(t) /\ \A x \in 1 .. Len(t) : s.cell[x - 1] = t[x]
      BY <1>3, <1>4, <2>6, Sizes0
    <3>2. chars = u /\ l = Len(u)
      BY <1>4, <2>2, <2>3, <2>6, <3>1
    <3>3. ASSUME NEW x \in 1 .. Len(v) PROVE r.cell[x - 1] = v[x]
      <4>1. x - 1 \in 0 .. Top
        BY <1>4, <2>6, Sizes0
      <4>2. r.cell[x - 1] = IF x - 1 \in i .. i + l - 1 THEN chars[(x - 1) - i + 1] ELSE s.cell[x - 1]
        BY <2>4, <4>1
      <4>3. CASE x \in 1 .. Len(t)
        <5>1. x - 1 \notin i .. i + l - 1
          BY <1>4, <3>1, <4>3
        <5> QED BY <1>4, <3>1, <4>2, <4>3, <5>1
      <4>4. CASE x \in Len(t) + 1 .. Len(t) + Len(u)
        <5>1. x - 1 \in i .. i + l - 1 /\ (x - 1) - i + 1 = x - Len(t)
          BY <1>4, <3>1, <3>2, <4>4
        <5>2. v[x] = u[x - Len(t)]
          BY <1>4, <4>4
        <5> QED BY <3>2, <4>2, <5>1, <5>2
      <4> QED BY <1>4, <4>3, <4>4
    <3>4. r.at = Len(v)
      BY <1>4, <2>4, <3>1, <3>2
    <3> QED BY <3>3, <3>4
  <2> QED BY <2>2, <2>3, <2>4, <2>5, <2>6
<1> QED BY <1>5, <1>6

\* The terminator.
LEMMA EndFields ==
  ASSUME NEW s \in FormatterStates, NEW z \in 0 .. Top
  PROVE  LET e == [EndAt(s, z) EXCEPT !.at = z] IN
         /\ e \in FormatterStates /\ e.at = z /\ e.stored = s.stored \cup {z}
         /\ \A a \in 0 .. Top : e.cell[a] = IF a = z THEN NUL ELSE s.cell[a]
<1> DEFINE e == [EndAt(s, z) EXCEPT !.at = z]
<1>1. s.cell \in Cells /\ s.stored \subseteq Nat /\ z \in Nat
  BY Sizes0 DEF FormatterStates
<1>2. PICK c2 \in Cells : c2 = [s.cell EXCEPT ![z] = NUL]
  <2>1. [s.cell EXCEPT ![z] = NUL] \in Cells
    BY <1>1 DEF Cells, NUL
  <2> QED BY <2>1, Zenon
<1>3. PICK s2 \in SUBSET Nat : s2 = s.stored \cup {z}
  <2>1. s.stored \cup {z} \in SUBSET Nat
    BY <1>1
  <2> QED BY <2>1, Zenon
<1>4. EndAt(s, z) = [s EXCEPT !.cell = c2, !.stored = s2]
  BY <1>2, <1>3, Zenon DEF EndAt
<1>5. EndAt(s, z) \in FormatterStates /\ EndAt(s, z).cell = c2 /\ EndAt(s, z).stored = s2
  BY <1>4, Zenon DEF FormatterStates
<1>6. e \in FormatterStates /\ e.at = z /\ e.cell = c2 /\ e.stored = s2
  BY <1>1, <1>5 DEF FormatterStates
<1>7. \A a \in 0 .. Top : c2[a] = IF a = z THEN NUL ELSE s.cell[a]
  BY <1>1, <1>2, Zenon DEF Cells
<1> HIDE DEF e
<1>8. \A a \in 0 .. Top : e.cell[a] = IF a = z THEN NUL ELSE s.cell[a]
  BY <1>6, <1>7
<1> QED BY <1>3, <1>6, <1>8, Zenon DEF e

\* What vsprintf leaves.
VsprintfDone(s, t) ==
  /\ s.stored \subseteq 0 .. Limit /\ s.at <= Limit /\ s.cell[s.at] = NUL
  /\ Len(t) <= Limit => s.at = Len(t) /\ \A x \in 1 .. Len(t) : s.cell[x - 1] = t[x]

\* The terminator vsprintf stores leaves the buffer it promises.
LEMMA VsprintfEnds ==
  ASSUME NEW s \in FormatterStates, NEW done \in Seq(Conversions), VsprintfAt(s, done)
  PROVE  /\ vsprintfEnd(s) \in FormatterStates
         /\ VsprintfDone(vsprintfEnd(s), Text(Plain, done))
<1> DEFINE e == vsprintfEnd(s)
           t == Text(Plain, done)
<1>1. t \in Seq(Nat)
  <2>1. Literal(Zero) \in Conversions
    BY DEF Literal, Item, Conversions, Zero, NoSign
  <2> QED BY <2>1, PlainAppend, Zenon
<1>2. PICK i \in Nat : i = s.at
  BY DEF FormatterStates
<1>3. /\ i <= Limit + 1 /\ s.stored \subseteq 0 .. Limit
      /\ Len(t) <= Limit => i = Len(t) /\ \A x \in 1 .. Len(t) : s.cell[x - 1] = t[x]
  BY <1>2 DEF VsprintfAt
<1> HIDE DEF t
<1>4. PICK z \in 0 .. Top : z = (IF i <= Limit THEN i ELSE Limit) /\ z <= Limit
  BY <1>2, Sizes0
<1>5. e = [EndAt(s, z) EXCEPT !.at = z]
  <2>1. Min({i, Limit}) = z
    BY <1>4, MinTwo, Sizes0
  <2> QED BY <1>2, <2>1, Zenon DEF vsprintfEnd
<1> HIDE DEF e
<1>6. /\ e \in FormatterStates /\ e.at = z /\ e.stored = s.stored \cup {z}
      /\ \A a \in 0 .. Top : e.cell[a] = IF a = z THEN NUL ELSE s.cell[a]
  BY <1>5, EndFields
<1>7. e.stored \subseteq 0 .. Limit
  BY <1>3, <1>4, <1>6, Sizes0
<1>8. ASSUME Len(t) <= Limit
      PROVE  z = Len(t) /\ \A x \in 1 .. Len(t) : e.cell[x - 1] = t[x]
  <2>1. Len(t) \in Nat /\ i = Len(t) /\ z = Len(t)
    BY <1>1, <1>3, <1>4, <1>8
  <2>2. ASSUME NEW x \in 1 .. Len(t) PROVE e.cell[x - 1] = t[x]
    <3>1. x - 1 \in 0 .. Top /\ x - 1 # z
      BY <1>8, <2>1, Sizes0
    <3> QED BY <1>3, <1>6, <1>8, <3>1
  <2> QED BY <2>1, <2>2
<1> QED
  BY <1>4, <1>6, <1>7, <1>8 DEF VsprintfDone, e, t

\* What vsnprintf leaves.
SnprintfDone(s, t, size) ==
  /\ s.at < size /\ s.cell[s.at] = NUL
  /\ Len(t) <= Limit => /\ s.at = IF Len(t) <= size - 1 THEN Len(t) ELSE size - 1
                        /\ \A x \in 1 .. s.at : s.cell[x - 1] = t[x]

\* The copy of vsnprintf leaves the buffer it promises.
LEMMA SnprintfEnds ==
  ASSUME NEW s \in FormatterStates, NEW done \in Seq(Conversions), VsprintfAt(s, done),
         NEW size \in Nat, size > 0
  PROVE  /\ vsnprintfEnd(s, size) \in FormatterStates
         /\ SnprintfDone(vsnprintfEnd(s, size), Text(Plain, done), size)
<1> DEFINE v == vsprintfEnd(s)
           e == vsnprintfEnd(s, size)
           t == Text(Plain, done)
<1>1. t \in Seq(Nat)
  <2>1. Literal(Zero) \in Conversions
    BY DEF Literal, Item, Conversions, Zero, NoSign
  <2> QED BY <2>1, PlainAppend, Zenon
<1>2. v \in FormatterStates /\ VsprintfDone(v, t)
  BY VsprintfEnds
<1>3. e = IF v.at >= size THEN [EndAt(v, size - 1) EXCEPT !.at = size - 1] ELSE v
  BY Zenon DEF vsnprintfEnd
<1> HIDE DEF v, e, t
<1>4. PICK i \in Nat : i = v.at
  BY <1>2 DEF FormatterStates
<1>5. /\ i <= Limit /\ v.cell[i] = NUL
      /\ Len(t) <= Limit => i = Len(t) /\ \A x \in 1 .. Len(t) : v.cell[x - 1] = t[x]
  BY <1>2, <1>4 DEF VsprintfDone
<1>6. Len(t) \in Nat
  BY <1>1
<1>7. CASE i >= size
  <2>1. PICK z \in 0 .. Top : z = size - 1 /\ z < i
    BY <1>5, <1>7, Sizes0
  <2>2. e = [EndAt(v, z) EXCEPT !.at = z]
    BY <1>3, <1>4, <1>7, <2>1
  <2>3. /\ e \in FormatterStates /\ e.at = z
        /\ \A a \in 0 .. Top : e.cell[a] = IF a = z THEN NUL ELSE v.cell[a]
    BY <1>2, <2>2, EndFields
  <2>4. e.at < size /\ e.cell[e.at] = NUL
    BY <2>1, <2>3
  <2>5. ASSUME Len(t) <= Limit
        PROVE  /\ e.at = IF Len(t) <= size - 1 THEN Len(t) ELSE size - 1
               /\ \A x \in 1 .. e.at : e.cell[x - 1] = t[x]
    <3>1. i = Len(t) /\ \A x \in 1 .. Len(t) : v.cell[x - 1] = t[x]
      BY <1>5, <2>5
    <3>2. ASSUME NEW x \in 1 .. z PROVE e.cell[x - 1] = t[x]
      <4>1. x - 1 \in 0 .. Top /\ x - 1 # z /\ x \in 1 .. Len(t)
        BY <1>6, <2>1, <3>1, Sizes0
      <4> QED BY <2>3, <3>1, <4>1
    <3>3. z = IF Len(t) <= size - 1 THEN Len(t) ELSE size - 1
      BY <1>7, <2>1, <3>1
    <3> QED BY <2>3, <3>2, <3>3
  <2> QED
    BY <2>3, <2>4, <2>5 DEF SnprintfDone, e, t
<1>8. CASE ~ (i >= size)
  <2>1. e = v
    BY <1>3, <1>4, <1>8
  <2>2. e.at < size /\ e.cell[e.at] = NUL
    BY <1>4, <1>5, <1>8, <2>1
  <2>3. ASSUME Len(t) <= Limit
        PROVE  /\ e.at = IF Len(t) <= size - 1 THEN Len(t) ELSE size - 1
               /\ \A x \in 1 .. e.at : e.cell[x - 1] = t[x]
    BY <1>4, <1>5, <1>6, <1>8, <2>1, <2>3
  <2> QED
    BY <1>2, <2>1, <2>2, <2>3 DEF SnprintfDone, e, t
<1> QED BY <1>7, <1>8

\* A set of natural numbers has a least one.
LEMMA LeastOf ==
  ASSUME NEW S \in SUBSET Nat, S # {}
  PROVE  Min(S) \in S /\ \A y \in S : Min(S) <= y
<1> DEFINE R == OpToRel(<, Nat)
<1>1. \A x, y \in Nat : y < x => <<y, x>> \in R
  BY DEF OpToRel
<1>2. IsWellFoundedOn(R, Nat)
  BY NatLessThanWellFounded, Zenon
<1> HIDE DEF R
<1>3. PICK x \in S : \A y \in S : ~ (<<y, x>> \in R)
  BY <1>2, WFMin, Zenon
<1>4. ASSUME NEW y \in S PROVE x <= y
  <2>1. x \in Nat /\ y \in Nat /\ ~ (<<y, x>> \in R)
    BY <1>3
  <2>2. ~ (y < x)
    BY <1>1, <2>1, Zenon
  <2> QED BY <2>1, <2>2
<1> QED BY <1>4, Zenon DEF Min

\* uart_puts of a buffer: characters, and the text in it if it ends where its
\* terminator is.
LEMMA PutsText ==
  ASSUME NEW cells \in Cells
  PROVE  /\ Puts(cells) \in Seq(Nat)
         /\ \A t \in Seq(Int) :
              /\ Len(t) <= Top /\ cells[Len(t)] = NUL
              /\ \A x \in 1 .. Len(t) : cells[x - 1] = t[x] /\ t[x] # NUL
              => Puts(cells) = t
<1> DEFINE end == {x \in DOMAIN cells : cells[x] = NUL}
           l   == IF end = {} THEN Max(DOMAIN cells) + 1 ELSE Min(end)
<1>1. DOMAIN cells = 0 .. Top /\ Top \in Nat /\ end \in SUBSET Nat
  BY Sizes0 DEF Cells
<1>2. Puts(cells) = [x \in 1 .. l |-> cells[x - 1]]
  BY Zenon DEF Puts
<1>3. end # {} => Min(end) \in end /\ \A y \in end : Min(end) <= y
  <2> HIDE DEF end
  <2> QED BY <1>1, LeastOf
<1>4. Max(0 .. Top) = Top
  <2>1. Top \in 0 .. Top /\ \A y \in 0 .. Top : Top >= y
    BY <1>1
  <2>2. \A x \in 0 .. Top : (\A y \in 0 .. Top : x >= y) => x = Top
    BY <1>1
  <2> QED BY <2>1, <2>2 DEF Max
<1>5. l \in 0 .. Top + 1
  <2>1. CASE end = {}
    BY <1>1, <1>4, <2>1
  <2>2. CASE end # {}
    BY <1>1, <1>3, <2>2
  <2> QED BY <2>1, <2>2
<1>6. Puts(cells) \in Seq(Nat)
  <2> HIDE DEF l
  <2>1. \A x \in 1 .. l : cells[x - 1] \in Nat
    BY <1>1, <1>5 DEF Cells
  <2> QED BY <1>2, <1>5, <2>1
<1>7. ASSUME NEW t \in Seq(Int), Len(t) <= Top, cells[Len(t)] = NUL,
             \A x \in 1 .. Len(t) : cells[x - 1] = t[x] /\ t[x] # NUL
      PROVE  Puts(cells) = t
  <2>1. Len(t) \in Nat /\ Len(t) \in end
    BY <1>1, <1>7
  <2>2. \A y \in end : Len(t) <= y
    <3> SUFFICES ASSUME NEW y \in end, ~ (Len(t) <= y) PROVE FALSE
      OBVIOUS
    <3>1. y \in Nat /\ cells[y] = NUL
      BY <1>1
    <3>2. y + 1 \in 1 .. Len(t) /\ (y + 1) - 1 = y
      BY <2>1, <3>1
    <3> QED BY <1>7, <3>1, <3>2, Zenon
  <2>3. l = Len(t)
    <3>1. end # {} /\ l = Min(end)
      BY <2>1
    <3>2. Min(end) \in Nat /\ Min(end) <= Len(t) /\ Len(t) <= Min(end)
      <4> HIDE DEF end
      <4> QED BY <1>1, <1>3, <2>1, <2>2, <3>1
    <3> HIDE DEF end
    <3> QED BY <2>1, <3>1, <3>2
  <2>4. Puts(cells) = [x \in 1 .. Len(t) |-> t[x]]
    <3> HIDE DEF l
    <3> QED BY <1>2, <1>7, <2>3
  <2>5. t = [x \in 1 .. Len(t) |-> t[x]]
    OBVIOUS
  <2> QED BY <2>4, <2>5, Zenon
<1> QED BY <1>6, <1>7

=============================================================================
