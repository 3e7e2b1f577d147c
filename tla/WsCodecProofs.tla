--------------------------- MODULE WsCodecProofs ---------------------------
(***************************************************************************)
(* The header codec, for every header and buffer: the digits that          *)
(* ws_build_header stores by repeated shifts are those read_be adds up     *)
(* again, so that what is built is parsed back (BuiltParses), and what is  *)
(* parsed is what would have been built (ParsedBuilds).  From these, the   *)
(* header parser on a byte stream, for every stream of every length:       *)
(* 64-bit lengths included, which TLC's integers do not reach; and the     *)
(* check of WsUtf8Check, for every alphabet of bytes and every length.     *)
(***************************************************************************)
EXTENDS WsCodec, WsUtf8Check, WsConnProofs

-----------------------------------------------------------------------------
(* Building.                                                                *)

\* Base 256: the lowest digit of a number, the others, and a number from both.
Low(v) == v % 256
High(v) == v \div 256
Number(q, b) == q * 256 + b

LEMMA Digit ==
    ASSUME NEW q \in Nat, NEW b \in Byte
    PROVE  Number(q, b) \in Nat /\ High(Number(q, b)) = q /\ Low(Number(q, b)) = b
BY SMT DEF Byte, Low, High, Number

LEMMA Digits ==
    ASSUME NEW v \in Nat
    PROVE  High(v) \in Nat /\ Low(v) \in Byte /\ v = Number(High(v), Low(v))
<1>1. High(v) \in Nat
  BY SMT DEF High
<1>2. Low(v) \in Byte
  BY SMT DEF Byte, Low
<1>3. v = Number(High(v), Low(v))
  BY SMT DEF High, Low, Number
<1>4. QED
  BY Zenon, <1>1, <1>2, <1>3

\* What the loop of write_be leaves in its argument after i rounds, if f is what
\* the rounds before leave.
Round(f, v, i) == IF i = 0 THEN v ELSE High(f[i - 1])

IsShifted(f, v, n) == f = [i \in 0..(n - 1) |-> Round(f, v, i)]

\* The loop has a result for every width.
LEMMA ShiftedExists ==
    ASSUME NEW v, NEW n \in Nat PROVE \E f : IsShifted(f, v, n)
<1> DEFINE Bad == {m \in Nat : ~\E f : IsShifted(f, v, m)}
<1>1. SUFFICES Bad = {}
  BY Zenon
<1>2. SUFFICES ASSUME Bad # {} PROVE FALSE
  OBVIOUS
<1>3. PICK m \in Bad : \A k \in Bad : m <= k
  BY Zenon, <1>2, LeastNumber
<1>4. m # 0
  <2>1. IsShifted([i \in 0..(0 - 1) |-> v], v, 0)
    BY SMT DEF IsShifted
  <2>2. QED
    BY Zenon, <1>3, <2>1
<1>5. PICK f : IsShifted(f, v, m - 1)
  BY SMT, <1>3, <1>4
<1> DEFINE g == [i \in 0..(m - 1) |-> Round(f, v, i)]
<1>6. ASSUME NEW i \in 0..(m - 1) PROVE Round(g, v, i) = Round(f, v, i)
  <2>1. CASE i = 0
    BY Zenon, <2>1 DEF Round
  <2>2. CASE i # 0
    <3>1. i - 1 \in 0..(m - 1) /\ i - 1 \in 0..(m - 1 - 1)
      BY SMT, <1>3, <2>2
    <3>2. g[i - 1] = f[i - 1]
      BY Zenon, <1>5, <3>1 DEF IsShifted
    <3> HIDE DEF g
    <3>3. QED
      BY SMT, <3>2 DEF Round
  <2>3. QED
    BY Zenon, <2>1, <2>2
<1>7. IsShifted(g, v, m)
  BY Zenon, <1>6 DEF IsShifted
<1>8. QED
  BY Zenon, <1>3, <1>7

\* f holds what the loop leaves, and write_be writes the lowest digits of it.
Writes(f, v, n) == IsShifted(f, v, n) /\ write_be(v, n) = [i \in 1..n |-> Low(f[n - i])]

LEMMA WriteShifted ==
    ASSUME NEW v, NEW n \in Nat PROVE \E f : Writes(f, v, n)
<1> DEFINE eqn(f) == f = [i \in 0..(n - 1) |-> IF i = 0 THEN v ELSE f[i - 1] \div 256]
           f == CHOOSE g : eqn(g)
<1>1. \A g : eqn(g) <=> IsShifted(g, v, n)
  BY Zenon DEF IsShifted, Round, High
<1>2. write_be(v, n) = [i \in 1..n |-> Low(f[n - i])]
  BY Zenon DEF write_be, Low
<1> HIDE DEF eqn
<1>3. eqn(f)
  BY Zenon, <1>1, ShiftedExists
<1> HIDE DEF f
<1>4. IsShifted(f, v, n)
  BY Zenon, <1>1, <1>3
<1>5. QED
  BY Zenon, <1>2, <1>4 DEF Writes

\* and one result only.
LEMMA ShiftedUnique ==
    ASSUME NEW v, NEW n \in Nat, NEW f, NEW g, IsShifted(f, v, n), IsShifted(g, v, n)
    PROVE  f = g
<1> DEFINE Bad == {i \in 0..(n - 1) : f[i] # g[i]}
<1>1. /\ f = [i \in 0..(n - 1) |-> Round(f, v, i)]
      /\ g = [i \in 0..(n - 1) |-> Round(g, v, i)]
  BY Zenon DEF IsShifted
<1>2. ASSUME Bad # {} PROVE FALSE
  <2>1. Bad \in SUBSET Nat
    BY SMT
  <2>2. PICK i \in Bad : \A k \in Bad : i <= k
    BY Zenon, <1>2, <2>1, LeastNumber
  <2>3. i \in 0..(n - 1) /\ f[i] # g[i]
    OBVIOUS
  <2>4. i # 0
    BY SMT, <1>1, <2>3 DEF Round
  <2>5. i - 1 \in 0..(n - 1) /\ ~(i <= i - 1)
    BY SMT, <2>3, <2>4
  <2>6. f[i - 1] = g[i - 1]
    BY Zenon, <2>2, <2>5
  <2>7. Round(f, v, i) = Round(g, v, i)
    BY Zenon, <2>6 DEF Round
  <2>8. QED
    BY Zenon, <1>1, <2>3, <2>7
<1>3. \A i \in 0..(n - 1) : f[i] = g[i]
  BY Zenon, <1>2
<1>4. QED
  BY Zenon, <1>1, <1>3

\* The bytes w and one more.
AndOne(w, n, b) == [i \in 1..(n + 1) |-> IF i = n + 1 THEN b ELSE w[i]]

\* write_be writes the lowest digit last, and in front of it the others.
LEMMA WriteDigit ==
    ASSUME NEW n \in Nat, NEW q \in Nat, NEW b \in Byte
    PROVE  write_be(Number(q, b), n + 1) = AndOne(write_be(q, n), n, b)
<1>1. PICK v : v = Number(q, b)
  OBVIOUS
<1>2. Low(v) = b /\ High(v) = q
  BY Zenon, <1>1, Digit
<1>3. PICK g : Writes(g, q, n)
  BY Zenon, WriteShifted
<1>4. n + 1 \in Nat
  BY SMT
<1>5. PICK f : Writes(f, v, n + 1)
  BY Zenon, <1>4, WriteShifted
<1> DEFINE e == [i \in 0..n |-> IF i = 0 THEN v ELSE g[i - 1]]
<1>6. IsShifted(e, v, n + 1)
  <2>1. ASSUME NEW i \in 0..n PROVE e[i] = Round(e, v, i)
    <3>1. CASE i = 0
      BY Zenon, <3>1 DEF Round
    <3>2. CASE i = 1
      <4>1. e[1] = g[0] /\ e[0] = v /\ 0 \in 0..(n - 1)
        BY SMT, <3>2
      <4>2. g[0] = q
        BY Zenon, <1>3, <4>1 DEF Writes, IsShifted, Round
      <4>3. Round(e, v, 1) = High(e[0])
        BY SMT DEF Round
      <4> HIDE DEF e
      <4>4. QED
        BY Zenon, <1>2, <3>2, <4>1, <4>2, <4>3
    <3>3. CASE i \notin {0, 1}
      <4>1. /\ i - 1 \in 0..(n - 1) /\ i - 1 # 0 /\ i - 1 \in 0..n
            /\ e[i] = g[i - 1] /\ e[i - 1] = g[i - 1 - 1]
        BY SMT, <3>3
      <4>2. g[i - 1] = High(g[i - 1 - 1])
        BY Zenon, <1>3, <4>1 DEF Writes, IsShifted, Round
      <4> HIDE DEF e
      <4>3. Round(e, v, i) = High(e[i - 1])
        BY Zenon, <3>3 DEF Round
      <4>4. QED
        BY Zenon, <4>1, <4>2, <4>3
    <3>4. QED
      BY Zenon, <3>1, <3>2, <3>3
  <2>2. e = [i \in 0..n |-> e[i]]
    BY Zenon
  <2> HIDE DEF e
  <2>3. 0..((n + 1) - 1) = 0..n
    BY SMT
  <2>4. QED
    BY Zenon, <2>1, <2>2, <2>3 DEF IsShifted
<1>7. f = e
  <2>1. IsShifted(f, v, n + 1)
    BY Zenon, <1>5 DEF Writes
  <2> HIDE DEF e
  <2>2. QED
    BY Zenon, <1>4, <1>6, <2>1, ShiftedUnique
<1>8. ASSUME NEW i \in 1..(n + 1)
      PROVE  Low(f[(n + 1) - i]) = IF i = n + 1 THEN b ELSE write_be(q, n)[i]
  <2>1. CASE i = n + 1
    <3>1. f[(n + 1) - i] = v
      BY SMT, <1>7, <2>1
    <3>2. QED
      BY Zenon, <1>2, <2>1, <3>1
  <2>2. CASE i # n + 1
    <3>1. i \in 1..n /\ f[(n + 1) - i] = g[n - i]
      BY SMT, <1>7, <2>2
    <3>2. write_be(q, n)[i] = Low(g[n - i])
      BY Zenon, <1>3, <3>1 DEF Writes
    <3>3. QED
      BY Zenon, <2>2, <3>1, <3>2
  <2>3. QED
    BY Zenon, <2>1, <2>2
<1>9. write_be(v, n + 1) = [i \in 1..(n + 1) |-> Low(f[(n + 1) - i])]
  BY Zenon, <1>5 DEF Writes
<1>10. QED
  BY Zenon, <1>1, <1>8, <1>9 DEF AndOne

\* The n bytes of buf behind the first two are what write_be writes for v.
Spells(buf, n, v) == v \in Nat /\ write_be(v, n) = [i \in 1..n |-> buf[i + 1]]

\* Nothing spells zero, and one more byte one more digit.
LEMMA SpellsNone == ASSUME NEW buf PROVE Spells(buf, 0, 0)
<1>1. PICK f : Writes(f, 0, 0)
  BY SMT, WriteShifted
<1>2. QED
  BY SMT, <1>1 DEF Writes, Spells

LEMMA SpellsMore ==
    ASSUME NEW n \in Nat, NEW m, m = n + 1, NEW k, k = n + 2,
           NEW buf, NEW q, Spells(buf, n, q), NEW b \in Byte, buf[k] = b
    PROVE  Spells(buf, m, Number(q, b))
<1>1. q \in Nat /\ write_be(q, n) = [i \in 1..n |-> buf[i + 1]]
  BY Zenon DEF Spells
<1>2. Number(q, b) \in Nat
  BY Zenon, <1>1, Digit
<1>3. write_be(Number(q, b), n + 1) = AndOne(write_be(q, n), n, b)
  BY Zenon, <1>1, WriteDigit
<1>4. ASSUME NEW i \in 1..(n + 1)
      PROVE  (IF i = n + 1 THEN b ELSE write_be(q, n)[i]) = buf[i + 1]
  <2>1. i # n + 1 => i \in 1..n
    BY SMT
  <2>2. i = n + 1 => i + 1 = n + 2
    BY SMT
  <2>3. QED
    BY Zenon, <1>1, <2>1, <2>2
<1>5. write_be(Number(q, b), m) = [i \in 1..(n + 1) |-> buf[i + 1]]
  BY Zenon, <1>3, <1>4 DEF AndOne
<1>6. QED
  BY Zenon, <1>2, <1>5 DEF Spells

LEMMA SpellsLess ==
    ASSUME NEW n \in Nat, NEW m, m = n + 1, NEW k, k = n + 2,
           NEW buf, NEW v, Spells(buf, m, v)
    PROVE  /\ Spells(buf, n, High(v)) /\ buf[k] \in Byte
           /\ v = Number(High(v), buf[k])
<1>1. v \in Nat /\ write_be(v, n + 1) = [i \in 1..(n + 1) |-> buf[i + 1]]
  BY Zenon DEF Spells
<1>2. High(v) \in Nat /\ Low(v) \in Byte /\ v = Number(High(v), Low(v))
  BY Zenon, <1>1, Digits
<1>3. PICK q, b : q = High(v) /\ b = Low(v)
  OBVIOUS
<1>4. write_be(v, n + 1) = AndOne(write_be(q, n), n, b)
  BY Zenon, <1>2, <1>3, WriteDigit
<1>5. n + 1 \in 1..(n + 1) /\ (n + 1) + 1 = k
  BY SMT
<1>6. buf[k] = b
  BY Zenon, <1>1, <1>4, <1>5 DEF AndOne
<1>7. ASSUME NEW i \in 1..n PROVE write_be(q, n)[i] = buf[i + 1]
  <2>1. i \in 1..(n + 1) /\ i # n + 1
    BY SMT
  <2>2. QED
    BY Zenon, <1>1, <1>4, <2>1 DEF AndOne
<1>8. write_be(q, n) = [i \in 1..n |-> write_be(q, n)[i]]
  <2>1. PICK f : Writes(f, q, n)
    BY Zenon, WriteShifted
  <2>2. QED
    BY Zenon, <2>1 DEF Writes
<1>9. QED
  BY Zenon, <1>2, <1>3, <1>6, <1>7, <1>8 DEF Spells

\* What read_be reads, write_be writes.
LEMMA SpelledTwo ==
    ASSUME NEW buf, NEW b2 \in Byte, NEW b3 \in Byte, buf[2] = b2, buf[3] = b3
    PROVE  Spells(buf, 2, read_be(buf, 2))
<1>0. Spells(buf, 0, 0)
  BY SpellsNone
<1>1. Spells(buf, 1, Number(0, b2))
  BY SMT, <1>0, SpellsMore
<1>2. Spells(buf, 2, Number(Number(0, b2), b3))
  BY SMT, <1>1, SpellsMore
<1>3. Number(Number(0, b2), b3) = read_be(buf, 2)
  BY SMT DEF Byte, Number, read_be
<1>4. QED
  BY Zenon, <1>2, <1>3

\* Four digits more.
FourDigits(q, a, b, c, d) == q * 65536 * 65536 + ((a * 256 + b) * 65536 + (c * 256 + d))

LEMMA FourMore ==
    ASSUME NEW q \in Int, NEW a \in Int, NEW b \in Int, NEW c \in Int, NEW d \in Int,
           NEW q3, q3 = Number(q, a), NEW q2, q2 = Number(q3, b),
           NEW q1, q1 = Number(q2, c), NEW q0, q0 = Number(q1, d)
    PROVE  q0 = FourDigits(q, a, b, c, d)
BY SMT DEF Number, FourDigits

LEMMA SpelledEight ==
    ASSUME NEW buf, \A i \in 2..9 : buf[i] \in Byte PROVE Spells(buf, 8, read_be(buf, 8))
<1>1. PICK b2, b3, b4, b5, b6, b7, b8, b9 :
          /\ buf[2] = b2 /\ buf[3] = b3 /\ buf[4] = b4 /\ buf[5] = b5
          /\ buf[6] = b6 /\ buf[7] = b7 /\ buf[8] = b8 /\ buf[9] = b9
  OBVIOUS
<1>2. /\ b2 \in Byte /\ b3 \in Byte /\ b4 \in Byte /\ b5 \in Byte
      /\ b6 \in Byte /\ b7 \in Byte /\ b8 \in Byte /\ b9 \in Byte
  BY SMT, <1>1
<1>3. Spells(buf, 0, 0)
  BY SpellsNone
<1>4. PICK q7 : q7 = Number(0, b2) /\ Spells(buf, 1, q7)
  <2>1. buf[2] = b2 /\ b2 \in Byte
    BY Zenon, <1>1, <1>2
  <2>2. Spells(buf, 1, Number(0, b2))
    BY SMT, <1>3, <2>1, SpellsMore
  <2>3. QED
    BY Zenon, <2>2
<1>5. PICK q6 : q6 = Number(q7, b3) /\ Spells(buf, 2, q6)
  <2>1. buf[3] = b3 /\ b3 \in Byte
    BY Zenon, <1>1, <1>2
  <2>2. Spells(buf, 2, Number(q7, b3))
    BY SMT, <1>4, <2>1, SpellsMore
  <2>3. QED
    BY Zenon, <2>2
<1>6. PICK q5 : q5 = Number(q6, b4) /\ Spells(buf, 3, q5)
  <2>1. buf[4] = b4 /\ b4 \in Byte
    BY Zenon, <1>1, <1>2
  <2>2. Spells(buf, 3, Number(q6, b4))
    BY SMT, <1>5, <2>1, SpellsMore
  <2>3. QED
    BY Zenon, <2>2
<1>7. PICK q4 : q4 = Number(q5, b5) /\ Spells(buf, 4, q4)
  <2>1. buf[5] = b5 /\ b5 \in Byte
    BY Zenon, <1>1, <1>2
  <2>2. Spells(buf, 4, Number(q5, b5))
    BY SMT, <1>6, <2>1, SpellsMore
  <2>3. QED
    BY Zenon, <2>2
<1>8. PICK q3 : q3 = Number(q4, b6) /\ Spells(buf, 5, q3)
  <2>1. buf[6] = b6 /\ b6 \in Byte
    BY Zenon, <1>1, <1>2
  <2>2. Spells(buf, 5, Number(q4, b6))
    BY SMT, <1>7, <2>1, SpellsMore
  <2>3. QED
    BY Zenon, <2>2
<1>9. PICK q2 : q2 = Number(q3, b7) /\ Spells(buf, 6, q2)
  <2>1. buf[7] = b7 /\ b7 \in Byte
    BY Zenon, <1>1, <1>2
  <2>2. Spells(buf, 6, Number(q3, b7))
    BY SMT, <1>8, <2>1, SpellsMore
  <2>3. QED
    BY Zenon, <2>2
<1>10. PICK q1 : q1 = Number(q2, b8) /\ Spells(buf, 7, q1)
  <2>1. buf[8] = b8 /\ b8 \in Byte
    BY Zenon, <1>1, <1>2
  <2>2. Spells(buf, 7, Number(q2, b8))
    BY SMT, <1>9, <2>1, SpellsMore
  <2>3. QED
    BY Zenon, <2>2
<1>11. PICK q0 : q0 = Number(q1, b9) /\ Spells(buf, 8, q0)
  <2>1. buf[9] = b9 /\ b9 \in Byte
    BY Zenon, <1>1, <1>2
  <2>2. Spells(buf, 8, Number(q1, b9))
    BY SMT, <1>10, <2>1, SpellsMore
  <2>3. QED
    BY Zenon, <2>2
<1>12. q0 = ((b2 * 256 + b3) * 65536 + (b4 * 256 + b5)) * 65536 * 65536
               + ((b6 * 256 + b7) * 65536 + (b8 * 256 + b9))
  <2>1. 0 \in Int /\ q4 \in Int
    <3>1. q4 \in Nat
      BY Zenon, <1>7 DEF Spells
    <3>2. QED
      BY SMT, <3>1
  <2>2. /\ b2 \in Int /\ b3 \in Int /\ b4 \in Int /\ b5 \in Int
        /\ b6 \in Int /\ b7 \in Int /\ b8 \in Int /\ b9 \in Int
    <3>1. \A b \in Byte : b \in Int
      BY SMT DEF Byte
    <3>2. QED
      BY SMTT(30), <1>2, <3>1
  <2>3. q4 = FourDigits(0, b2, b3, b4, b5)
    <3>1. q7 = Number(0, b2) /\ q6 = Number(q7, b3) /\ q5 = Number(q6, b4) /\ q4 = Number(q5, b5)
      BY Zenon, <1>4, <1>5, <1>6, <1>7
    <3>2. QED
      BY SMT, <2>1, <2>2, <3>1, FourMore
  <2>4. q0 = FourDigits(q4, b6, b7, b8, b9)
    <3>1. q3 = Number(q4, b6) /\ q2 = Number(q3, b7) /\ q1 = Number(q2, b8) /\ q0 = Number(q1, b9)
      BY Zenon, <1>8, <1>9, <1>10, <1>11
    <3>2. QED
      BY SMT, <2>1, <2>2, <3>1, FourMore
  <2>5. QED
    BY SMT, <2>1, <2>2, <2>3, <2>4 DEF FourDigits
<1>13. q0 = read_be(buf, 8)
  <2>1. read_be(buf, 8) = ((buf[2] * 256 + buf[3]) * 65536 + (buf[4] * 256 + buf[5])) * 65536 * 65536
                             + ((buf[6] * 256 + buf[7]) * 65536 + (buf[8] * 256 + buf[9]))
    BY SMT DEF read_be
  <2>2. QED
    BY SMT, <1>1, <1>12, <2>1
<1>14. QED
  BY Zenon, <1>11, <1>13

\* What write_be writes, read_be reads: 16 bits from two bytes,
LEMMA ReadTwo ==
    ASSUME NEW buf, NEW v \in UInt16, Spells(buf, 2, v) PROVE read_be(buf, 2) = v
<1>1. PICK q1, b3 : /\ Spells(buf, 1, q1) /\ b3 \in Byte /\ buf[3] = b3
                    /\ v = Number(q1, b3)
  BY SMT, SpellsLess
<1>2. PICK q2, b2 : /\ Spells(buf, 0, q2) /\ b2 \in Byte /\ buf[2] = b2
                    /\ q1 = Number(q2, b2)
  BY SMT, <1>1, SpellsLess
<1>3. q2 \in Nat /\ q1 \in Nat
  BY Zenon, <1>1, <1>2 DEF Spells
<1>4. v = b2 * 256 + b3
  BY SMT, <1>1, <1>2, <1>3 DEF Byte, Number, UInt16
<1>5. QED
  BY SMT, <1>1, <1>2, <1>4 DEF Byte, read_be

\* and 63 bits from eight, the top bit clear.
High2(v) == v \div 65536
Below63(v) == High2(High2(High2(v))) < 32768

LEMMA TwoDigits ==
    ASSUME NEW q \in Nat, NEW b \in Byte, NEW c \in Byte,
           NEW p, p = Number(q, b), NEW v, v = Number(p, c)
    PROVE  High2(v) = q
BY SMT DEF Byte, Number, High2

LEMMA TopBit ==
    ASSUME NEW q \in Nat, NEW b \in Byte, NEW c \in Byte,
           NEW p, p = Number(q, b), NEW v, v = Number(p, c)
    PROVE  v < 32768 <=> q = 0 /\ b < 128
BY SMT DEF Byte, Number

LEMMA EightDigits ==
    ASSUME NEW buf, NEW v \in Nat, Spells(buf, 8, v)
    PROVE  \E q : /\ Below63(v) <=> q = 0 /\ buf[2] < 128
                  /\ q = 0 <=> v = read_be(buf, 8)
<1>1. PICK q1, b9 : /\ Spells(buf, 7, q1) /\ b9 \in Byte /\ buf[9] = b9
                    /\ v = Number(q1, b9)
  BY SMT, SpellsLess
<1>2. PICK q2, b8 : /\ Spells(buf, 6, q2) /\ b8 \in Byte /\ buf[8] = b8
                    /\ q1 = Number(q2, b8)
  BY SMT, <1>1, SpellsLess
<1>3. PICK q3, b7 : /\ Spells(buf, 5, q3) /\ b7 \in Byte /\ buf[7] = b7
                    /\ q2 = Number(q3, b7)
  BY SMT, <1>2, SpellsLess
<1>4. PICK q4, b6 : /\ Spells(buf, 4, q4) /\ b6 \in Byte /\ buf[6] = b6
                    /\ q3 = Number(q4, b6)
  BY SMT, <1>3, SpellsLess
<1>5. PICK q5, b5 : /\ Spells(buf, 3, q5) /\ b5 \in Byte /\ buf[5] = b5
                    /\ q4 = Number(q5, b5)
  BY SMT, <1>4, SpellsLess
<1>6. PICK q6, b4 : /\ Spells(buf, 2, q6) /\ b4 \in Byte /\ buf[4] = b4
                    /\ q5 = Number(q6, b4)
  BY SMT, <1>5, SpellsLess
<1>7. PICK q7, b3 : /\ Spells(buf, 1, q7) /\ b3 \in Byte /\ buf[3] = b3
                    /\ q6 = Number(q7, b3)
  BY SMT, <1>6, SpellsLess
<1>8. PICK q8, b2 : /\ Spells(buf, 0, q8) /\ b2 \in Byte /\ buf[2] = b2
                    /\ q7 = Number(q8, b2)
  BY SMT, <1>7, SpellsLess
<1>9. /\ q1 \in Nat /\ q2 \in Nat /\ q3 \in Nat /\ q4 \in Nat
      /\ q5 \in Nat /\ q6 \in Nat /\ q7 \in Nat /\ q8 \in Nat
  BY Zenon, <1>1, <1>2, <1>3, <1>4, <1>5, <1>6, <1>7, <1>8 DEF Spells
<1>10. /\ v = Number(q1, b9) /\ q1 = Number(q2, b8) /\ q2 = Number(q3, b7)
       /\ q3 = Number(q4, b6) /\ q4 = Number(q5, b5) /\ q5 = Number(q6, b4)
       /\ q6 = Number(q7, b3) /\ q7 = Number(q8, b2)
  BY Zenon, <1>1, <1>2, <1>3, <1>4, <1>5, <1>6, <1>7, <1>8
<1>11. /\ b2 \in Byte /\ b3 \in Byte /\ b4 \in Byte /\ b5 \in Byte
       /\ b6 \in Byte /\ b7 \in Byte /\ b8 \in Byte /\ b9 \in Byte
  BY Zenon, <1>1, <1>2, <1>3, <1>4, <1>5, <1>6, <1>7, <1>8
<1>12. /\ buf[2] = b2 /\ buf[3] = b3 /\ buf[4] = b4 /\ buf[5] = b5
       /\ buf[6] = b6 /\ buf[7] = b7 /\ buf[8] = b8 /\ buf[9] = b9
  BY Zenon, <1>1, <1>2, <1>3, <1>4, <1>5, <1>6, <1>7, <1>8
<1>13. Below63(v) <=> q8 = 0 /\ b2 < 128
  <2>1. High2(v) = q2 /\ High2(q2) = q4 /\ High2(q4) = q6
    BY SMTT(30), <1>9, <1>10, <1>11, TwoDigits
  <2>2. q6 < 32768 <=> q8 = 0 /\ b2 < 128
    BY SMTT(30), <1>9, <1>10, <1>11, TopBit
  <2>3. QED
    BY SMT, <2>1, <2>2 DEF Below63
<1>14. q8 = 0 <=> v = ((b2 * 256 + b3) * 65536 + (b4 * 256 + b5)) * 65536 * 65536
                      + ((b6 * 256 + b7) * 65536 + (b8 * 256 + b9))
  BY SMT, <1>9, <1>10, <1>11 DEF Byte, Number
<1>15. q8 = 0 <=> v = read_be(buf, 8)
  BY SMT, <1>12, <1>14 DEF read_be
<1>16. QED
  BY Zenon, <1>12, <1>13, <1>15

LEMMA ReadEight ==
    ASSUME NEW buf, NEW v \in Nat, Below63(v), Spells(buf, 8, v)
    PROVE  read_be(buf, 8) = v /\ buf[2] < 128
BY Zenon, EightDigits

-----------------------------------------------------------------------------
(* A header's bytes, one by one.                                            *)

\* What write_be writes are bytes.
LEMMA WriteBytes ==
    ASSUME NEW n \in Nat, NEW v \in Nat PROVE write_be(v, n) \in [1..n -> Byte]
<1>1. PICK f : Writes(f, v, n)
  BY Zenon, WriteShifted
<1>2. f = [i \in 0..(n - 1) |-> Round(f, v, i)]
  BY Zenon, <1>1 DEF Writes, IsShifted
<1> DEFINE Bad == {i \in 0..(n - 1) : f[i] \notin Nat}
<1>3. ASSUME Bad # {} PROVE FALSE
  <2>1. Bad \in SUBSET Nat
    BY SMT
  <2>2. PICK i \in Bad : \A k \in Bad : i <= k
    BY Zenon, <1>3, <2>1, LeastNumber
  <2>3. i \in 0..(n - 1) /\ f[i] \notin Nat /\ f[i] = Round(f, v, i)
    BY Zenon, <1>2
  <2>4. i # 0
    BY Zenon, <2>3 DEF Round
  <2>5. i - 1 \in 0..(n - 1) /\ ~(i <= i - 1)
    BY SMT, <2>3, <2>4
  <2>6. f[i - 1] \in Nat
    BY Zenon, <2>2, <2>5
  <2>7. QED
    BY Zenon, <2>3, <2>4, <2>6, Digits DEF Round
<1>4. \A i \in 1..n : Low(f[n - i]) \in Byte
  <2>1. \A i \in 1..n : n - i \in 0..(n - 1)
    BY SMT
  <2>2. QED
    BY Zenon, <1>3, <2>1, Digits
<1>5. QED
  BY Zenon, <1>1, <1>4 DEF Writes

\* The widths of the length field, and of the whole header.
ExtOf(h) == hdr_len(h.payload_len) - 2
KeyOf(h) == IF h.masked THEN 4 ELSE 0

LEMMA Widths ==
    ASSUME NEW h \in Header
    PROVE  /\ h.payload_len \in Nat /\ h.payload_len < 126 => ExtOf(h) = 0
           /\ h.payload_len >= 126 /\ h.payload_len < 65536 => ExtOf(h) = 2
           /\ h.payload_len >= 65536 => ExtOf(h) = 8
           /\ ExtOf(h) \in {0, 2, 8} /\ hdr_len(h.payload_len) = 2 + ExtOf(h)
           /\ KeyOf(h) \in {0, 4}
BY SMT DEF Header, ExtOf, KeyOf, hdr_len

\* The two bytes every header has, and what the parser takes from them.
IsFirst(b, fin, op) == (b >= 128 <=> fin) /\ (b \div 16) % 8 = 0 /\ b % 16 = op

IsSecond(b, m, n) ==
    (b >= 128 <=> m) /\ b % 128 = len_field(n) /\ ext_bytes(b % 128) = hdr_len(n) - 2

LEMMA FirstByteRead ==
    ASSUME NEW fin \in BOOLEAN, NEW op \in 0..15
    PROVE  HighBit(fin) + (op % 16) \in Byte /\ IsFirst(HighBit(fin) + (op % 16), fin, op)
<1>1. op % 16 = op
  BY SMT
<1>2. CASE fin
  BY SMT, <1>1, <1>2 DEF HighBit, Byte, IsFirst
<1>3. CASE ~fin
  BY SMT, <1>1, <1>3 DEF HighBit, Byte, IsFirst
<1>4. QED
  BY Zenon, <1>2, <1>3

LEMMA SecondByteRead ==
    ASSUME NEW m \in BOOLEAN, NEW n \in Nat
    PROVE  /\ HighBit(m) + len_field(n) \in Byte
           /\ IsSecond(HighBit(m) + len_field(n), m, n)
<1>1. /\ len_field(n) \in 0..127 /\ ext_bytes(len_field(n)) = hdr_len(n) - 2
  BY SMT DEF len_field, hdr_len, ext_bytes
<1>2. PICK l \in 0..127 : l = len_field(n)
  BY Zenon, <1>1
<1>3. PICK b : b = HighBit(m) + l
  OBVIOUS
<1>4. b \in Byte /\ (b >= 128 <=> m) /\ b % 128 = l
  <2>1. CASE m
    BY SMT, <1>2, <1>3, <2>1 DEF HighBit, Byte
  <2>2. CASE ~m
    BY SMT, <1>2, <1>3, <2>2 DEF HighBit, Byte
  <2>3. QED
    BY Zenon, <2>1, <2>2
<1>5. QED
  BY SMT, <1>1, <1>2, <1>3, <1>4 DEF IsSecond

\* HeaderBytes puts the flags and the opcode first, then the mask bit and the short
\* length, the long length if there is one, and the key.
IsHeader(s, h, e, k) ==
    /\ s \in Seq(Byte) /\ Len(s) = 2 + e + k
    /\ IsFirst(s[1], h.fin, h.opcode) /\ IsSecond(s[2], h.masked, h.payload_len)
    /\ \A i \in 1..e : s[i + 2] = write_be(h.payload_len, e)[i]
    /\ h.masked => \A i \in 0..3 : s[3 + e + i] = h.mask_key[i]

LEMMA HeaderShape ==
    ASSUME NEW h \in Header, NEW e \in Nat, e = ExtOf(h), NEW k \in Nat, k = KeyOf(h)
    PROVE  IsHeader(HeaderBytes(h), h, e, k)
<1>1. PICK a, b, f, g :
          /\ a = HighBit(h.fin) + (h.opcode % 16)
          /\ b = HighBit(h.masked) + len_field(h.payload_len)
          /\ f = write_be(h.payload_len, e)
          /\ g = IF h.masked THEN [i \in 1..4 |-> h.mask_key[i - 1]] ELSE << >>
  BY Zenon
<1>2. HeaderBytes(h) = << a, b >> \o f \o g
  BY Zenon, <1>1 DEF HeaderBytes, ExtOf
<1>3. /\ h.payload_len \in Nat /\ h.opcode \in 0..15 /\ h.mask_key \in [0..3 -> Byte]
      /\ h.fin \in BOOLEAN /\ h.masked \in BOOLEAN
  BY Zenon DEF Header
<1>4. a \in Byte /\ IsFirst(a, h.fin, h.opcode)
  BY Zenon, <1>1, <1>3, FirstByteRead
<1>5. b \in Byte /\ IsSecond(b, h.masked, h.payload_len)
  BY Zenon, <1>1, <1>3, SecondByteRead
<1>6. f \in [1..e -> Byte]
  BY Zenon, <1>1, <1>3, WriteBytes
<1>7. g \in [1..k -> Byte] /\ (h.masked => k = 4 /\ \A i \in 1..4 : g[i] = h.mask_key[i - 1])
  BY SMT, <1>1, <1>3 DEF KeyOf
<1>8. PICK s : s = << a, b >> \o f \o g
  BY Zenon
<1>9. Len(s) = 2 + e + k /\ s = Parts(a, b, e, f, k, g)
  <2>1. a \in Byte /\ b \in Byte /\ f \in [1..e -> Byte] /\ g \in [1..k -> Byte]
    BY Zenon, <1>4, <1>5, <1>6, <1>7
  <2>2. IsJoin(<< a, b >> \o f \o g, a, b, e, f, k, g)
    BY Zenon, <2>1, Joined
  <2>3. QED
    BY Zenon, <1>8, <2>2 DEF IsJoin
<1>10. s[1] = a /\ s[2] = b
  BY SMT, <1>9 DEF Parts
<1>11. ASSUME NEW i \in 1..e PROVE s[i + 2] = f[i]
  BY SMT, <1>9 DEF Parts
<1>12. ASSUME h.masked, NEW i \in 0..3 PROVE s[3 + e + i] = h.mask_key[i]
  <2>1. s[3 + e + i] = g[i + 1]
    BY SMTT(30), <1>7, <1>9, <1>12 DEF Parts
  <2>2. i + 1 \in 1..4 /\ (i + 1) - 1 = i
    BY SMT
  <2>3. QED
    BY Zenon, <1>7, <1>12, <2>1, <2>2
<1>13. ASSUME NEW i \in 1..(2 + e + k) PROVE s[i] \in Byte
  <2>1. CASE i <= 2
    <3>1. i = 1 \/ i = 2
      BY SMT, <2>1
    <3>2. QED
      BY Zenon, <1>4, <1>5, <1>10, <3>1
  <2>2. CASE i > 2 /\ i <= 2 + e
    <3>1. i - 2 \in 1..e /\ s[i] = f[i - 2]
      BY SMT, <1>9, <2>2 DEF Parts
    <3>2. QED
      BY Zenon, <1>6, <3>1
  <2>3. CASE i > 2 + e
    <3>1. i - (2 + e) \in 1..k /\ s[i] = g[i - (2 + e)]
      BY SMT, <1>9, <2>3 DEF Parts
    <3>2. QED
      BY Zenon, <1>7, <3>1
  <2>4. QED
    BY SMT, <2>1, <2>2, <2>3
<1>14. s \in Seq(Byte)
  <2>1. s \in [1..(2 + e + k) -> Byte]
    BY Zenon, <1>9, <1>13 DEF Parts
  <2>2. QED
    BY SMT, <2>1
<1>15. IsHeader(s, h, e, k)
  BY Zenon, <1>1, <1>4, <1>5, <1>9, <1>10, <1>11, <1>12, <1>14 DEF IsHeader
<1>16. QED
  BY Zenon, <1>2, <1>8, <1>15

LEMMA HeaderLength ==
    ASSUME NEW h \in Header
    PROVE  HeaderBytes(h) \in Seq(Byte) /\ Len(HeaderBytes(h)) \in 2..14
<1>1. h.payload_len \in Nat
  BY Zenon DEF Header
<1>2. PICK e \in {0, 2, 8}, k \in {0, 4} : e = ExtOf(h) /\ k = KeyOf(h)
  <2>1. ExtOf(h) \in {0, 2, 8}
    BY SMT, <1>1 DEF ExtOf, hdr_len
  <2>2. KeyOf(h) \in {0, 4}
    BY Zenon DEF KeyOf
  <2>3. QED
    BY Zenon, <2>1, <2>2
<1>3. e \in Nat /\ k \in Nat /\ 2 + e + k \in 2..14
  BY SMT
<1>4. IsHeader(HeaderBytes(h), h, e, k)
  BY Zenon, <1>2, <1>3, HeaderShape
<1>5. QED
  BY Zenon, <1>3, <1>4 DEF IsHeader

-----------------------------------------------------------------------------
(* The parser and the builder are inverse to each other.                    *)

\* The n bytes of s are the first n of buf.
StartsWith(buf, s, n) == \A i \in 1..n : buf[i - 1] = s[i]

\* The long length is read back as it was written, in its shortest form.
LEMMA LengthRead ==
    ASSUME NEW h \in Header, Below63(h.payload_len), NEW e \in Nat, e = ExtOf(h),
           NEW k \in Nat, k = KeyOf(h), NEW buf, NEW s, IsHeader(s, h, e, k),
           StartsWith(buf, s, 2 + e + k)
    PROVE  raw_len(buf, e) = h.payload_len /\ len_ok(buf, e)
<1>1. PICK v \in Nat : v = h.payload_len
  BY Zenon DEF Header
<1>2. /\ v < 126 => e = 0
      /\ v >= 126 /\ v < 65536 => e = 2
      /\ v >= 65536 => e = 8
      /\ hdr_len(v) = 2 + e
  BY SMT, <1>1, Widths
<1>3. buf[1] = s[2]
  <2>1. 2 \in 1..(2 + e + k) /\ 2 - 1 = 1
    BY SMT
  <2>2. QED
    BY Zenon, <2>1 DEF StartsWith
<1>4. Spells(buf, e, v)
  <2>1. ASSUME NEW i \in 1..e PROVE write_be(v, e)[i] = buf[i + 1]
    <3>1. i + 2 \in 1..(2 + e + k) /\ (i + 2) - 1 = i + 1
      BY SMT
    <3>2. s[i + 2] = write_be(v, e)[i]
      BY Zenon, <1>1 DEF IsHeader
    <3>3. buf[i + 1] = s[i + 2]
      BY Zenon, <3>1 DEF StartsWith
    <3>4. QED
      BY Zenon, <3>2, <3>3
  <2>2. write_be(v, e) \in [1..e -> Byte]
    BY Zenon, WriteBytes
  <2>3. QED
    BY Zenon, <2>1, <2>2 DEF Spells
<1>5. CASE v < 126
  <2>1. e = 0 /\ len_field(v) = v
    BY SMT, <1>2, <1>5 DEF len_field
  <2>2. buf[1] % 128 = len_field(v)
    BY Zenon, <1>1, <1>3 DEF IsHeader, IsSecond
  <2>3. QED
    BY SMT, <1>1, <2>1, <2>2 DEF raw_len, len_ok
<1>6. CASE v >= 126 /\ v < 65536
  <2>1. e = 2 /\ v \in UInt16
    BY SMT, <1>2, <1>6 DEF UInt16
  <2>2. read_be(buf, 2) = v
    BY SMT, <1>4, <2>1, ReadTwo
  <2>3. raw_len(buf, 2) = v
    BY SMT, <2>2 DEF raw_len
  <2>4. QED
    BY SMT, <1>1, <1>6, <2>1, <2>3 DEF len_ok
<1>7. CASE v >= 65536
  <2>1. e = 8
    BY SMT, <1>2, <1>7
  <2>2. read_be(buf, 8) = v /\ buf[2] < 128
    BY SMT, <1>1, <1>4, <2>1, ReadEight
  <2>3. raw_len(buf, 8) = v
    BY SMT, <2>2 DEF raw_len
  <2>4. QED
    BY SMT, <1>1, <1>7, <2>1, <2>2, <2>3 DEF len_ok
<1>8. QED
  BY SMT, <1>5, <1>6, <1>7

\* A header that ws_parse_header accepts, with the key the parser leaves when it
\* carries none.
WellFormed(h) == /\ h \in Header /\ header_well_formed(h) /\ Below63(h.payload_len)
                 /\ h.masked \/ h.mask_key = NoKey

\* The fields the parser takes from the two bytes and the length.
Bare(h) == [fin |-> h.fin, rsv |-> 0, opcode |-> h.opcode, masked |-> h.masked,
            payload_len |-> h.payload_len, mask_key |-> NoKey]

Reads(buf, len, e, h) ==
    ws_parse_header(buf, len) =
        IF ~header_well_formed(h) THEN Parsed(WS_ERR_PROTOCOL, h)
        ELSE parse_mask(buf, len, 2 + e, h)

LEMMA HeaderRead ==
    ASSUME NEW h \in Header, Below63(h.payload_len), NEW e \in Nat, e = ExtOf(h),
           NEW k \in Nat, k = KeyOf(h), NEW s, IsHeader(s, h, e, k),
           NEW buf, StartsWith(buf, s, 2 + e + k), NEW len \in Nat, len >= 2 + e + k
    PROVE  Reads(buf, len, e, Bare(h))
<1>1. raw_len(buf, e) = h.payload_len /\ len_ok(buf, e)
  BY Zenon, LengthRead
<1>2. buf[0] = s[1] /\ buf[1] = s[2]
  BY SMT DEF StartsWith
<1>3. IsFirst(buf[0], h.fin, h.opcode) /\ IsSecond(buf[1], h.masked, h.payload_len)
  BY Zenon, <1>2 DEF IsHeader
<1>4. ext_bytes(buf[1] % 128) = e
  BY SMT, <1>3 DEF IsSecond, ExtOf
<1>5. PICK g : g = fill_fields(buf, h.payload_len)
  BY Zenon
<1>6. g = Bare(h)
  <2>1. h.fin \in BOOLEAN /\ h.masked \in BOOLEAN
    BY Zenon DEF Header
  <2>2. (buf[0] >= 128) = h.fin /\ (buf[1] >= 128) = h.masked
    BY SMT, <1>3, <2>1 DEF IsFirst, IsSecond
  <2>3. (buf[0] \div 16) % 8 = 0 /\ buf[0] % 16 = h.opcode
    BY SMT, <1>3 DEF IsFirst
  <2>4. QED
    BY SMT, <1>5, <2>2, <2>3 DEF fill_fields, Bare
<1>7. ~(len < 2) /\ ~(len < 2 + e)
  BY SMT
<1>8. QED
  BY Zenon, <1>1, <1>4, <1>5, <1>6, <1>7 DEF ws_parse_header, Reads

LEMMA BuiltReads ==
    ASSUME NEW h \in Header, Below63(h.payload_len), NEW len \in Nat, NEW buf,
           len >= Len(HeaderBytes(h)), StartsWith(buf, HeaderBytes(h), Len(HeaderBytes(h))),
           NEW e, e = ExtOf(h)
    PROVE  Reads(buf, len, e, Bare(h))
<1>1. e \in Nat
  BY SMT, Widths
<1>2. PICK k \in Nat : k = KeyOf(h)
  BY SMT, Widths
<1>3. PICK s : s = HeaderBytes(h)
  BY Zenon
<1>4. IsHeader(s, h, e, k)
  BY Zenon, <1>1, <1>2, <1>3, HeaderShape
<1>5. Len(s) = 2 + e + k /\ StartsWith(buf, s, 2 + e + k) /\ len >= 2 + e + k
  BY Zenon, <1>3, <1>4 DEF IsHeader
<1>6. QED
  BY SMTT(30), <1>1, <1>2, <1>4, <1>5, HeaderRead

\* The parser reads back the header ws_build_header wrote, whatever follows it.
LEMMA BuiltParses ==
    ASSUME NEW h, WellFormed(h), NEW len \in Nat, NEW buf,
           len >= Len(HeaderBytes(h)), StartsWith(buf, HeaderBytes(h), Len(HeaderBytes(h)))
    PROVE  ws_parse_header(buf, len) = Parsed(Len(HeaderBytes(h)), h)
<1>1. /\ h \in Header /\ header_well_formed(h) /\ Below63(h.payload_len)
      /\ h.masked \/ h.mask_key = NoKey
  BY Zenon DEF WellFormed
<1>2. PICK e \in Nat, k \in Nat : e = ExtOf(h) /\ k = KeyOf(h)
  BY SMT, <1>1, Widths
<1>3. PICK s : s = HeaderBytes(h)
  BY Zenon
<1>4. IsHeader(s, h, e, k)
  BY Zenon, <1>1, <1>2, <1>3, HeaderShape
<1>5. Len(s) = 2 + e + k /\ StartsWith(buf, s, 2 + e + k) /\ len >= 2 + e + k
  BY Zenon, <1>3, <1>4 DEF IsHeader
<1>10. PICK g : g = Bare(h)
  BY Zenon
<1>11. /\ g = [fin |-> h.fin, rsv |-> 0, opcode |-> h.opcode, masked |-> h.masked,
               payload_len |-> h.payload_len, mask_key |-> NoKey]
  BY Zenon, <1>10 DEF Bare
<1>12. header_well_formed(g) /\ g.masked = h.masked
  BY SMT, <1>1, <1>11 DEF header_well_formed
<1>13. ws_parse_header(buf, len) = parse_mask(buf, len, 2 + e, g)
  <2>1. h \in Header /\ Below63(h.payload_len)
    BY Zenon, <1>1
  <2>2. Reads(buf, len, e, Bare(h))
    BY Zenon, <2>1, <1>2, BuiltReads
  <2>3. QED
    BY Zenon, <1>10, <1>12, <2>2 DEF Reads
<1>14. h = [fin |-> h.fin, rsv |-> 0, opcode |-> h.opcode, masked |-> h.masked,
            payload_len |-> h.payload_len, mask_key |-> h.mask_key]
  BY SMT, <1>1 DEF Header, header_well_formed
<1>15. CASE ~h.masked
  <2>1. g = h /\ k = 0
    BY SMTT(30), <1>1, <1>2, <1>11, <1>14, <1>15 DEF KeyOf
  <2>2. QED
    BY SMTT(30), <1>3, <1>5, <1>13, <1>15, <2>1 DEF parse_mask
<1>16. CASE h.masked
  <2>1. k = 4
    BY Zenon, <1>2, <1>16 DEF KeyOf
  <2>2. [i \in 0..3 |-> buf[2 + e + i]] = h.mask_key
    <3>1. ASSUME NEW i \in 0..3 PROVE buf[2 + e + i] = h.mask_key[i]
      <4>1. 3 + e + i \in 1..(2 + e + k) /\ (3 + e + i) - 1 = 2 + e + i
        BY SMT, <2>1
      <4>2. s[3 + e + i] = h.mask_key[i]
        BY Zenon, <1>4, <1>16 DEF IsHeader
      <4>3. buf[2 + e + i] = s[3 + e + i]
        BY Zenon, <1>5, <4>1 DEF StartsWith
      <4>4. QED
        BY Zenon, <4>2, <4>3
    <3>2. h.mask_key \in [0..3 -> Byte]
      BY Zenon, <1>1 DEF Header
    <3>3. QED
      BY Zenon, <3>1, <3>2
  <2>3. [g EXCEPT !.mask_key = h.mask_key] = h
    BY SMT, <1>11, <1>14
  <2>4. ~(len < 2 + e + 4)
    BY SMT, <1>5, <2>1
  <2>5. parse_mask(buf, len, 2 + e, g) = Parsed(2 + e + 4, h)
    BY Zenon, <1>12, <1>16, <2>2, <2>3, <2>4 DEF parse_mask
  <2>6. QED
    BY Zenon, <1>3, <1>5, <1>13, <2>1, <2>5
<1>17. QED
  BY Zenon, <1>15, <1>16

\* and refuses one the builder did not check: nothing to wait for, nothing ready.
LEMMA BuiltRefused ==
    ASSUME NEW h \in Header, Below63(h.payload_len), h.rsv = 0, ~header_well_formed(h),
           NEW len \in Nat, NEW buf,
           len >= Len(HeaderBytes(h)), StartsWith(buf, HeaderBytes(h), Len(HeaderBytes(h)))
    PROVE  ws_parse_header(buf, len).rc = WS_ERR_PROTOCOL
<1>1. ~header_well_formed(Bare(h))
  <2>1. /\ Bare(h).rsv = 0 /\ Bare(h).opcode = h.opcode
        /\ Bare(h).payload_len = h.payload_len /\ Bare(h).fin = h.fin
    BY Zenon DEF Bare
  <2>2. QED
    BY Zenon, <2>1 DEF header_well_formed
<1>2. Reads(buf, len, ExtOf(h), Bare(h))
  BY Zenon, BuiltReads
<1>3. ws_parse_header(buf, len) = Parsed(WS_ERR_PROTOCOL, Bare(h))
  BY Zenon, <1>1, <1>2 DEF Reads
<1>4. QED
  BY SMT, <1>3 DEF Parsed

\* The first two bytes hold nothing but what the parser takes from them.
LEMMA NoReserved ==
    ASSUME NEW a \in Byte, (a \div 16) % 8 = 0
    PROVE  a = (IF a >= 128 THEN 128 ELSE 0) + (a % 16)
<1>1. PICK x \in 0..15, y \in 0..15 : x = a \div 16 /\ y = a % 16 /\ a = 16 * x + y
  BY SMT DEF Byte
<1>2. x = 0 \/ x = 8
  BY SMT, <1>1
<1>3. QED
  BY SMT, <1>1, <1>2

LEMMA FirstUnique ==
    ASSUME NEW a \in Byte, NEW b \in Byte, NEW fin, NEW op,
           IsFirst(a, fin, op), IsFirst(b, fin, op)
    PROVE  a = b
<1>1. (a >= 128 <=> b >= 128) /\ a % 16 = b % 16
  BY SMT DEF IsFirst
<1>2. /\ a = (IF a >= 128 THEN 128 ELSE 0) + (a % 16)
      /\ b = (IF b >= 128 THEN 128 ELSE 0) + (b % 16)
  BY SMT, NoReserved DEF IsFirst
<1>3. QED
  BY SMT, <1>1, <1>2

LEMMA SecondUnique ==
    ASSUME NEW a \in Byte, NEW b \in Byte, NEW m, NEW n, IsSecond(a, m, n), IsSecond(b, m, n)
    PROVE  a = b
<1>1. (a >= 128 <=> b >= 128) /\ a % 128 = b % 128
  BY SMT DEF IsSecond
<1>2. QED
  BY SMTT(30), <1>1 DEF Byte

\* The three forms of a length.
LEMMA ShortForm ==
    ASSUME NEW v \in Nat, v < 126
    PROVE  hdr_len(v) = 2 /\ len_field(v) = v /\ Below63(v)
BY SMT DEF hdr_len, len_field, Below63, High2

LEMMA MediumForm ==
    ASSUME NEW v \in UInt16, v >= 126
    PROVE  hdr_len(v) = 4 /\ len_field(v) = 126 /\ Below63(v)
BY SMT DEF hdr_len, len_field, Below63, High2, UInt16

LEMMA LongForm ==
    ASSUME NEW v \in Nat, v > 65535 PROVE hdr_len(v) = 10 /\ len_field(v) = 127
BY SMT DEF hdr_len, len_field

LEMMA TwoBytes ==
    ASSUME NEW buf, buf[2] \in Byte, buf[3] \in Byte
    PROVE  Spells(buf, 2, read_be(buf, 2)) /\ read_be(buf, 2) \in UInt16
<1>1. PICK b2, b3 : b2 = buf[2] /\ b3 = buf[3]
  BY Zenon
<1>2. read_be(buf, 2) = b2 * 256 + b3
  BY SMT, <1>1 DEF read_be
<1>3. read_be(buf, 2) \in UInt16
  <2>1. b2 \in Byte /\ b3 \in Byte
    BY Zenon, <1>1
  <2>2. PICK v : v = b2 * 256 + b3
    BY Zenon
  <2>3. v \in UInt16
    BY SMT, <2>1, <2>2 DEF Byte, UInt16
  <2>4. QED
    BY SMT, <1>2, <2>2, <2>3
<1>4. QED
  BY Zenon, <1>1, <1>3, SpelledTwo

LEMMA EightBytes ==
    ASSUME NEW buf, \A i \in 2..9 : buf[i] \in Byte
    PROVE  /\ Spells(buf, 8, read_be(buf, 8))
           /\ buf[2] < 128 => Below63(read_be(buf, 8))
<1>1. PICK v : v = read_be(buf, 8)
  BY Zenon
<1>2. Spells(buf, 8, v)
  BY Zenon, <1>1, SpelledEight
<1>3. v \in Nat
  BY Zenon, <1>2 DEF Spells
<1>4. QED
  BY Zenon, <1>1, <1>2, <1>3, EightDigits

\* The length the parser reads has one encoding, the one it reads.
Low7(b) == b % 128
HasLength(buf, e, v) ==
    Spells(buf, e, v) /\ Below63(v) /\ hdr_len(v) = 2 + e /\ Low7(buf[1]) = len_field(v)

LEMMA ReadLength ==
    ASSUME NEW buf, NEW e, e = ext_bytes(Low7(buf[1])), buf[1] \in Byte,
           \A i \in 2..(e + 1) : buf[i] \in Byte, len_ok(buf, e), NEW v, v = raw_len(buf, e)
    PROVE  HasLength(buf, e, v)
<1>0. SUFFICES /\ Spells(buf, e, v) /\ Below63(v) /\ hdr_len(v) = 2 + e
               /\ Low7(buf[1]) = len_field(v)
  BY Zenon DEF HasLength
<1>1. PICK l : l = Low7(buf[1])
  BY Zenon
<1>2. CASE e = 0
  <2>1. l \in 0..127 /\ l # 126 /\ l # 127
    BY SMT, <1>1, <1>2 DEF Low7, ext_bytes, Byte
  <2>2. v = l
    BY SMT, <1>1, <1>2 DEF Low7, raw_len
  <2>3. hdr_len(v) = 2 /\ len_field(v) = v /\ Below63(v)
    BY SMT, <2>1, <2>2, ShortForm
  <2>4. Spells(buf, 0, v)
    <3>1. PICK f : Writes(f, v, 0)
      BY SMT, WriteShifted
    <3>2. QED
      BY SMT, <2>1, <2>2, <3>1 DEF Writes, Spells
  <2>5. Spells(buf, e, v)
    BY Zenon, <1>2, <2>4
  <2>6. hdr_len(v) = 2 + e
    BY SMT, <1>2, <2>3
  <2>7. QED
    BY Zenon, <1>1, <2>2, <2>3, <2>5, <2>6
<1>3. CASE e = 2
  <2>1. e + 1 = 3 /\ 2 \in 2..3 /\ 3 \in 2..3
    BY SMT, <1>3
  <2>2. buf[2] \in Byte /\ buf[3] \in Byte
    BY Zenon, <2>1
  <2>3. v = read_be(buf, 2) /\ v >= 126 /\ l = 126
    BY SMT, <1>1, <1>3 DEF Low7, raw_len, len_ok, ext_bytes
  <2>4. Spells(buf, 2, v) /\ v \in UInt16
    BY Zenon, <2>2, <2>3, TwoBytes
  <2>5. hdr_len(v) = 4 /\ len_field(v) = 126 /\ Below63(v)
    BY SMT, <2>3, <2>4, MediumForm
  <2>6. Spells(buf, e, v)
    BY Zenon, <1>3, <2>4
  <2>7. hdr_len(v) = 2 + e
    BY SMT, <1>3, <2>5
  <2>8. len_field(v) = l
    BY SMT, <2>3, <2>5
  <2>9. QED
    BY Zenon, <1>1, <2>5, <2>6, <2>7, <2>8
<1>4. CASE e = 8
  <2>1. e + 1 = 9
    BY SMT, <1>4
  <2>2. \A i \in 2..9 : buf[i] \in Byte
    BY Zenon, <2>1
  <2>3. v = read_be(buf, 8)
    BY SMT, <1>4 DEF raw_len
  <2>4. buf[2] < 128 /\ v > 65535
    BY SMT, <1>4 DEF len_ok
  <2>5. l = 127
    BY SMT, <1>1, <1>4 DEF Low7, ext_bytes
  <2>6. buf[2] < 128
    BY SMT, <2>4
  <2>7. Spells(buf, 8, v) /\ Below63(v)
    BY Zenon, <2>2, <2>3, <2>6, EightBytes
  <2>8. v \in Nat
    BY Zenon, <2>7 DEF Spells
  <2>9. hdr_len(v) = 10 /\ len_field(v) = 127
    BY SMT, <2>4, <2>8, LongForm
  <2>10. Spells(buf, e, v)
    BY Zenon, <1>4, <2>7
  <2>11. hdr_len(v) = 2 + e /\ len_field(v) = l
    BY SMT, <1>4, <2>5, <2>9
  <2>12. QED
    BY Zenon, <1>1, <2>7, <2>10, <2>11
<1>5. e \in {0, 2, 8}
  BY SMT DEF ext_bytes
<1>6. QED
  BY Zenon, <1>2, <1>3, <1>4, <1>5

\* What the parser accepts is the header ws_build_header writes: same bytes, same count.
LEMMA ParsedBuilds ==
    ASSUME NEW len \in Nat, NEW buf, \A i \in 0..(len - 1) : buf[i] \in Byte,
           NEW p, p = ws_parse_header(buf, len), p.rc > 0
    PROVE  /\ WellFormed(p.h) /\ p.rc = Len(HeaderBytes(p.h)) /\ p.rc <= len
           /\ StartsWith(buf, HeaderBytes(p.h), p.rc)
<1>1. PICK e, g : e = ext_bytes(buf[1] % 128) /\ g = fill_fields(buf, raw_len(buf, e))
  BY Zenon
<1>2. e \in Nat /\ e \in {0, 2, 8}
  BY SMT, <1>1 DEF ext_bytes
<1>3. ~(len < 2) /\ ~(len < 2 + e) /\ len_ok(buf, e) /\ header_well_formed(g)
      /\ p = parse_mask(buf, len, 2 + e, g)
  <2>1. ws_parse_header(buf, len) =
            IF len < 2 THEN Unparsed(WS_ERR_NEED_MORE)
            ELSE IF len < 2 + e THEN Unparsed(WS_ERR_NEED_MORE)
            ELSE IF ~len_ok(buf, e) THEN Unparsed(WS_ERR_PROTOCOL)
            ELSE IF ~header_well_formed(g) THEN Parsed(WS_ERR_PROTOCOL, g)
            ELSE parse_mask(buf, len, 2 + e, g)
    BY Zenon, <1>1 DEF ws_parse_header
  <2>2. /\ ~(Unparsed(WS_ERR_NEED_MORE).rc > 0) /\ ~(Unparsed(WS_ERR_PROTOCOL).rc > 0)
        /\ ~(Parsed(WS_ERR_PROTOCOL, g).rc > 0)
    BY SMT DEF Unparsed, Parsed, WS_ERR_NEED_MORE, WS_ERR_PROTOCOL
  <2>3. QED
    BY Zenon, <2>1, <2>2
<1>4. PICK v : v = raw_len(buf, e)
  BY Zenon
<1>5. /\ buf[0] \in Byte /\ buf[1] \in Byte
      /\ \A i \in 2..(e + 1) : buf[i] \in Byte
  BY SMT, <1>2, <1>3
<1>6. /\ Spells(buf, e, v) /\ Below63(v) /\ hdr_len(v) = 2 + e
      /\ buf[1] % 128 = len_field(v)
  <2>1. e = ext_bytes(Low7(buf[1]))
    BY Zenon, <1>1 DEF Low7
  <2>2. HasLength(buf, e, v)
    BY ZenonT(60), <1>3, <1>4, <1>5, <2>1, ReadLength
  <2>3. QED
    BY Zenon, <2>2 DEF HasLength, Low7
<1>7. PICK k : k = IF g.masked THEN 4 ELSE 0
  BY Zenon
<1>8. PICK h : h = p.h
  BY Zenon
<1>9. /\ p.rc = 2 + e + k /\ 2 + e + k <= len
      /\ h = [g EXCEPT !.mask_key = h.mask_key]
      /\ g.masked => h.mask_key = [i \in 0..3 |-> buf[2 + e + i]]
      /\ g.masked \/ h.mask_key = NoKey
  <2>1. CASE ~g.masked
    <3>1. p = Parsed(2 + e, g) /\ k = 0
      BY Zenon, <1>3, <1>7, <2>1 DEF parse_mask
    <3>2. p.rc = 2 + e /\ h = g
      BY SMT, <1>8, <3>1 DEF Parsed
    <3>3. g.mask_key = NoKey /\ g = [g EXCEPT !.mask_key = g.mask_key]
      BY SMT, <1>1 DEF fill_fields
    <3>4. 2 + e + k = 2 + e /\ 2 + e + k <= len
      BY SMT, <1>2, <1>3, <3>1
    <3>5. QED
      BY Zenon, <2>1, <3>2, <3>3, <3>4
  <2>2. CASE g.masked
    <3>1. PICK key : key = [i \in 0..3 |-> buf[2 + e + i]]
      BY Zenon
    <3>2. ~(len < 2 + e + 4)
      <4>1. len < 2 + e + 4 => p = Parsed(WS_ERR_NEED_MORE, g)
        BY Zenon, <1>3, <2>2 DEF parse_mask
      <4>2. ~(Parsed(WS_ERR_NEED_MORE, g).rc > 0)
        BY SMT DEF Parsed, WS_ERR_NEED_MORE
      <4>3. QED
        BY Zenon, <4>1, <4>2
    <3>3. p = Parsed(2 + e + 4, [g EXCEPT !.mask_key = key])
      BY Zenon, <1>3, <2>2, <3>1, <3>2 DEF parse_mask
    <3>4. p.rc = 2 + e + 4 /\ h = [g EXCEPT !.mask_key = key]
      BY SMT, <1>8, <3>3 DEF Parsed
    <3>5. h.mask_key = key
      BY SMT, <1>1, <3>4 DEF fill_fields
    <3>6. k = 4 /\ 2 + e + 4 <= len
      BY SMTT(30), <1>2, <1>7, <2>2, <3>2
    <3>7. QED
      BY Zenon, <2>2, <3>1, <3>4, <3>5, <3>6
  <2>3. QED
    BY Zenon, <2>1, <2>2
<1>10. /\ h.fin = (buf[0] >= 128) /\ h.opcode = buf[0] % 16
       /\ h.masked = (buf[1] >= 128) /\ h.payload_len = v
       /\ h.rsv = (buf[0] \div 16) % 8 /\ h.rsv = 0 /\ g.masked = h.masked
  <2>1. /\ h.fin = (buf[0] >= 128) /\ h.rsv = (buf[0] \div 16) % 8
        /\ h.opcode = buf[0] % 16 /\ h.masked = (buf[1] >= 128) /\ h.payload_len = v
        /\ g.rsv = h.rsv /\ g.masked = h.masked
    BY SMT, <1>1, <1>4, <1>9 DEF fill_fields
  <2>2. g.rsv = 0
    BY Zenon, <1>3 DEF header_well_formed
  <2>3. QED
    BY Zenon, <2>1, <2>2
<1>11. h \in Header
  <2>1. h = [fin |-> h.fin, rsv |-> h.rsv, opcode |-> h.opcode, masked |-> h.masked,
             payload_len |-> h.payload_len, mask_key |-> h.mask_key]
    BY SMT, <1>1, <1>9 DEF fill_fields
  <2>2. h.mask_key \in [0..3 -> Byte]
    <3>1. CASE g.masked
      <4>1. \A i \in 0..3 : 2 + e + i \in 0..(len - 1)
        BY SMTT(30), <1>2, <1>7, <1>9, <3>1
      <4>2. QED
        BY Zenon, <1>9, <3>1, <4>1
    <3>2. CASE ~g.masked
      <4>1. h.mask_key = NoKey
        BY Zenon, <1>9, <3>2
      <4>2. NoKey \in [0..3 -> Byte]
        BY SMT DEF NoKey, Byte
      <4>3. QED
        BY Zenon, <4>1, <4>2
    <3>3. QED
      BY Zenon, <3>1, <3>2
  <2>3. /\ h.fin \in BOOLEAN /\ h.rsv \in 0..7 /\ h.opcode \in 0..15
        /\ h.masked \in BOOLEAN
    <3>1. PICK b0 \in Byte : b0 = buf[0]
      BY Zenon, <1>5
    <3>2. h.rsv = 0 /\ h.opcode = b0 % 16
      BY Zenon, <1>10, <3>1
    <3>3. b0 % 16 \in 0..15
      BY SMT DEF Byte
    <3>4. 0 \in 0..7
      BY SMT
    <3>5. h.fin \in BOOLEAN /\ h.masked \in BOOLEAN
      BY SMT, <1>10
    <3>6. QED
      BY Zenon, <3>2, <3>3, <3>4, <3>5
  <2>4. h.payload_len \in Nat
    BY Zenon, <1>6, <1>10 DEF Spells
  <2>5. QED
    BY Zenon, <2>1, <2>2, <2>3, <2>4 DEF Header
<1>12. WellFormed(h)
  <2>1. /\ h.rsv = g.rsv /\ h.opcode = g.opcode /\ h.payload_len = g.payload_len
        /\ h.fin = g.fin
    BY SMT, <1>1, <1>9 DEF fill_fields
  <2>2. header_well_formed(h)
    BY Zenon, <1>3, <2>1 DEF header_well_formed
  <2>3. QED
    BY Zenon, <1>6, <1>9, <1>10, <1>11, <2>2 DEF WellFormed
<1>13. e = ExtOf(h) /\ k = KeyOf(h) /\ k \in Nat
  BY SMTT(30), <1>2, <1>6, <1>7, <1>10 DEF ExtOf, KeyOf
<1>14. PICK s : s = HeaderBytes(h)
  BY Zenon
<1>15. IsHeader(s, h, e, k)
  BY Zenon, <1>2, <1>11, <1>13, <1>14, HeaderShape
<1>16. s \in Seq(Byte) /\ Len(s) = 2 + e + k
  BY Zenon, <1>15 DEF IsHeader
<1>17. buf[0] = s[1]
  <2>1. s[1] \in Byte
    BY SMT, <1>2, <1>13, <1>16
  <2>2. IsFirst(buf[0], h.fin, h.opcode)
    <3>1. buf[0] >= 128 <=> h.fin
      BY Zenon, <1>10
    <3>2. (buf[0] \div 16) % 8 = 0 /\ buf[0] % 16 = h.opcode
      BY Zenon, <1>10
    <3>3. QED
      BY Zenon, <3>1, <3>2 DEF IsFirst
  <2>3. IsFirst(s[1], h.fin, h.opcode)
    BY Zenon, <1>15 DEF IsHeader
  <2>4. QED
    BY Zenon, <1>5, <2>1, <2>2, <2>3, FirstUnique
<1>18. buf[1] = s[2]
  <2>1. s[2] \in Byte
    BY SMT, <1>2, <1>13, <1>16
  <2>2. IsSecond(buf[1], h.masked, h.payload_len)
    <3>1. buf[1] >= 128 <=> h.masked
      BY Zenon, <1>10
    <3>2. ext_bytes(buf[1] % 128) = hdr_len(v) - 2
      BY SMT, <1>1, <1>2, <1>6
    <3>3. h.payload_len = v /\ buf[1] % 128 = len_field(v)
      BY Zenon, <1>6, <1>10
    <3>4. QED
      BY Zenon, <3>1, <3>2, <3>3 DEF IsSecond
  <2>3. IsSecond(s[2], h.masked, h.payload_len)
    BY Zenon, <1>15 DEF IsHeader
  <2>4. QED
    BY Zenon, <1>5, <2>1, <2>2, <2>3, SecondUnique
<1>19. ASSUME NEW i \in 1..(2 + e + k) PROVE buf[i - 1] = s[i]
  <2>1. CASE i <= 2
    <3>1. (i = 1 /\ i - 1 = 0) \/ (i = 2 /\ i - 1 = 1)
      BY SMT, <2>1
    <3>2. QED
      BY Zenon, <1>17, <1>18, <3>1
  <2>2. CASE i > 2 /\ i <= 2 + e
    <3>1. PICK j \in 1..e : i = j + 2 /\ i - 1 = j + 1
      BY SMT, <1>2, <2>2
    <3>2. write_be(v, e)[j] = buf[j + 1]
      BY Zenon, <1>6 DEF Spells
    <3>3. s[j + 2] = write_be(v, e)[j]
      BY Zenon, <1>10, <1>15 DEF IsHeader
    <3>4. QED
      BY Zenon, <3>1, <3>2, <3>3
  <2>3. CASE i > 2 + e
    <3>1. h.masked
      BY SMT, <1>2, <1>7, <1>10, <2>3
    <3>2. PICK j \in 0..3 : i = 3 + e + j /\ i - 1 = 2 + e + j
      BY SMT, <1>2, <1>7, <2>3
    <3>3. s[3 + e + j] = h.mask_key[j]
      BY Zenon, <1>15, <3>1 DEF IsHeader
    <3>4. h.mask_key[j] = buf[2 + e + j]
      BY Zenon, <1>9, <1>10, <3>1
    <3>5. QED
      BY Zenon, <3>2, <3>3, <3>4
  <2>4. QED
    BY SMTT(30), <1>2, <2>1, <2>2, <2>3
<1>20. StartsWith(buf, s, 2 + e + k)
  BY Zenon, <1>19 DEF StartsWith
<1>21. QED
  BY Zenon, <1>8, <1>9, <1>12, <1>14, <1>16, <1>20

-----------------------------------------------------------------------------
(* The parser reads the header's bytes alone.                               *)

\* read_be reads the n bytes behind the first two.
LEMMA SameLength ==
    ASSUME NEW n \in {2, 8}, NEW buf, NEW more, \A i \in 2..(n + 1) : more[i] = buf[i]
    PROVE  read_be(more, n) = read_be(buf, n)
<1> DEFINE be2(s, i) == s[i] * 256 + s[i + 1]
           be4(s, i) == be2(s, i) * 65536 + be2(s, i + 2)
           be8(s) == be4(s, 2) * 65536 * 65536 + be4(s, 6)
<1>1. /\ read_be(more, n) = IF n = 2 THEN be2(more, 2) ELSE be8(more)
      /\ read_be(buf, n) = IF n = 2 THEN be2(buf, 2) ELSE be8(buf)
  BY SMT DEF read_be
<1>2. ASSUME NEW i \in 2..n PROVE be2(more, i) = be2(buf, i)
  <2>1. more[i] = buf[i] /\ more[i + 1] = buf[i + 1]
    BY SMT
  <2>2. QED
    BY SMT, <2>1
<1> HIDE DEF be2
<1>3. ASSUME n = 8 PROVE be8(more) = be8(buf)
  <2>1. /\ be2(more, 2) = be2(buf, 2) /\ be2(more, 2 + 2) = be2(buf, 2 + 2)
        /\ be2(more, 6) = be2(buf, 6) /\ be2(more, 6 + 2) = be2(buf, 6 + 2)
    <3>1. 2 \in 2..n /\ 2 + 2 \in 2..n /\ 6 \in 2..n /\ 6 + 2 \in 2..n
      BY SMT, <1>3
    <3> HIDE DEF be4, be8
    <3>2. QED
      BY SMT, <1>2, <3>1
  <2>2. be4(more, 2) = be4(buf, 2) /\ be4(more, 6) = be4(buf, 6)
    BY SMT, <2>1
  <2> HIDE DEF be4
  <2>3. QED
    BY SMT, <2>2
<1> HIDE DEF be4, be8
<1>4. n = 2 => be2(more, 2) = be2(buf, 2)
  BY SMT, <1>2
<1>5. QED
  BY SMTT(30), <1>1, <1>3, <1>4

\* ws_parse_header reads no byte past the header it reports: on two buffers that
\* agree on the first n bytes it gives the same verdict once it gives one.
LEMMA ParsedPrefix ==
    ASSUME NEW n \in Nat, NEW m \in Nat, n <= m, NEW buf, NEW more,
           \A i \in 0..(n - 1) : more[i] = buf[i],
           ws_parse_header(buf, n).rc # WS_ERR_NEED_MORE
    PROVE  ws_parse_header(more, m) = ws_parse_header(buf, n)
<1> DEFINE ext == ext_bytes(buf[1] % 128)
           h == fill_fields(buf, raw_len(buf, ext))
<1>1. n >= 2 /\ m >= 2
  BY DEF ws_parse_header, Unparsed, Parsed
<1>2. more[0] = buf[0] /\ more[1] = buf[1]
  BY <1>1
<1>3. ext \in {0, 2, 8} /\ ext_bytes(more[1] % 128) = ext
  BY <1>2 DEF ext_bytes
<1> HIDE DEF ext
<1>4. n >= 2 + ext /\ m >= 2 + ext
  <2>1. n < 2 + ext => ws_parse_header(buf, n) = Unparsed(WS_ERR_NEED_MORE)
    BY <1>1 DEF ws_parse_header, ext
  <2>2. Unparsed(WS_ERR_NEED_MORE).rc = WS_ERR_NEED_MORE
    BY DEF Unparsed, Parsed
  <2>3. QED
    BY SMTT(30), <1>3, <2>1, <2>2
<1>5. raw_len(more, ext) = raw_len(buf, ext)
  <2>1. CASE ext = 0
    BY Zenon, <1>2, <2>1 DEF raw_len
  <2>2. CASE ext = 2
    BY <1>4, <2>2, SameLength DEF raw_len
  <2>3. CASE ext = 8
    BY <1>4, <2>3, SameLength DEF raw_len
  <2>4. QED
    BY <1>3, <2>1, <2>2, <2>3
<1>6. /\ fill_fields(more, raw_len(more, ext)) = h
      /\ len_ok(more, ext) <=> len_ok(buf, ext)
  <2>1. fill_fields(more, raw_len(more, ext)) = h
    BY Zenon, <1>2, <1>5 DEF fill_fields
  <2>2. ext = 8 => more[2] = buf[2]
    BY <1>4
  <2>3. len_ok(more, ext) <=> len_ok(buf, ext)
    <3>1. CASE ext = 8
      BY <1>5, <2>2, <3>1 DEF len_ok
    <3>2. CASE ext # 8
      BY <1>5, <3>2 DEF len_ok
    <3>3. QED
      BY <3>1, <3>2
  <2>4. QED
    BY <2>1, <2>3
<1>7. ASSUME ~h.masked \/ n >= 2 + ext + 4
      PROVE  parse_mask(more, m, 2 + ext, h) = parse_mask(buf, n, 2 + ext, h)
  <2>1. CASE ~h.masked
    BY <2>1 DEF parse_mask
  <2>2. CASE h.masked
    <3>1. ~(n < 2 + ext + 4) /\ ~(m < 2 + ext + 4)
      BY <1>3, <1>7, <2>2
    <3>2. [i \in 0..3 |-> more[2 + ext + i]] = [i \in 0..3 |-> buf[2 + ext + i]]
      BY <1>3, <1>7, <2>2
    <3>3. QED
      BY <2>2, <3>1, <3>2 DEF parse_mask
  <2>3. QED
    BY <2>1, <2>2
<1>8. QED
  <2>1. /\ ws_parse_header(buf, n) =
              IF ~len_ok(buf, ext) THEN Unparsed(WS_ERR_PROTOCOL)
              ELSE IF ~header_well_formed(h) THEN Parsed(WS_ERR_PROTOCOL, h)
              ELSE parse_mask(buf, n, 2 + ext, h)
    BY SMTT(30), <1>1, <1>3, <1>4 DEF ws_parse_header, ext
  <2>2. /\ ws_parse_header(more, m) =
              IF ~len_ok(more, ext) THEN Unparsed(WS_ERR_PROTOCOL)
              ELSE IF ~header_well_formed(h) THEN Parsed(WS_ERR_PROTOCOL, h)
              ELSE parse_mask(more, m, 2 + ext, h)
    BY SMTT(30), <1>1, <1>3, <1>4, <1>6 DEF ws_parse_header
  <2>3. CASE ~len_ok(buf, ext) \/ ~header_well_formed(h)
    BY SMTT(30), <1>6, <2>1, <2>2, <2>3
  <2>4. CASE len_ok(buf, ext) /\ header_well_formed(h)
    <3>1. ~h.masked \/ n >= 2 + ext + 4
      BY SMTT(30), <1>3, <2>1, <2>4 DEF parse_mask, Parsed
    <3>2. QED
      BY SMTT(30), <1>6, <1>7, <2>1, <2>2, <2>4, <3>1
  <2>5. QED
    BY SMTT(30), <2>3, <2>4

Agree(buf, more, n) == \A i \in 0..(n - 1) : more[i] = buf[i]

LEMMA PrefixParses ==
    ASSUME NEW n \in Nat, NEW m \in Nat, n <= m, NEW buf, NEW more, Agree(buf, more, n),
           NEW p, p = ws_parse_header(buf, n), p.rc # WS_ERR_NEED_MORE
    PROVE  ws_parse_header(more, m) = p
BY ZenonT(60), ParsedPrefix DEF Agree

-----------------------------------------------------------------------------
(* The parser on a stream of bytes.                                         *)

\* What was received are bytes.
GotInv == got \in Seq(Byte)

LEMMA GotIsSequence == CodecSpec => []GotInv
<1>1. CodecInit => GotInv
  BY DEF CodecInit, GotInv
<1>2. GotInv /\ [CodecNext]_got => GotInv'
  BY DEF CodecNext, Arrive, Done, GotInv
<1>3. QED
  BY <1>1, <1>2, PTL DEF CodecSpec

\* The buffer holds them in order.
LEMMA BufBytes ==
    ASSUME NEW s \in Seq(Byte)
    PROVE  /\ Len(s) \in Nat /\ \A i \in 0..(Len(s) - 1) : Buf(s)[i] \in Byte
           /\ StartsWith(Buf(s), s, Len(s))
<1>1. Len(s) \in Nat /\ \A i \in 1..Len(s) : s[i] \in Byte
  BY SMT
<1>2. ASSUME NEW i \in 1..Len(s) PROVE Buf(s)[i - 1] = s[i]
  BY SMT, <1>1 DEF Buf
<1>3. ASSUME NEW i \in 0..(Len(s) - 1) PROVE Buf(s)[i] \in Byte
  BY SMT, <1>1 DEF Buf
<1>4. QED
  BY Zenon, <1>1, <1>2, <1>3 DEF StartsWith

\* Once ws_parse_header accepts or refuses a prefix, no later byte changes the
\* verdict, the byte count or a field, whatever the bytes.
THEOREM StableVerdict == CodecSpec => VerdictIsStable
<1>1. GotInv /\ [CodecNext]_got =>
        [Parse(got).rc # WS_ERR_NEED_MORE => Parse(got') = Parse(got)]_got
  <2> SUFFICES ASSUME GotInv, Arrive, Parse(got).rc # WS_ERR_NEED_MORE
               PROVE  Parse(got') = Parse(got)
    BY DEF CodecNext, Done
  <2> DEFINE n == Len(got)
  <2>1. PICK b \in Byte : got' = Append(got, b)
    BY Zenon DEF Arrive
  <2>2. n \in Nat /\ Len(got') = n + 1 /\ \A i \in 1..n : got'[i] = got[i]
    BY <2>1 DEF GotInv
  <2>3. \A i \in 0..(n - 1) : Buf(got')[i] = Buf(got)[i]
    BY <2>2 DEF Buf
  <2>4. ws_parse_header(Buf(got'), n + 1) = ws_parse_header(Buf(got), n)
    <3>1. n \in Nat /\ n + 1 \in Nat /\ n <= n + 1
      BY <2>2
    <3>2. ws_parse_header(Buf(got), n).rc # WS_ERR_NEED_MORE
      BY Zenon DEF Parse
    <3> HIDE DEF n
    <3>3. QED
      BY ZenonT(60), <2>3, <3>1, <3>2, ParsedPrefix
  <2>5. QED
    BY <2>2, <2>4 DEF Parse
<1>2. QED
  BY <1>1, GotIsSequence, PTL DEF CodecSpec, VerdictIsStable

\* ws_build_header gives back the bytes of every header ws_parse_header accepts,
\* and but for a reserved opcode the header is one RFC 6455 allows.
THEOREM Canonical == CodecSpec => []AcceptedIsCanonical
<1>1. GotInv => AcceptedIsCanonical
  <2> SUFFICES ASSUME GotInv, NEW p, p = Parse(got), p.rc > 0
               PROVE  /\ ws_build_header(p.h, p.rc) =
                             [rc |-> p.rc, bytes |-> SubSeq(got, 1, p.rc)]
                      /\ Allowed(p.h) \/ ws_classify_opcode(p.h.opcode) = "RESERVED"
    BY Zenon DEF AcceptedIsCanonical
  <2>1. PICK h, s : h = p.h /\ s = HeaderBytes(h)
    BY Zenon
  <2>2. /\ WellFormed(h) /\ p.rc = Len(s) /\ p.rc <= Len(got)
        /\ StartsWith(Buf(got), s, p.rc)
    BY Zenon, <2>1, BufBytes, ParsedBuilds DEF GotInv, Parse
  <2>3. h \in Header
    BY Zenon, <2>2 DEF WellFormed
  <2>4. PICK e \in Nat, k \in Nat : e = ExtOf(h) /\ k = KeyOf(h)
    BY SMT, <2>3, Widths
  <2>5. s \in Seq(Byte) /\ Len(s) = 2 + e + k
    BY Zenon, <2>1, <2>3, <2>4, HeaderShape DEF IsHeader
  <2>6. hdr_len(h.payload_len) + (IF h.masked THEN 4 ELSE 0) = Len(s)
    BY SMTT(30), <2>3, <2>4, <2>5, Widths DEF KeyOf
  <2>7. ws_build_header(h, p.rc) = [rc |-> p.rc, bytes |-> s]
    <3>1. ~(p.rc < Len(s))
      BY SMT, <2>2, <2>5
    <3>2. QED
      BY Zenon, <2>1, <2>2, <2>6, <3>1 DEF ws_build_header
  <2>8. s = SubSeq(got, 1, p.rc)
    <3>1. ASSUME NEW i \in 1..Len(s) PROVE s[i] = got[i]
      <4>1. Buf(got)[i - 1] = s[i]
        BY Zenon, <2>2 DEF StartsWith
      <4>2. i \in 1..Len(got)
        BY SMT, <2>2, <2>5 DEF GotInv
      <4>3. Buf(got)[i - 1] = got[i]
        BY Zenon, <4>2, BufBytes DEF GotInv, StartsWith
      <4>4. QED
        BY Zenon, <4>1, <4>3
    <3>2. QED
      BY SMT, <2>2, <2>5, <3>1 DEF GotInv
  <2>9. Allowed(h) \/ ws_classify_opcode(h.opcode) = "RESERVED"
    <3>1. h.opcode \in 0..15 /\ header_well_formed(h) /\ Below63(h.payload_len)
      BY Zenon, <2>2 DEF WellFormed, Header
    <3>2. \/ h.opcode \in {0, 1, 2}
          \/ h.opcode \in {8, 9, 10} /\ ws_classify_opcode(h.opcode) = "CONTROL"
          \/ ws_classify_opcode(h.opcode) = "RESERVED"
      BY SMT, <3>1 DEF ws_classify_opcode, WS_OP_CONT, WS_OP_TEXT, WS_OP_BIN, WS_OP_CLOSE,
                       WS_OP_PING, WS_OP_PONG
    <3>3. ((h.payload_len \div 65536) \div 65536) \div 65536 < 32768
      BY SMT, <3>1 DEF Below63, High2
    <3>4. ws_classify_opcode(h.opcode) = "CONTROL" => h.fin /\ h.payload_len <= 125
      BY Zenon, <3>1 DEF header_well_formed
    <3>5. QED
      BY SMTT(30), <3>2, <3>3, <3>4 DEF Allowed
  <2>10. QED
    BY Zenon, <2>1, <2>7, <2>8, <2>9
<1>2. QED
  BY <1>1, GotIsSequence, PTL

\* ws_parse_header reads every frame header RFC 6455 allows back from the bytes
\* ws_build_header writes for it, up to the longest payload.
THEOREM Accepted == CodecSpec => []BuiltIsAccepted
<1>1. GotInv => BuiltIsAccepted
  <2> SUFFICES ASSUME GotInv, NEW n \in Lengths, ~(Len(got) < 2),
                      NEW h, h = Sent(got, n), Allowed(h),
                      ws_build_header(h, 14).bytes = got
               PROVE  Parse(got) = [rc |-> Len(got), h |-> h]
    BY Zenon DEF BuiltIsAccepted
  <2>1. n \in Nat /\ Len(got) \in Nat /\ \A i \in 1..Len(got) : got[i] \in Byte
    BY SMTT(30), LengthsAssumption DEF GotInv
  <2>2. /\ h.fin = (got[1] >= 128) /\ h.rsv = 0 /\ h.opcode = got[1] % 16
        /\ h.masked = (got[2] >= 128) /\ h.payload_len = n
        /\ h.mask_key = [i \in 0..3 |-> IF got[2] >= 128 /\ Len(got) > 5
                                        THEN got[Len(got) - 3 + i] ELSE 0]
        /\ h = [fin |-> h.fin, rsv |-> h.rsv, opcode |-> h.opcode, masked |-> h.masked,
                payload_len |-> h.payload_len, mask_key |-> h.mask_key]
    BY SMT DEF Sent
  <2>3. h \in Header
    <3>1. PICK b \in Byte : b = got[1]
      BY SMT, <2>1
    <3>2. h.opcode = b % 16 /\ h.rsv = 0
      BY SMT, <2>2, <3>1
    <3>3. h.opcode \in 0..15 /\ h.rsv \in 0..7
      BY SMT, <3>2 DEF Byte
    <3>4. h.mask_key \in [0..3 -> Byte]
      <4>1. ASSUME NEW i \in 0..3, Len(got) > 5 PROVE got[Len(got) - 3 + i] \in Byte
        BY SMT, <2>1, <4>1
      <4>2. 0 \in Byte
        BY SMT DEF Byte
      <4>3. h.mask_key = [i \in 0..3 |-> IF got[2] >= 128 /\ Len(got) > 5
                                         THEN got[Len(got) - 3 + i] ELSE 0]
        BY SMT, <2>2
      <4>4. QED
        BY SMTT(30), <4>1, <4>2, <4>3
    <3>5. h.fin \in BOOLEAN /\ h.masked \in BOOLEAN /\ h.payload_len \in Nat
      BY SMT, <2>1, <2>2
    <3>6. h = [fin |-> h.fin, rsv |-> h.rsv, opcode |-> h.opcode, masked |-> h.masked,
               payload_len |-> h.payload_len, mask_key |-> h.mask_key]
      BY SMT, <2>2
    <3>7. QED
      BY Zenon, <3>4, <3>5, <3>6, <3>3 DEF Header
  <2>4. header_well_formed(h) /\ Below63(h.payload_len)
    BY SMT, <2>2, <2>3 DEF Allowed, header_well_formed, ws_classify_opcode, Below63, High2,
       WS_OP_CONT, WS_OP_TEXT, WS_OP_BIN, WS_OP_CLOSE, WS_OP_PING, WS_OP_PONG
  <2>5. h.masked \/ h.mask_key = NoKey
    <3>1. ASSUME ~h.masked PROVE ~(got[2] >= 128)
      <4>1. h.masked = (got[2] >= 128)
        BY SMT, <2>2
      <4>2. QED
        BY Zenon, <3>1, <4>1
    <3>2. h.mask_key = [i \in 0..3 |-> IF got[2] >= 128 /\ Len(got) > 5
                                       THEN got[Len(got) - 3 + i] ELSE 0]
      BY SMT, <2>2
    <3>3. QED
      BY SMT, <3>1, <3>2 DEF NoKey
  <2>6. WellFormed(h)
    BY Zenon, <2>3, <2>4, <2>5 DEF WellFormed
  <2>7. got = HeaderBytes(h)
    <3>1. ~(14 < hdr_len(h.payload_len) + (IF h.masked THEN 4 ELSE 0))
      BY SMT, <2>3, Widths DEF KeyOf
    <3>2. ws_build_header(h, 14) = [rc |-> hdr_len(h.payload_len) + (IF h.masked THEN 4 ELSE 0),
                                    bytes |-> HeaderBytes(h)]
      BY Zenon, <3>1 DEF ws_build_header
    <3>3. QED
      BY SMT, <3>2
  <2>8. StartsWith(Buf(got), got, Len(got)) /\ Len(got) >= Len(got)
    BY SMT, <2>1, BufBytes DEF GotInv
  <2>9. ws_parse_header(Buf(got), Len(got)) = Parsed(Len(got), h)
    BY Zenon, <2>1, <2>6, <2>7, <2>8, BuiltParses
  <2>10. QED
    BY Zenon, <2>9 DEF Parse, Parsed
<1>2. QED
  BY <1>1, GotIsSequence, PTL

-----------------------------------------------------------------------------
(* UTF-8.                                                                   *)

\* The text is made of bytes.
TextInv == text \in Seq(Byte)

LEMMA TextIsBytes == TextSpec => []TextInv
<1>1. TextInit => TextInv
  BY SMT DEF TextInit, TextInv
<1>2. TextInv /\ [TextNext]_text => TextInv'
  <2>1. Alphabet \subseteq Byte
    BY Zenon, AlphabetAssumption DEF Byte
  <2>2. QED
    BY SMT, <2>1 DEF TextInv, TextNext, Extend, Full
<1>3. QED
  BY <1>1, <1>2, PTL DEF TextSpec

(* ws_utf8_valid accepts exactly the UTF-8 of RFC 3629: for a text of any    *)
(* length, whatever bytes it is made of.                                     *)
THEOREM ExactlyUtf8 == TextSpec => []Utf8Exact
<1>1. TextInv => Utf8Exact
  <2>1. SUFFICES ASSUME TextInv PROVE Utf8Exact
    OBVIOUS
  <2>2. PICK len \in Nat : len = Len(text)
    BY SMT, <2>1 DEF TextInv
  <2> DEFINE data == [i \in 0..(len - 1) |-> text[i + 1]]
  <2>3. ASSUME NEW k \in 1..len PROVE text[k] = data[0 + (k - 1)] /\ IsByte(text[k])
    <3>1. 0 + (k - 1) \in 0..(len - 1) /\ (0 + (k - 1)) + 1 = k
      BY SMT
    <3>2. IsByte(text[k])
      <4>1. text[k] \in Byte
        BY SMT, <2>1, <2>2 DEF TextInv
      <4>2. QED
        BY SMT, <4>1 DEF Byte, IsByte
    <3>3. QED
      BY Zenon, <3>1, <3>2
  <2>4. TextAt(data, 0, text, len)
    BY Zenon, <2>3 DEF TextAt
  <2>5. ws_utf8_valid(data, 0, len) <=> IsUtf8(text)
    <3> HIDE DEF data
    <3>1. 0 \in Nat
      BY SMT
    <3>2. QED
      BY Zenon, <2>2, <2>4, <3>1, ValidIsUtf8
  <2>6. QED
    BY Zenon, <2>2, <2>5 DEF Utf8Exact
<1>2. QED
  BY <1>1, TextIsBytes, PTL
=============================================================================
