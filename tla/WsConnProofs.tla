---------------------------- MODULE WsConnProofs ----------------------------
(***************************************************************************)
(* Facts about the operations of WsConn, for every size of the buffer and  *)
(* every content of it: each keeps the connection invariant ConnInv, makes *)
(* a step the life cycle allows, and keeps the raw bytes it does not       *)
(* consume, in order, unless it lets them slip (WsConn!Slips).             *)
(* And ws_utf8_valid accepts exactly UTF-8 (ValidIsUtf8): one sequence at  *)
(* a time, its table and guarded ranges admit the shortest forms of scalar *)
(* values (Decode); then it and the reference agree from every place on,   *)
(* the end first.  What the recursive functions compute is shown by a      *)
(* least counterexample.                                                   *)
(***************************************************************************)
EXTENDS WsConn, Utf8Ref, WellFoundedInduction, TLAPS

-----------------------------------------------------------------------------
(* Bytes and headers.                                                       *)

\* A byte is a small natural number.
LEMMA ByteFacts == \A b \in Byte : b \in Nat /\ b <= 255
BY DEF Byte

\* The bit fields fill_fields and l7 take out of a byte.
LEMMA FieldFacts ==
    \A b \in Byte : b % 16 \in 0..15 /\ (b \div 16) % 8 \in 0..7 /\ b % 128 \in Nat
BY DEF Byte

\* Masking a byte gives a byte.
LEMMA XorByte ==
    ASSUME NEW a \in Byte, NEW b \in Byte
    PROVE  Xor(a, b) \in Byte
BY DEF Xor, Byte

\* A number's lowest bit, the rest of it, and the bit of weight w.
Bit(x) == x \in Nat /\ x <= 1
Odd(a) == a % 2
Half(a) == a \div 2
BitOf(a, w) == (a \div w) % 2
\* Weights, by name.
W32 == 32
W64 == 64
W128 == 128

\* The number with these bits, the lowest first.
Sum8(x0, x1, x2, x3, x4, x5, x6, x7) ==
    x0 + 2 * (x1 + 2 * (x2 + 2 * (x3 + 2 * (x4 + 2 * (x5 + 2 * (x6 + 2 * x7))))))

\* The bits of a.
Spelt(a, x0, x1, x2, x3, x4, x5, x6, x7) ==
    /\ BitOf(a, 1) = x0 /\ BitOf(a, 2) = x1 /\ BitOf(a, 4) = x2 /\ BitOf(a, 8) = x3
    /\ BitOf(a, 16) = x4 /\ BitOf(a, W32) = x5 /\ BitOf(a, W64) = x6 /\ BitOf(a, W128) = x7

Halved(a, x, q) == a \in Nat /\ Odd(a) = x /\ Half(a) = q

Bits8(x0, x1, x2, x3, x4, x5, x6, x7) ==
    /\ Bit(x0) /\ Bit(x1) /\ Bit(x2) /\ Bit(x3) /\ Bit(x4) /\ Bit(x5) /\ Bit(x6) /\ Bit(x7)

\* Exclusive or of two bits.
Differ(x, y) == IF x = y THEN 0 ELSE 1
\* w unless the two bits agree, as Xor adds it up.
Unless(w, x, y) == IF x = y THEN 0 ELSE w

\* The bits of a byte, their sum, and the sum of the bits two bytes differ in.
AllBits(a) == Bits8(BitOf(a, 1), BitOf(a, 2), BitOf(a, 4), BitOf(a, 8), BitOf(a, 16),
                    BitOf(a, W32), BitOf(a, W64), BitOf(a, W128))

BitSum(a) == Sum8(BitOf(a, 1), BitOf(a, 2), BitOf(a, 4), BitOf(a, 8), BitOf(a, 16),
                  BitOf(a, W32), BitOf(a, W64), BitOf(a, W128))

XorSum(a, b) ==
    Sum8(Differ(BitOf(a, 1), BitOf(b, 1)), Differ(BitOf(a, 2), BitOf(b, 2)),
         Differ(BitOf(a, 4), BitOf(b, 4)), Differ(BitOf(a, 8), BitOf(b, 8)),
         Differ(BitOf(a, 16), BitOf(b, 16)), Differ(BitOf(a, W32), BitOf(b, W32)),
         Differ(BitOf(a, W64), BitOf(b, W64)), Differ(BitOf(a, W128), BitOf(b, W128)))

\* The bits of c are those a and b differ in.
XorBits(c, a, b) ==
    Spelt(c, Differ(BitOf(a, 1), BitOf(b, 1)), Differ(BitOf(a, 2), BitOf(b, 2)),
             Differ(BitOf(a, 4), BitOf(b, 4)), Differ(BitOf(a, 8), BitOf(b, 8)),
             Differ(BitOf(a, 16), BitOf(b, 16)), Differ(BitOf(a, W32), BitOf(b, W32)),
             Differ(BitOf(a, W64), BitOf(b, W64)), Differ(BitOf(a, W128), BitOf(b, W128)))

\* Masking a byte twice with the same key byte gives it back.
LEMMA XorTwice == \A a, b \in Byte : Xor(Xor(a, b), b) = a
<1>1. ASSUME NEW q \in Nat, NEW x, Bit(x), NEW a, a = x + 2 * q PROVE Halved(a, x, q)
  BY SMT, <1>1 DEF Bit, Halved, Odd, Half
<1>2. ASSUME NEW a \in Nat PROVE Half(a) \in Nat /\ Bit(Odd(a)) /\ a = Odd(a) + 2 * Half(a)
  BY SMT DEF Bit, Odd, Half
<1>3. ASSUME NEW x, Bit(x) PROVE Odd(x) = x
  BY SMT, <1>3 DEF Bit, Odd
<1>4. ASSUME NEW a \in Nat
      PROVE  Spelt(a, Odd(a), Odd(Half(a)), Odd(Half(Half(a))), Odd(Half(Half(Half(a)))),
                   Odd(Half(Half(Half(Half(a))))), Odd(Half(Half(Half(Half(Half(a)))))),
                   Odd(Half(Half(Half(Half(Half(Half(a))))))),
                   Odd(Half(Half(Half(Half(Half(Half(Half(a)))))))))
  <2>1. a \div 1 = a
    BY SMT
  <2>2. a \div 4 = (a \div 2) \div 2
    BY SMT
  <2>3. a \div 8 = ((a \div 2) \div 2) \div 2
    BY SMT
  <2>4. a \div 16 = (((a \div 2) \div 2) \div 2) \div 2
    BY SMT
  <2>5. a \div 32 = ((((a \div 2) \div 2) \div 2) \div 2) \div 2
    BY SMT
  <2>6. a \div 64 = (((((a \div 2) \div 2) \div 2) \div 2) \div 2) \div 2
    BY SMT
  <2>7. a \div 128 = ((((((a \div 2) \div 2) \div 2) \div 2) \div 2) \div 2) \div 2
    BY SMT
  <2>8. QED
    BY Zenon, <2>1, <2>2, <2>3, <2>4, <2>5, <2>6, <2>7 DEF Spelt, BitOf, Odd, Half, W32, W64, W128
<1>5. ASSUME NEW a, NEW q1, NEW q2, NEW q3, NEW q4, NEW q5, NEW q6, NEW q7,
             NEW x0, NEW x1, NEW x2, NEW x3, NEW x4, NEW x5, NEW x6,
             Halved(a, x0, q1), Halved(q1, x1, q2), Halved(q2, x2, q3), Halved(q3, x3, q4),
             Halved(q4, x4, q5), Halved(q5, x5, q6), Halved(q6, x6, q7)
      PROVE  Spelt(a, x0, x1, x2, x3, x4, x5, x6, Odd(q7))
  BY Zenon, <1>4, <1>5 DEF Halved
<1>6. ASSUME NEW x0, NEW x1, NEW x2, NEW x3, NEW x4, NEW x5, NEW x6, NEW x7,
             Bits8(x0, x1, x2, x3, x4, x5, x6, x7)
      PROVE  Spelt(Sum8(x0, x1, x2, x3, x4, x5, x6, x7), x0, x1, x2, x3, x4, x5, x6, x7)
  <2>0. /\ Bit(x0) /\ Bit(x1) /\ Bit(x2) /\ Bit(x3) /\ Bit(x4) /\ Bit(x5) /\ Bit(x6) /\ Bit(x7)
        /\ x7 \in Nat
    BY SMT, <1>6 DEF Bits8, Bit
  <2>7. PICK q6 : q6 = x6 + 2 * x7
    OBVIOUS
  <2>6. PICK q5 : q5 = x5 + 2 * q6
    OBVIOUS
  <2>5. PICK q4 : q4 = x4 + 2 * q5
    OBVIOUS
  <2>4. PICK q3 : q3 = x3 + 2 * q4
    OBVIOUS
  <2>3. PICK q2 : q2 = x2 + 2 * q3
    OBVIOUS
  <2>2. PICK q1 : q1 = x1 + 2 * q2
    OBVIOUS
  <2>1. PICK a : a = x0 + 2 * q1
    OBVIOUS
  <2>a. Halved(q6, x6, x7) /\ q6 \in Nat
    BY Zenon, <2>0, <2>7, <1>1 DEF Halved
  <2>b. Halved(q5, x5, q6) /\ q5 \in Nat
    BY Zenon, <2>0, <2>6, <2>a, <1>1 DEF Halved
  <2>c. Halved(q4, x4, q5) /\ q4 \in Nat
    BY Zenon, <2>0, <2>5, <2>b, <1>1 DEF Halved
  <2>d. Halved(q3, x3, q4) /\ q3 \in Nat
    BY Zenon, <2>0, <2>4, <2>c, <1>1 DEF Halved
  <2>e. Halved(q2, x2, q3) /\ q2 \in Nat
    BY Zenon, <2>0, <2>3, <2>d, <1>1 DEF Halved
  <2>f. Halved(q1, x1, q2) /\ q1 \in Nat
    BY Zenon, <2>0, <2>2, <2>e, <1>1 DEF Halved
  <2>g. Halved(a, x0, q1)
    BY Zenon, <2>0, <2>1, <2>f, <1>1
  <2>8. Odd(x7) = x7
    BY Zenon, <2>0, <1>3
  <2>9. Spelt(a, x0, x1, x2, x3, x4, x5, x6, x7)
    BY Zenon, <2>a, <2>b, <2>c, <2>d, <2>e, <2>f, <2>g, <2>8, <1>5
  <2>10. a = Sum8(x0, x1, x2, x3, x4, x5, x6, x7)
    BY Zenon, <2>1, <2>2, <2>3, <2>4, <2>5, <2>6, <2>7 DEF Sum8
  <2>11. QED
    BY Zenon, <2>9, <2>10
<1>7. ASSUME NEW a \in Byte
      PROVE  /\ a \in Nat
             /\ Bit(Half(Half(Half(Half(Half(Half(Half(a))))))))
  <2>1. a \in Nat /\ a < 256
    BY SMT DEF Byte
  <2>2. /\ ((((((a \div 2) \div 2) \div 2) \div 2) \div 2) \div 2) \div 2 \in Nat
        /\ ((((((a \div 2) \div 2) \div 2) \div 2) \div 2) \div 2) \div 2 <= 1
    BY SMT, <2>1
  <2>3. QED
    BY Zenon, <2>1, <2>2 DEF Bit, Half
<1>8. ASSUME NEW a \in Byte PROVE a = BitSum(a)
  <2> DEFINE q1 == Half(a)
             q2 == Half(q1)
             q3 == Half(q2)
             q4 == Half(q3)
             q5 == Half(q4)
             q6 == Half(q5)
             q7 == Half(q6)
  <2>0. a \in Nat /\ Spelt(a, Odd(a), Odd(q1), Odd(q2), Odd(q3), Odd(q4), Odd(q5), Odd(q6), Odd(q7))
    BY Zenon, <1>7, <1>4
  <2>1. a = Odd(a) + 2 * q1 /\ q1 \in Nat
    BY Zenon, <2>0, <1>2
  <2>2. q1 = Odd(q1) + 2 * q2 /\ q2 \in Nat
    BY Zenon, <2>1, <1>2
  <2>3. q2 = Odd(q2) + 2 * q3 /\ q3 \in Nat
    BY Zenon, <2>2, <1>2
  <2>4. q3 = Odd(q3) + 2 * q4 /\ q4 \in Nat
    BY Zenon, <2>3, <1>2
  <2>5. q4 = Odd(q4) + 2 * q5 /\ q5 \in Nat
    BY Zenon, <2>4, <1>2
  <2>6. q5 = Odd(q5) + 2 * q6 /\ q6 \in Nat
    BY Zenon, <2>5, <1>2
  <2>7. q6 = Odd(q6) + 2 * q7
    BY Zenon, <2>6, <1>2
  <2>8. q7 = Odd(q7)
    BY Zenon, <1>7, <1>3
  <2> HIDE DEF q1, q2, q3, q4, q5, q6, q7
  <2>9. a = Sum8(Odd(a), Odd(q1), Odd(q2), Odd(q3), Odd(q4), Odd(q5), Odd(q6), Odd(q7))
    BY Zenon, <2>1, <2>2, <2>3, <2>4, <2>5, <2>6, <2>7, <2>8 DEF Sum8
  <2>10. QED
    BY Zenon, <2>0, <2>9 DEF Spelt, BitSum
<1>9. ASSUME NEW a \in Nat PROVE AllBits(a)
  BY SMT DEF AllBits, Bits8, Bit, BitOf, W32, W64, W128
<1>10. ASSUME NEW a, NEW b PROVE Xor(a, b) = XorSum(a, b)
  <2>1. Xor(a, b) = Unless(1, BitOf(a, 1), BitOf(b, 1)) + Unless(2, BitOf(a, 2), BitOf(b, 2))
                    + Unless(4, BitOf(a, 4), BitOf(b, 4)) + Unless(8, BitOf(a, 8), BitOf(b, 8))
                    + Unless(16, BitOf(a, 16), BitOf(b, 16)) + Unless(32, BitOf(a, W32), BitOf(b, W32))
                    + Unless(64, BitOf(a, W64), BitOf(b, W64))
                    + Unless(128, BitOf(a, W128), BitOf(b, W128))
    BY SMT DEF Xor, BitOf, Unless, W32, W64, W128
  <2>2. QED
    BY SMT, <2>1 DEF XorSum, Sum8, Differ, Unless
<1>11. ASSUME NEW a \in Nat, NEW b \in Nat PROVE XorBits(Xor(a, b), a, b)
  <2>1. Bits8(Differ(BitOf(a, 1), BitOf(b, 1)), Differ(BitOf(a, 2), BitOf(b, 2)),
              Differ(BitOf(a, 4), BitOf(b, 4)), Differ(BitOf(a, 8), BitOf(b, 8)),
              Differ(BitOf(a, 16), BitOf(b, 16)), Differ(BitOf(a, W32), BitOf(b, W32)),
              Differ(BitOf(a, W64), BitOf(b, W64)), Differ(BitOf(a, W128), BitOf(b, W128)))
    BY SMT DEF Bits8, Bit, Differ
  <2>2. QED
    BY Zenon, <2>1, <1>10, <1>6 DEF XorBits, XorSum
<1>12. ASSUME NEW a \in Byte, NEW b \in Byte PROVE Xor(Xor(a, b), b) = a
  <2>1. PICK c : c = Xor(a, b)
    OBVIOUS
  <2>2. a \in Nat /\ b \in Nat
    BY Zenon, <1>7
  <2>3. XorBits(c, a, b) /\ AllBits(a) /\ AllBits(b)
    BY Zenon, <2>1, <2>2, <1>9, <1>11
  <2>4. /\ Differ(BitOf(c, 1), BitOf(b, 1)) = BitOf(a, 1)
        /\ Differ(BitOf(c, 2), BitOf(b, 2)) = BitOf(a, 2)
        /\ Differ(BitOf(c, 4), BitOf(b, 4)) = BitOf(a, 4)
        /\ Differ(BitOf(c, 8), BitOf(b, 8)) = BitOf(a, 8)
    BY SMT, <2>3 DEF XorBits, AllBits, Spelt, Bits8, Bit, Differ
  <2>5. /\ Differ(BitOf(c, 16), BitOf(b, 16)) = BitOf(a, 16)
        /\ Differ(BitOf(c, W32), BitOf(b, W32)) = BitOf(a, W32)
        /\ Differ(BitOf(c, W64), BitOf(b, W64)) = BitOf(a, W64)
        /\ Differ(BitOf(c, W128), BitOf(b, W128)) = BitOf(a, W128)
    BY SMT, <2>3 DEF XorBits, AllBits, Spelt, Bits8, Bit, Differ
  <2>6. XorSum(c, b) = BitSum(a)
    BY Zenon, <2>4, <2>5 DEF XorSum, BitSum
  <2>7. QED
    BY Zenon, <2>1, <2>6, <1>8, <1>10
<1>13. QED
  BY Zenon, <1>12

\* The parsed length is a natural number.
LEMMA RawLenType ==
    ASSUME NEW len \in Nat, NEW buf \in [0..(len - 1) -> Byte], len >= 2,
           NEW ext \in {0, 2, 8}, len >= 2 + ext
    PROVE  raw_len(buf, ext) \in Nat
<1> DEFINE be2(i) == buf[i] * 256 + buf[i + 1]
           be4(i) == be2(i) * 65536 + be2(i + 2)
<1>1. \A i \in 0..(len - 1) : buf[i] \in Nat
  BY ByteFacts
<1>2. CASE ext = 0
  <2>1. buf[1] \in Byte
    OBVIOUS
  <2>2. QED
    BY <1>2, <2>1, FieldFacts DEF raw_len
<1>3. ASSUME NEW i \in Nat, i + 1 < len
      PROVE  be2(i) \in Nat
  <2>1. buf[i] \in Nat /\ buf[i + 1] \in Nat
    BY <1>1, <1>3
  <2>2. QED
    BY <2>1
<1>4. CASE ext = 2
  <2>1. be2(2) \in Nat
    BY <1>3, <1>4
  <2>2. QED
    BY <1>4, <2>1 DEF raw_len, read_be
<1>5. CASE ext = 8
  <2> HIDE DEF be2
  <2>1. be2(2) \in Nat /\ be2(4) \in Nat /\ be2(6) \in Nat /\ be2(8) \in Nat
    <3>1. 2 + 1 < len /\ 4 + 1 < len /\ 6 + 1 < len /\ 8 + 1 < len
      BY <1>5
    <3>2. QED
      BY <1>3, <3>1
  <2>2. be4(2) \in Nat /\ be4(6) \in Nat
    BY SMTT(30), <2>1
  <2>3. raw_len(buf, ext) = be4(2) * 65536 * 65536 + be4(6)
    <3>1. raw_len(buf, ext) = read_be(buf, 8)
      BY SMT, <1>5 DEF raw_len
    <3>2. read_be(buf, 8) = be4(2) * 65536 * 65536 + be4(6)
      BY SMT DEF read_be, be2
    <3> HIDE DEF be4
    <3>3. QED
      BY SMT, <3>1, <3>2
  <2> HIDE DEF be4
  <2>4. QED
    BY <2>2, <2>3
<1>6. QED
  BY <1>2, <1>4, <1>5

\* The fields of a header have their types.
LEMMA FieldsType ==
    ASSUME NEW len \in Nat, NEW buf \in [0..(len - 1) -> Byte], len >= 2, NEW plen \in Nat
    PROVE  fill_fields(buf, plen) \in Header
<1>1. buf[0] \in Byte /\ buf[1] \in Byte
  OBVIOUS
<1>2. NoKey \in [0..3 -> Byte]
  BY DEF NoKey, Byte
<1>3. (buf[0] >= 128) \in BOOLEAN /\ (buf[1] >= 128) \in BOOLEAN
  BY <1>1, ByteFacts
<1>4. buf[0] % 16 \in 0..15 /\ (buf[0] \div 16) % 8 \in 0..7
  BY <1>1, FieldFacts
<1>5. QED
  BY <1>2, <1>3, <1>4 DEF fill_fields, Header

\* The end of a parse: the masking key is read only if it is there.
LEMMA ParseMask ==
    ASSUME NEW len \in Nat, NEW buf \in [0..(len - 1) -> Byte],
           NEW hdr \in {2, 4, 10}, hdr <= len, NEW h \in Header,
           parse_mask(buf, len, hdr, h).rc > 0
    PROVE  /\ parse_mask(buf, len, hdr, h).h \in Header
           /\ parse_mask(buf, len, hdr, h).rc \in 2..14
           /\ parse_mask(buf, len, hdr, h).rc <= len
<1> DEFINE key == [i \in 0..3 |-> buf[hdr + i]]
<1>1. CASE ~h.masked
  BY <1>1 DEF parse_mask, Parsed
<1>2. CASE h.masked /\ len < hdr + 4
  BY <1>2 DEF parse_mask, Parsed, WS_ERR_NEED_MORE
<1>3. CASE h.masked /\ len >= hdr + 4
  <2>1. key \in [0..3 -> Byte]
    BY <1>3
  <2> HIDE DEF key
  <2>2. [h EXCEPT !.mask_key = key] \in Header
    BY Zenon, <2>1 DEF Header
  <2>3. parse_mask(buf, len, hdr, h) = [rc |-> hdr + 4, h |-> [h EXCEPT !.mask_key = key]]
    BY <1>3 DEF parse_mask, Parsed, key
  <2>4. QED
    BY <1>3, <2>2, <2>3
<1>4. QED
  BY <1>1, <1>2, <1>3

\* What a parse returns: a header, and a byte count within the bytes parsed.
LEMMA ParseResult ==
    ASSUME NEW len \in Nat, NEW buf \in [0..(len - 1) -> Byte],
           ws_parse_header(buf, len).rc > 0
    PROVE  /\ ws_parse_header(buf, len).h \in Header
           /\ ws_parse_header(buf, len).rc \in 2..14
           /\ ws_parse_header(buf, len).rc <= len
<1> DEFINE ext == ext_bytes(buf[1] % 128)
           h == fill_fields(buf, raw_len(buf, ext))
<1>1. ext \in {0, 2, 8}
  BY DEF ext_bytes
<1>2. /\ len >= 2
      /\ len >= 2 + ext
      /\ ws_parse_header(buf, len) = parse_mask(buf, len, 2 + ext, h)
  BY <1>1 DEF ws_parse_header, Unparsed, Parsed, WS_ERR_NEED_MORE, WS_ERR_PROTOCOL
<1> HIDE DEF ext
<1>3. h \in Header
  BY <1>1, <1>2, RawLenType, FieldsType
<1> HIDE DEF h
<1>4. 2 + ext \in {2, 4, 10}
  BY <1>1
<1>5. QED
  BY Zenon, <1>2, <1>3, <1>4, ParseMask

-----------------------------------------------------------------------------
(* The buffer.                                                              *)

Buffer == [0..(Cap - 1) -> Byte]

\* A copy down within the buffer leaves a buffer of bytes.
LEMMA FwdCopyType ==
    ASSUME NEW buf \in Buffer, NEW dst \in Nat, NEW src \in Nat, NEW n \in Nat,
           dst <= src, src + n <= Cap
    PROVE  fwd_copy(buf, dst, src, n) \in Buffer
BY CapAssumption DEF fwd_copy, Buffer

\* Masking leaves a buffer of bytes and touches only the range it is given.
LEMMA MaskType ==
    ASSUME NEW buf \in Buffer, NEW at \in Nat, NEW len \in Nat, NEW key \in [0..3 -> Byte]
    PROVE  /\ ws_mask(buf, at, len, key) \in Buffer
           /\ \A i \in 0..(Cap - 1) : i >= at + len => ws_mask(buf, at, len, key)[i] = buf[i]
<1>1. ASSUME NEW i \in 0..(Cap - 1), i \in at..(at + len - 1)
      PROVE  Xor(buf[i], key[(i - at) % 4]) \in Byte
  <2>1. (i - at) % 4 \in 0..3
    BY <1>1
  <2>2. buf[i] \in Byte /\ key[(i - at) % 4] \in Byte
    BY <2>1 DEF Buffer
  <2>3. QED
    BY <2>2, XorByte
<1>2. QED
  BY <1>1, CapAssumption DEF ws_mask, Buffer

-----------------------------------------------------------------------------
(* The connection invariant, and what a poll may do to a connection.        *)

ConnInv(c) ==
    /\ c \in Conn
    /\ c.msg_len + c.rx_len <= Cap
    /\ c.state = "CLOSED" <=> c.sent_close /\ c.rcvd_close
    /\ c.state = "CLOSING" <=> c.sent_close /\ ~c.rcvd_close
    /\ c.rcvd_close => c.sent_close
    /\ c.frag # "NONE" => ws_lc_active(c) /\ ~c.failed
    /\ c.msg_len > 0 => c.frag # "NONE"

\* A frame with header h of hdr bytes is buffered whole on a live connection.
Ready(c, h, hdr) ==
    /\ ConnInv(c) /\ ~c.failed
    /\ h \in Header
    /\ hdr \in 2..14
    /\ hdr + h.payload_len <= c.rx_len

\* A message starts or ends, the peer's Close arrives, or nothing changes.
LcStep(c, d) ==
    \/ /\ << d.state, d.sent_close, d.rcvd_close >> = << c.state, c.sent_close, c.rcvd_close >>
       /\ \/ d.frag = c.frag
          \/ ws_lc_active(c) /\ (d.frag = "NONE" \/ c.frag = "NONE")
    \/ /\ ws_lc_active(c)
       /\ << d.state, d.sent_close, d.rcvd_close, d.frag >> = << "CLOSED", TRUE, TRUE, "NONE" >>

\* d holds the raw bytes of c but the first k.
Keeps(c, d, k) ==
    /\ d.rx_len = c.rx_len - k
    /\ \A i \in 0..(d.rx_len - 1) : d.msg_buf[d.msg_len + i] = c.msg_buf[c.msg_len + k + i]

PollOK(c, r, k) ==
    /\ ConnInv(r.conn)
    /\ r.ev \in EventRecord /\ r.ev.data + r.ev.len <= Cap
    /\ r.ev.type = "ERROR" <=> r.conn.failed
    /\ LcStep(c, r.conn)
    /\ r.conn.state = IF r.ev.type = "CLOSE" THEN "CLOSED" ELSE c.state
    /\ c.state = "CLOSED" => r.ev.type \in {"NONE", "ERROR"}
    /\ ~r.conn.failed /\ ~Slips(c, r) => Keeps(c, r.conn, k)

\* An event as clear_event leaves it.
LEMMA EventOK ==
    ASSUME NEW type \in EventType
    PROVE  /\ Event(type) \in EventRecord /\ Event(type).type = type
           /\ Event(type).data = 0 /\ Event(type).len = 0
           /\ Event(type).data + Event(type).len <= Cap
BY CapAssumption DEF Event, EventRecord, UInt16

\* Latching an error resets the assembly and leaves the close handshake alone.
LEMMA FailOK ==
    ASSUME NEW c, ConnInv(c), NEW k
    PROVE  PollOK(c, fail(c), k)
<1> DEFINE d == [c EXCEPT !.failed = TRUE, !.frag = "NONE", !.msg_len = 0]
<1>1. fail(c) = [conn |-> d, ev |-> Event("ERROR")]
  BY DEF fail, Result
<1>2. d \in Conn
  <2>1. c \in Conn /\ "NONE" \in Frag /\ 0 \in 0..Cap
    BY CapAssumption DEF ConnInv, Frag
  <2>2. QED
    BY Zenon, <2>1 DEF Conn
<1>3. ConnInv(d)
  BY <1>2, CapAssumption DEF ConnInv, Conn, ws_lc_active
<1>4. /\ Event("ERROR") \in EventRecord /\ Event("ERROR").type = "ERROR"
      /\ Event("ERROR").data + Event("ERROR").len <= Cap
  BY EventOK DEF EventType
<1>5. LcStep(c, d)
  BY Zenon DEF ConnInv, Conn, LcStep
<1>6. d.failed /\ d.state = c.state
  BY DEF ConnInv, Conn
<1> HIDE DEF d
<1>7. QED
  BY <1>1, <1>3, <1>4, <1>5, <1>6 DEF PollOK

\* Unmasking keeps everything but the payload's own bytes.
LEMMA UnmaskOK ==
    ASSUME NEW c, NEW h, NEW hdr, Ready(c, h, hdr), NEW u, u = unmask_payload(c, h, hdr)
    PROVE  /\ Ready(u, h, hdr)
           /\ u.state = c.state /\ u.frag = c.frag /\ u.msg_len = c.msg_len /\ u.rx_len = c.rx_len
           /\ u.sent_close = c.sent_close /\ u.rcvd_close = c.rcvd_close /\ u.failed = c.failed
           /\ \A i \in 0..(Cap - 1) : i >= c.msg_len + (hdr + h.payload_len) =>
                                          u.msg_buf[i] = c.msg_buf[i]
<1> DEFINE m == ws_mask(c.msg_buf, c.msg_len + hdr, h.payload_len, h.mask_key)
<1>1. c \in Conn /\ h \in Header /\ hdr \in Nat
  BY DEF Ready, ConnInv
<1>2. CASE ~h.masked
  BY <1>1, <1>2 DEF unmask_payload, Conn
<1>3. CASE h.masked
  <2>1. /\ c.msg_buf \in Buffer /\ c.msg_len + hdr \in Nat
        /\ h.payload_len \in Nat /\ h.mask_key \in [0..3 -> Byte]
    BY <1>1 DEF Conn, Header, Buffer
  <2>2. /\ m \in Buffer
        /\ \A i \in 0..(Cap - 1) : i >= c.msg_len + (hdr + h.payload_len) => m[i] = c.msg_buf[i]
    <3>1. c.msg_len + hdr + h.payload_len = c.msg_len + (hdr + h.payload_len)
      <4>1. c.msg_len \in Nat
        BY <1>1, CapAssumption DEF Conn
      <4>2. QED
        BY <1>1, <2>1, <4>1
    <3>2. QED
      <4>1. /\ m \in Buffer
            /\ \A i \in 0..(Cap - 1) : i >= c.msg_len + hdr + h.payload_len => m[i] = c.msg_buf[i]
        BY Zenon, <2>1, MaskType
      <4>2. QED
        BY Zenon, <3>1, <4>1
  <2>3. u = [c EXCEPT !.msg_buf = m]
    BY <1>3 DEF unmask_payload
  <2> HIDE DEF m
  <2>4. /\ u \in Conn /\ u.msg_buf = m
        /\ u.state = c.state /\ u.frag = c.frag /\ u.msg_len = c.msg_len /\ u.rx_len = c.rx_len
        /\ u.sent_close = c.sent_close /\ u.rcvd_close = c.rcvd_close /\ u.failed = c.failed
    BY <1>1, <2>2, <2>3 DEF Conn, Buffer
  <2>5. Ready(u, h, hdr)
    BY <1>1, <2>4 DEF Ready, ConnInv, ws_lc_active
  <2>6. QED
    BY <2>2, <2>4, <2>5
<1>4. QED
  BY <1>2, <1>3, <1>1 DEF Header

-----------------------------------------------------------------------------
(* Data frames.                                                             *)

\* A legal data frame finds or starts the message it belongs to.
LEMMA BeginDataOK ==
    ASSUME NEW c, NEW h, NEW hdr, Ready(c, h, hdr), ws_lc_active(c), ~data_illegal(c, h)
    PROVE  \E f \in {"TEXT", "BIN"} :
               /\ begin_data(c, h) = [c EXCEPT !.frag = f]
               /\ c.frag # "NONE" => f = c.frag
<1>1. c \in Conn
  BY DEF Ready, ConnInv
<1>2. CASE h.opcode = WS_OP_CONT
  <2>1. c.frag \in {"TEXT", "BIN"} /\ begin_data(c, h) = c
    BY <1>1, <1>2 DEF data_illegal, is_stray_cont, begin_data, Conn, Frag
  <2>2. c = [c EXCEPT !.frag = c.frag]
    BY <1>1 DEF Conn
  <2>3. QED
    BY <2>1, <2>2
<1>3. CASE h.opcode # WS_OP_CONT
  BY <1>3 DEF data_illegal, is_interleave, begin_data, ws_lc_start_frag
<1>4. QED
  BY <1>2, <1>3

\* A payload moves into the message and the raw bytes behind it stay in order.
LEMMA AccumulateOK ==
    ASSUME NEW c, NEW h, NEW hdr, Ready(c, h, hdr), c.frag # "NONE",
           NEW d, d = accumulate(c, h, hdr)
    PROVE  /\ ConnInv(d)
           /\ d.frag = c.frag /\ d.state = c.state /\ d.failed = c.failed
           /\ d.sent_close = c.sent_close /\ d.rcvd_close = c.rcvd_close
           /\ Keeps(c, d, hdr + h.payload_len)
<1> DEFINE ml == c.msg_len
           n == h.payload_len
           rest == c.rx_len - hdr - n
           down == fwd_copy(c.msg_buf, ml, ml + hdr, n)
           moved == fwd_copy(down, ml + n, ml + hdr + n, rest)
<1>1. c \in Conn /\ ml \in Nat /\ c.rx_len \in Nat /\ n \in Nat /\ hdr \in Nat /\ rest \in Nat
      /\ ml + c.rx_len <= Cap /\ hdr >= 2
  BY CapAssumption DEF Ready, ConnInv, Conn, Header
<1>2. c.msg_buf \in Buffer
  BY <1>1 DEF Conn, Buffer
<1>3. down \in Buffer
  <2>1. ml + hdr \in Nat /\ ml <= ml + hdr /\ ml + hdr + n <= Cap
    BY <1>1, CapAssumption
  <2>2. QED
    BY <1>1, <1>2, <2>1, FwdCopyType
<1>4. moved \in Buffer
  <2>1. /\ ml + n \in Nat /\ ml + hdr + n \in Nat /\ ml + n <= ml + hdr + n
        /\ ml + hdr + n + rest <= Cap
    BY <1>1, CapAssumption
  <2> HIDE DEF down, rest
  <2>2. QED
    BY <1>1, <1>3, <2>1, FwdCopyType
<1>5. d = [c EXCEPT !.msg_buf = moved, !.rx_len = rest, !.msg_len = ml + n]
  BY <1>1 DEF accumulate, Conn
<1>6. \A i \in 0..(rest - 1) : moved[ml + n + i] = c.msg_buf[ml + hdr + n + i]
  <2> SUFFICES ASSUME NEW i \in 0..(rest - 1)
               PROVE  moved[ml + n + i] = c.msg_buf[ml + hdr + n + i]
    OBVIOUS
  <2>1. /\ ml + n + i \in 0..(Cap - 1) /\ ml + n + i \in (ml + n)..(ml + n + rest - 1)
        /\ ml + hdr + n + i \in 0..(Cap - 1) /\ ml + hdr + n + i \notin ml..(ml + n - 1)
        /\ ml + hdr + n + (ml + n + i) - (ml + n) = ml + hdr + n + i
    BY <1>1, CapAssumption
  <2>2. moved[ml + n + i] = down[ml + hdr + n + i]
    BY Zenon, <1>3, <2>1 DEF fwd_copy, Buffer
  <2>3. down[ml + hdr + n + i] = c.msg_buf[ml + hdr + n + i]
    BY Zenon, <1>2, <2>1 DEF fwd_copy, Buffer
  <2>4. QED
    BY <2>2, <2>3
<1> HIDE DEF moved
<1>7. /\ d \in Conn /\ d.msg_buf = moved /\ d.rx_len = rest /\ d.msg_len = ml + n
      /\ d.frag = c.frag /\ d.state = c.state /\ d.failed = c.failed
      /\ d.sent_close = c.sent_close /\ d.rcvd_close = c.rcvd_close
  <2>1. rest \in 0..Cap /\ ml + n \in 0..Cap
    BY <1>1, CapAssumption
  <2> HIDE DEF rest, ml, n
  <2>2. QED
    BY Zenon, <1>1, <1>4, <1>5, <2>1 DEF Conn, Buffer
<1>8. ConnInv(d)
  BY <1>1, <1>7, CapAssumption DEF Ready, ConnInv, ws_lc_active
<1>9. Keeps(c, d, hdr + n)
  BY <1>1, <1>6, <1>7 DEF Keeps
<1>10. QED
  BY <1>7, <1>8, <1>9

\* The end of a message: it is delivered, or refused for its encoding.
LEMMA FinishOK ==
    ASSUME NEW c, ConnInv(c), NEW d, ConnInv(d), NEW k,
           ws_lc_active(c), ~c.failed, d.frag # "NONE", Keeps(c, d, k),
           << d.state, d.sent_close, d.rcvd_close >> = << c.state, c.sent_close, c.rcvd_close >>
    PROVE  PollOK(c, finish_message(d), k)
<1> DEFINE r == finish_message(d)
           e == [d EXCEPT !.frag = "NONE", !.msg_len = 0]
           op == IF d.frag = "BIN" THEN WS_OP_BIN ELSE WS_OP_TEXT
           ev == [Event("MESSAGE") EXCEPT !.op = op, !.len = d.msg_len]
<1>1. d \in Conn /\ c \in Conn
  BY DEF ConnInv
<1>2. CASE ~message_utf8_ok(d)
  <2>1. r = fail(d) /\ PollOK(d, fail(d), k)
    BY <1>2, FailOK DEF finish_message
  <2>2. fail(d).conn.failed
    BY Zenon, <1>1 DEF fail, Result, Conn
  <2>3. LcStep(c, fail(d).conn)
    BY Zenon, <1>1 DEF fail, Result, LcStep, Conn
  <2>4. c.state # "CLOSED"
    BY DEF ws_lc_active
  <2>5. QED
    BY <2>1, <2>2, <2>3, <2>4 DEF PollOK
<1>3. CASE message_utf8_ok(d)
  <2>1. ~d.failed /\ ws_lc_active(d) /\ d.frag # "NONE"
    BY <1>1 DEF ConnInv
  <2>2. r = [conn |-> e, ev |-> ev]
    BY <1>1, <1>3, <2>1 DEF finish_message, Result, ws_lc_finish_frag, Conn
  <2>3. /\ e \in Conn /\ e.frag = "NONE" /\ e.msg_len = 0 /\ e.rx_len = d.rx_len
        /\ e.msg_buf = d.msg_buf /\ e.failed = d.failed /\ e.state = d.state
        /\ e.sent_close = d.sent_close /\ e.rcvd_close = d.rcvd_close
    <3>1. "NONE" \in Frag /\ 0 \in 0..Cap
      BY CapAssumption DEF Frag
    <3>2. QED
      BY Zenon, <1>1, <3>1 DEF Conn
  <2>4. /\ ev \in EventRecord /\ ev.type = "MESSAGE" /\ ev.len = d.msg_len
        /\ ev.data + ev.len <= Cap
    <3>1. op \in {WS_OP_TEXT, WS_OP_BIN} /\ "MESSAGE" \in EventType
      BY DEF EventType
    <3>2. d.msg_len \in 0..Cap
      BY <1>1 DEF Conn
    <3>3. /\ Event("MESSAGE") \in EventRecord /\ Event("MESSAGE").type = "MESSAGE"
          /\ Event("MESSAGE").data = 0
      BY <3>1, EventOK
    <3>4. ev = [Event("MESSAGE") EXCEPT !.op = op, !.len = d.msg_len]
      OBVIOUS
    <3> HIDE DEF op, ev
    <3>5. ev \in EventRecord /\ ev.type = "MESSAGE" /\ ev.len = d.msg_len /\ ev.data = 0
      BY Zenon, <3>1, <3>2, <3>3, <3>4 DEF EventRecord
    <3>6. QED
      BY <3>2, <3>5, CapAssumption
  <2> HIDE DEF r, e, ev
  <2>5. ConnInv(e)
    BY <1>1, <2>1, <2>3, CapAssumption DEF ConnInv, Conn, ws_lc_active
  <2>6. LcStep(c, e)
    BY <2>3 DEF LcStep
  <2>7. ~Slips(c, r) => Keeps(c, e, k)
    <3>1. CASE d.msg_len = 0
      BY <2>3, <3>1 DEF Keeps
    <3>2. CASE d.rx_len = 0
      BY <2>3, <3>2 DEF Keeps
    <3>3. CASE d.msg_len # 0 /\ d.rx_len # 0
      BY <1>1, <2>2, <2>3, <2>4, <3>3, CapAssumption DEF Slips, Conn
    <3>4. QED
      BY <3>1, <3>2, <3>3
  <2>8. QED
    BY <2>1, <2>2, <2>3, <2>4, <2>5, <2>6, <2>7 DEF PollOK, ws_lc_active, r
<1>4. QED
  BY <1>2, <1>3

\* A data frame.
LEMMA DataOK ==
    ASSUME NEW c, NEW h, NEW hdr, Ready(c, h, hdr), ws_lc_active(c)
    PROVE  PollOK(c, on_data(c, h, hdr), hdr + h.payload_len)
<1> DEFINE b == begin_data(c, h)
           d == accumulate(b, h, hdr)
           k == hdr + h.payload_len
<1>1. c \in Conn /\ ConnInv(c) /\ ~c.failed
  BY DEF Ready, ConnInv
<1>2. CASE data_illegal(c, h)
  BY <1>1, <1>2, FailOK DEF on_data
<1>3. CASE ~data_illegal(c, h)
  <2>1. PICK f \in {"TEXT", "BIN"} : b = [c EXCEPT !.frag = f] /\ (c.frag # "NONE" => f = c.frag)
    BY <1>3, BeginDataOK
  <2> HIDE DEF b
  <2>2. /\ b \in Conn /\ b.frag = f /\ b.msg_len = c.msg_len /\ b.rx_len = c.rx_len
        /\ b.msg_buf = c.msg_buf /\ b.failed = c.failed /\ b.state = c.state
        /\ b.sent_close = c.sent_close /\ b.rcvd_close = c.rcvd_close
    <3>1. f \in Frag /\ f # "NONE"
      BY DEF Frag
    <3>2. QED
      BY <1>1, <2>1, <3>1 DEF Conn
  <2>3. Ready(b, h, hdr) /\ b.frag # "NONE"
    BY <1>1, <2>2 DEF Ready, ConnInv, ws_lc_active
  <2>4. d = accumulate(b, h, hdr)
    OBVIOUS
  <2> HIDE DEF d
  <2>5. /\ ConnInv(d) /\ Keeps(b, d, k)
        /\ d.frag = f /\ d.failed = c.failed /\ d.state = c.state
        /\ d.sent_close = c.sent_close /\ d.rcvd_close = c.rcvd_close
    BY <2>2, <2>3, <2>4, AccumulateOK
  <2>6. Keeps(c, d, k)
    BY <2>2, <2>5 DEF Keeps
  <2>7. CASE h.fin
    <3>1. on_data(c, h, hdr) = finish_message(d)
      BY <1>3, <2>7 DEF on_data, d, b
    <3>2. QED
      BY <1>1, <2>5, <2>6, <3>1, FinishOK
  <2>8. CASE ~h.fin
    <3>1. on_data(c, h, hdr) = [conn |-> d, ev |-> Event("NONE")]
      BY <1>3, <2>8 DEF on_data, d, b, Result
    <3>2. /\ Event("NONE") \in EventRecord /\ Event("NONE").type = "NONE"
          /\ Event("NONE").data + Event("NONE").len <= Cap
      BY EventOK DEF EventType
    <3>3. LcStep(c, d)
      BY Zenon, <2>1, <2>5 DEF LcStep
    <3>4. QED
      BY <1>1, <2>5, <2>6, <3>1, <3>2, <3>3 DEF PollOK
  <2>9. QED
    BY <2>7, <2>8
<1>4. QED
  BY <1>2, <1>3

-----------------------------------------------------------------------------
(* Control frames.                                                          *)

\* Dropping a whole frame keeps the raw bytes behind it, at the region's start.
LEMMA ConsumeOK ==
    ASSUME NEW c \in Conn, c.msg_len + c.rx_len <= Cap, NEW take \in Nat, take <= c.rx_len,
           NEW d, d = raw_consume(c, take)
    PROVE  /\ d \in Conn /\ d.msg_len = c.msg_len /\ d.rx_len = c.rx_len - take
           /\ d.frag = c.frag /\ d.state = c.state /\ d.failed = c.failed
           /\ d.sent_close = c.sent_close /\ d.rcvd_close = c.rcvd_close
           /\ \A i \in 0..(d.rx_len - 1) : d.msg_buf[c.msg_len + i] = c.msg_buf[c.msg_len + take + i]
<1> DEFINE ml == c.msg_len
           rest == c.rx_len - take
           moved == fwd_copy(c.msg_buf, ml, ml + take, rest)
<1>1. /\ ml \in Nat /\ c.rx_len \in Nat /\ rest \in Nat /\ rest \in 0..Cap
      /\ ml + take \in Nat /\ ml <= ml + take /\ ml + take + rest <= Cap
  BY CapAssumption DEF Conn
<1>2. c.msg_buf \in Buffer
  BY DEF Conn, Buffer
<1>3. d = [c EXCEPT !.msg_buf = moved, !.rx_len = rest]
  BY DEF raw_consume, Conn
<1>4. \A i \in 0..(rest - 1) : moved[ml + i] = c.msg_buf[ml + take + i]
  <2> SUFFICES ASSUME NEW i \in 0..(rest - 1)
               PROVE  moved[ml + i] = c.msg_buf[ml + take + i]
    OBVIOUS
  <2>1. /\ ml + i \in 0..(Cap - 1) /\ ml + i \in ml..(ml + rest - 1)
        /\ ml + take + (ml + i) - ml = ml + take + i
    BY <1>1, CapAssumption
  <2>2. QED
    BY Zenon, <1>2, <2>1 DEF fwd_copy, Buffer
<1>5. moved \in Buffer
  <2> HIDE DEF rest, ml
  <2>1. QED
    BY <1>1, <1>2, FwdCopyType DEF ml
<1> HIDE DEF moved, rest
<1>6. /\ d \in Conn /\ d.msg_buf = moved /\ d.rx_len = rest /\ d.msg_len = c.msg_len
      /\ d.frag = c.frag /\ d.state = c.state /\ d.failed = c.failed
      /\ d.sent_close = c.sent_close /\ d.rcvd_close = c.rcvd_close
  BY Zenon, <1>1, <1>3, <1>5 DEF Conn, Buffer
<1>7. QED
  BY <1>4, <1>6 DEF rest

\* Two bytes make a 16-bit number.
LEMMA PairType ==
    ASSUME NEW x \in Byte, NEW y \in Byte
    PROVE  x * 256 + y \in UInt16
<1>1. x \in Int /\ y \in Int /\ 0 <= x /\ x <= 255 /\ 0 <= y /\ y <= 255
  BY DEF Byte
<1>2. QED
  BY <1>1 DEF UInt16

\* The close code read from a payload of two bytes or more.
LEMMA CloseCodeType ==
    ASSUME NEW c, NEW h, NEW hdr, Ready(c, h, hdr), h.payload_len >= 2
    PROVE  CloseCode(c, hdr) \in UInt16
<1> DEFINE at == c.msg_len + hdr
<1>1. c.msg_buf \in Buffer /\ at \in 0..(Cap - 1) /\ at + 1 \in 0..(Cap - 1)
  <2>1. /\ c.msg_len \in Nat /\ c.rx_len \in Nat /\ c.msg_buf \in Buffer /\ hdr \in Nat
        /\ h.payload_len \in Nat /\ c.msg_len + c.rx_len <= Cap /\ hdr + h.payload_len <= c.rx_len
    BY CapAssumption DEF Ready, ConnInv, Conn, Header, Buffer
  <2>2. QED
    BY <2>1, CapAssumption
<1>2. c.msg_buf[at] \in Byte /\ c.msg_buf[at + 1] \in Byte
  BY Zenon, <1>1 DEF Buffer
<1>3. QED
  BY <1>2, PairType DEF CloseCode

\* The peer's Close: the connection ends, the message in progress is dropped.
LEMMA CloseOK ==
    ASSUME NEW c, NEW h, NEW hdr, Ready(c, h, hdr), ws_lc_active(c)
    PROVE  PollOK(c, on_close(c, h, hdr), hdr + h.payload_len)
<1> DEFINE code == IF h.payload_len >= 2 THEN CloseCode(c, hdr) ELSE c.close_code
           coded == [c EXCEPT !.close_code = code]
           gone == ws_lc_recv_close(coded)
           k == hdr + h.payload_len
           d == raw_consume(gone, k)
           ev == [Event("CLOSE") EXCEPT !.close_code = code]
           r == on_close(c, h, hdr)
<1>1. c \in Conn /\ ConnInv(c) /\ ~c.failed /\ k \in Nat /\ k <= c.rx_len
  BY DEF Ready, ConnInv, Header
<1>2. CASE ~close_body_ok(c, h, hdr)
  BY <1>1, <1>2, FailOK DEF on_close
<1>3. CASE close_body_ok(c, h, hdr)
  <2>1. code \in UInt16
    BY <1>1, CloseCodeType DEF Conn
  <2>2. r = [conn |-> d, ev |-> ev]
    BY <1>1, <1>3 DEF on_close, Result, Conn
  <2> HIDE DEF code, r
  <2>3. /\ gone \in Conn /\ gone.msg_len = 0 /\ gone.frag = "NONE" /\ gone.state = "CLOSED"
        /\ gone.sent_close /\ gone.rcvd_close /\ gone.failed = c.failed
        /\ gone.rx_len = c.rx_len /\ gone.msg_buf = c.msg_buf
    <3>1. 0 \in 0..Cap /\ "NONE" \in Frag /\ "CLOSED" \in State
      BY CapAssumption DEF Frag, State
    <3>2. gone = [coded EXCEPT !.rcvd_close = TRUE, !.sent_close = TRUE, !.state = "CLOSED",
                               !.frag = "NONE", !.msg_len = 0]
      BY <1>1 DEF ws_lc_recv_close, ws_lc_active, Conn
    <3>3. QED
      BY ZenonT(60), <1>1, <2>1, <3>1, <3>2 DEF Conn
  <2>4. d = raw_consume(gone, k)
    OBVIOUS
  <2> HIDE DEF gone, d, k
  <2>5. gone.msg_len + gone.rx_len <= Cap /\ k <= gone.rx_len
    BY <1>1, <2>3, CapAssumption DEF Conn
  <2>6. /\ d \in Conn /\ d.msg_len = 0 /\ d.rx_len = c.rx_len - k
        /\ d.frag = "NONE" /\ d.state = "CLOSED" /\ d.failed = c.failed
        /\ d.sent_close /\ d.rcvd_close
        /\ \A i \in 0..(d.rx_len - 1) : d.msg_buf[0 + i] = c.msg_buf[0 + k + i]
    BY <1>1, <2>3, <2>4, <2>5, ConsumeOK
  <2>7. ConnInv(d)
    BY <1>1, <2>6, CapAssumption DEF ConnInv, Conn
  <2>8. ev \in EventRecord /\ ev.type = "CLOSE" /\ ev.data + ev.len <= Cap
    <3>1. /\ Event("CLOSE") \in EventRecord /\ Event("CLOSE").type = "CLOSE"
          /\ Event("CLOSE").data + Event("CLOSE").len <= Cap
      BY EventOK DEF EventType
    <3>2. QED
      BY <2>1, <3>1 DEF EventRecord
  <2> HIDE DEF ev
  <2>9. LcStep(c, d)
    BY <2>6 DEF LcStep, ConnInv, Conn
  <2>10. ~Slips(c, r) => Keeps(c, d, k)
    <3>1. CASE c.msg_len = 0
      BY <1>1, <2>6, <3>1 DEF Keeps
    <3>2. CASE d.rx_len = 0
      BY <1>1, <2>6, <3>2 DEF Keeps
    <3>3. CASE c.msg_len # 0 /\ d.rx_len # 0
      BY <1>1, <2>2, <2>6, <2>8, <3>3, CapAssumption DEF Slips, Conn
    <3>4. QED
      BY <3>1, <3>2, <3>3
  <2>11. QED
    BY <1>1, <2>2, <2>6, <2>7, <2>8, <2>9, <2>10 DEF PollOK, ws_lc_active, r, k
<1>4. QED
  BY <1>2, <1>3

\* A control frame.
LEMMA ControlOK ==
    ASSUME NEW c, NEW h, NEW hdr, Ready(c, h, hdr), ws_lc_active(c)
    PROVE  PollOK(c, on_control(c, h, hdr), hdr + h.payload_len)
<1> DEFINE k == hdr + h.payload_len
           d == raw_consume(c, k)
           type == IF h.opcode = WS_OP_PING THEN "PING" ELSE "PONG"
           at == c.msg_len + hdr
           ev == [Event(type) EXCEPT !.data = at, !.len = h.payload_len]
           r == on_control(c, h, hdr)
<1>1. CASE h.opcode = WS_OP_CLOSE
  BY <1>1, CloseOK DEF on_control
<1>2. CASE h.opcode # WS_OP_CLOSE
  <2>1. /\ c \in Conn /\ ConnInv(c) /\ ~c.failed /\ k \in Nat /\ k <= c.rx_len
        /\ c.msg_len + c.rx_len <= Cap /\ c.msg_len \in Nat /\ c.rx_len \in Nat
        /\ hdr \in Nat /\ h.payload_len \in Nat
    BY CapAssumption DEF Ready, ConnInv, Conn, Header
  <2>2. r = [conn |-> d, ev |-> ev]
    BY <1>2 DEF on_control, Result
  <2>3. d = raw_consume(c, k)
    OBVIOUS
  <2>4. type \in EventType /\ type \in {"PING", "PONG"}
    BY DEF EventType
  <2>5. at \in 0..Cap /\ h.payload_len \in 0..Cap /\ at + h.payload_len <= Cap
    BY <2>1, CapAssumption
  <2> HIDE DEF d, r, k, type, at
  <2>6. /\ d \in Conn /\ d.msg_len = c.msg_len /\ d.rx_len = c.rx_len - k
        /\ d.frag = c.frag /\ d.state = c.state /\ d.failed = c.failed
        /\ d.sent_close = c.sent_close /\ d.rcvd_close = c.rcvd_close
        /\ \A i \in 0..(d.rx_len - 1) : d.msg_buf[c.msg_len + i] = c.msg_buf[c.msg_len + k + i]
    BY <2>1, <2>3, ConsumeOK
  <2>7. ConnInv(d)
    BY <2>1, <2>6, CapAssumption DEF ConnInv, ws_lc_active
  <2>8. ev \in EventRecord /\ ev.type = type /\ ev.data + ev.len <= Cap
    <3>1. Event(type) \in EventRecord /\ Event(type).type = type
      BY <2>4, EventOK
    <3>2. QED
      BY Zenon, <2>5, <3>1 DEF EventRecord
  <2> HIDE DEF ev
  <2>9. LcStep(c, d) /\ Keeps(c, d, k)
    BY <2>6 DEF LcStep, Keeps
  <2>10. PollOK(c, r, k)
    BY <2>1, <2>2, <2>4, <2>6, <2>7, <2>8, <2>9 DEF PollOK, ws_lc_active
  <2>11. QED
    BY <2>10 DEF r, k
<1>3. QED
  BY <1>1, <1>2

-----------------------------------------------------------------------------
(* Whole operations.                                                        *)

\* Routing an unmasked frame by its opcode.
LEMMA RouteOK ==
    ASSUME NEW c, NEW h, NEW hdr, Ready(c, h, hdr), ws_lc_active(c)
    PROVE  PollOK(c, route(c, h, hdr), hdr + h.payload_len)
<1>1. \/ route(c, h, hdr) = on_control(c, h, hdr)
      \/ route(c, h, hdr) = on_data(c, h, hdr)
      \/ route(c, h, hdr) = fail(c)
  BY DEF route, ws_classify_opcode
<1>2. PollOK(c, fail(c), hdr + h.payload_len)
  BY FailOK DEF Ready
<1>3. QED
  BY <1>1, <1>2, ControlOK, DataOK

\* The raw region is a buffer of rx_len bytes.
LEMMA RawType ==
    ASSUME NEW c, ConnInv(c)
    PROVE  c.rx_len \in Nat /\ raw(c) \in [0..(c.rx_len - 1) -> Byte]
<1>1. /\ c.msg_len \in Nat /\ c.rx_len \in Nat /\ c.msg_len + c.rx_len <= Cap
      /\ c.msg_buf \in [0..(Cap - 1) -> Byte]
  BY CapAssumption DEF ConnInv, Conn
<1>2. \A i \in 0..(c.rx_len - 1) : c.msg_len + i \in 0..(Cap - 1)
  BY <1>1, CapAssumption
<1>3. QED
  BY Zenon, <1>1, <1>2 DEF raw

\* A frame that is ready lies whole in the raw region.
LEMMA ReadyFrame ==
    ASSUME NEW c, ConnInv(c), frame_ready(c), NEW p, p = ws_parse_header(raw(c), c.rx_len)
    PROVE  /\ p.h \in Header /\ p.h.payload_len \in Nat
           /\ p.rc \in 2..14 /\ p.rc \in Nat
           /\ p.rc + p.h.payload_len <= c.rx_len
<1>1. c.rx_len \in Nat
  BY RawType
<1>2. raw(c) \in [0..(c.rx_len - 1) -> Byte]
  BY RawType
<1>3. p.rc > 0 /\ c.rx_len >= p.rc + p.h.payload_len
  BY DEF frame_ready
<1>4. p.h \in Header /\ p.rc \in 2..14
  BY Zenon, <1>1, <1>2, <1>3, ParseResult
<1>5. QED
  BY <1>1, <1>3, <1>4 DEF Header

\* What poll does to c: report a latched error, wait, or take one whole frame.
LEMMA PollResult ==
    ASSUME NEW c, ConnInv(c)
    PROVE  \E k \in 0..c.rx_len : PollOK(c, ws_conn_poll(c), k)
<1> DEFINE p == ws_parse_header(raw(c), c.rx_len)
           r == ws_conn_poll(c)
<1>1. /\ c \in Conn /\ c.msg_len \in Nat /\ c.rx_len \in Nat /\ c.msg_len + c.rx_len <= Cap
      /\ c.msg_buf \in [0..(Cap - 1) -> Byte] /\ 0 \in 0..c.rx_len
  BY CapAssumption DEF ConnInv, Conn
<1>2. \A type \in {"ERROR", "NONE"} :
          /\ Event(type) \in EventRecord /\ Event(type).type = type
          /\ Event(type).data + Event(type).len <= Cap
  BY EventOK DEF EventType
<1>3. LcStep(c, c) /\ Keeps(c, c, 0)
  BY <1>1 DEF LcStep, Keeps
<1>4. CASE c.failed
  <2>1. r = [conn |-> c, ev |-> Event("ERROR")]
    BY <1>4 DEF ws_conn_poll, Result
  <2>2. PollOK(c, r, 0)
    BY <1>2, <1>3, <1>4, <2>1 DEF PollOK
  <2>3. QED
    BY <1>1, <2>2
<1>5. CASE ~c.failed /\ ~frame_ready(c)
  <2>1. r = [conn |-> c, ev |-> Event("NONE")]
    BY <1>5 DEF ws_conn_poll, Result
  <2>2. PollOK(c, r, 0)
    BY <1>2, <1>3, <1>5, <2>1 DEF PollOK
  <2>3. QED
    BY <1>1, <2>2
<1>6. CASE ~c.failed /\ frame_ready(c)
  <2> DEFINE h == p.h
             hdr == p.rc
             u == unmask_payload(c, h, hdr)
             k == hdr + h.payload_len
  <2>1. r = dispatch(c, h, hdr)
    BY <1>6 DEF ws_conn_poll
  <2>2. p = ws_parse_header(raw(c), c.rx_len)
    OBVIOUS
  <2> HIDE DEF p, r
  <2>3. /\ h \in Header /\ h.payload_len \in Nat /\ hdr \in 2..14 /\ hdr \in Nat
        /\ hdr + h.payload_len <= c.rx_len
    BY <1>6, <2>2, ReadyFrame
  <2> HIDE DEF h, hdr
  <2>4. Ready(c, h, hdr)
    BY <1>6, <2>3 DEF Ready
  <2>5. k \in 0..c.rx_len
    BY <1>1, <2>3
  <2>6. CASE ~ws_lc_active(c) \/ ~mask_ok(c, h)
    <3>1. r = fail(c)
      BY <2>1, <2>6 DEF dispatch
    <3>2. PollOK(c, r, k)
      BY <3>1, FailOK
    <3>3. QED
      BY <2>5, <3>2 DEF r
  <2>7. CASE ws_lc_active(c) /\ mask_ok(c, h)
    <3>1. r = route(u, h, hdr) /\ u = unmask_payload(c, h, hdr)
      BY <2>1, <2>7 DEF dispatch
    <3> HIDE DEF u
    <3>2. Ready(u, h, hdr)
      BY Zenon, <2>4, <3>1, UnmaskOK
    <3>3. /\ u.state = c.state /\ u.frag = c.frag /\ u.msg_len = c.msg_len /\ u.rx_len = c.rx_len
          /\ u.sent_close = c.sent_close /\ u.rcvd_close = c.rcvd_close /\ u.failed = c.failed
          /\ \A i \in 0..(Cap - 1) : i >= c.msg_len + k => u.msg_buf[i] = c.msg_buf[i]
      BY <2>4, <3>1, UnmaskOK
    <3>4. PollOK(u, r, k)
      BY <2>7, <3>1, <3>2, <3>3, RouteOK DEF ws_lc_active
    <3>5. Keeps(u, r.conn, k) => Keeps(c, r.conn, k)
      <4> SUFFICES ASSUME Keeps(u, r.conn, k) PROVE Keeps(c, r.conn, k)
        OBVIOUS
      <4>1. r.conn.rx_len = c.rx_len - k
        BY <3>3 DEF Keeps
      <4>2. ASSUME NEW i \in 0..(r.conn.rx_len - 1)
            PROVE  u.msg_buf[u.msg_len + k + i] = c.msg_buf[c.msg_len + k + i]
        <5> HIDE DEF k
        <5>1. c.msg_len + k + i \in 0..(Cap - 1) /\ c.msg_len + k + i >= c.msg_len + k
          BY SMTT(30), <1>1, <2>5, <4>1, CapAssumption
        <5>2. QED
          BY <3>3, <5>1
      <4>3. QED
        BY <4>1, <4>2 DEF Keeps
    <3>6. LcStep(c, r.conn)
      BY Zenon, <3>3, <3>4 DEF PollOK, LcStep, ws_lc_active
    <3>7. Slips(u, r) <=> Slips(c, r)
      BY <3>3 DEF Slips
    <3>8. PollOK(c, r, k)
      BY <3>3, <3>4, <3>5, <3>6, <3>7 DEF PollOK
    <3>9. QED
      BY <2>5, <3>8 DEF r
  <2>8. QED
    BY <2>6, <2>7
<1>7. QED
  BY <1>4, <1>5, <1>6

\* The size test cannot fire: a frame buffered whole fits the message.
LEMMA NotTooBig ==
    ASSUME NEW c, ConnInv(c), frame_ready(c)
    PROVE  ~too_big(c, ws_parse_header(raw(c), c.rx_len).h)
<1> DEFINE p == ws_parse_header(raw(c), c.rx_len)
<1>1. p = ws_parse_header(raw(c), c.rx_len)
  OBVIOUS
<1> HIDE DEF p
<1>2. p.h.payload_len \in Nat /\ p.rc \in Nat /\ p.rc + p.h.payload_len <= c.rx_len
  BY <1>1, ReadyFrame
<1>3. c.msg_len \in Nat /\ c.rx_len \in Nat /\ c.msg_len + c.rx_len <= Cap
  BY CapAssumption DEF ConnInv, Conn
<1>4. ~(c.msg_len + p.h.payload_len > Cap)
  BY <1>2, <1>3, CapAssumption
<1>5. QED
  BY <1>4 DEF too_big, p

\* The initial connection.
LEMMA InitOK ==
    ASSUME NEW role \in Role
    PROVE  ConnInv(ws_conn_init(role))
<1>1. [i \in 0..(Cap - 1) |-> 0] \in [0..(Cap - 1) -> Byte]
  BY DEF Byte
<1>2. 0 \in UInt16 /\ 0 \in 0..Cap /\ "CONNECTING" \in State /\ "NONE" \in Frag
  BY CapAssumption DEF UInt16, State, Frag
<1>3. ws_conn_init(role) \in Conn
  BY <1>1, <1>2 DEF ws_conn_init, Conn
<1>4. QED
  BY <1>3, CapAssumption DEF ws_conn_init, ConnInv

\* c and d differ in the state and the close bits at most.
SameBuffers(c, d) ==
    /\ d.frag = c.frag /\ d.failed = c.failed
    /\ d.msg_len = c.msg_len /\ d.rx_len = c.rx_len /\ d.msg_buf = c.msg_buf

\* Opening.
LEMMA OpenOK ==
    ASSUME NEW c, ConnInv(c), NEW d, d = ws_conn_open(c)
    PROVE  /\ ConnInv(d) /\ SameBuffers(c, d)
           /\ d.sent_close = c.sent_close /\ d.rcvd_close = c.rcvd_close
           /\ \/ d.state = c.state
              \/ c.state = "CONNECTING" /\ d.state = "OPEN"
<1>1. c \in Conn
  BY DEF ConnInv
<1>2. CASE c.state # "CONNECTING"
  BY <1>2 DEF ws_conn_open, ws_lc_handshake, SameBuffers
<1>3. CASE c.state = "CONNECTING"
  <2>1. d = [c EXCEPT !.state = "OPEN"] /\ "OPEN" \in State
    BY <1>3 DEF ws_conn_open, ws_lc_handshake, State
  <2>2. QED
    BY <1>1, <1>3, <2>1 DEF ConnInv, Conn, ws_lc_active, SameBuffers
<1>4. QED
  BY <1>2, <1>3

\* Sending a Close.
LEMMA SendCloseOK ==
    ASSUME NEW c, ConnInv(c), NEW code, NEW key, NEW cap,
           NEW d, d = ws_send_close(c, code, key, cap).conn
    PROVE  /\ ConnInv(d) /\ SameBuffers(c, d) /\ d.rcvd_close = c.rcvd_close
           /\ \/ d = c
              \/ c.state = "OPEN" /\ d.state = "CLOSING" /\ d.sent_close
<1>1. c \in Conn
  BY DEF ConnInv
<1>2. CASE d = c
  BY <1>2 DEF SameBuffers
<1>3. CASE d = [c EXCEPT !.sent_close = TRUE, !.state = "CLOSING"] /\ c.state = "OPEN"
  <2>1. "CLOSING" \in State
    BY DEF State
  <2>2. /\ d \in Conn /\ d.state = "CLOSING" /\ d.sent_close /\ d.rcvd_close = c.rcvd_close
        /\ SameBuffers(c, d)
    BY Zenon, <1>1, <1>3, <2>1 DEF Conn, SameBuffers
  <2>3. ConnInv(d)
    BY <1>1, <1>3, <2>2 DEF ConnInv, Conn, ws_lc_active, SameBuffers
  <2>4. QED
    BY <1>3, <2>2, <2>3
<1>4. QED
  BY <1>2, <1>3 DEF ws_send_close, ws_lc_send_close

\* Bytes written into a buffer, at an offset.
Splice(buf, at, bytes) ==
    [i \in 0..(Cap - 1) |-> IF i \in at..(at + Len(bytes) - 1) THEN bytes[i - at + 1] ELSE buf[i]]

\* They leave what lies before them alone.
LEMMA SpliceOK ==
    ASSUME NEW buf \in Buffer, NEW at \in Nat, NEW bytes \in Seq(Byte), at + Len(bytes) <= Cap,
           NEW b, b = Splice(buf, at, bytes)
    PROVE  /\ b \in Buffer
           /\ \A i \in 0..(at - 1) : b[i] = buf[i]
           /\ \A j \in 1..Len(bytes) : b[at + j - 1] = bytes[j]
<1>1. Len(bytes) \in Nat /\ \A j \in 1..Len(bytes) : bytes[j] \in Byte
  OBVIOUS
<1>2. ASSUME NEW i \in 0..(Cap - 1), i \in at..(at + Len(bytes) - 1)
      PROVE  i - at + 1 \in 1..Len(bytes)
  BY <1>1, <1>2
<1>3. b \in Buffer
  BY <1>1, <1>2 DEF Buffer, Splice
<1>4. \A i \in 0..(at - 1) : b[i] = buf[i]
  BY <1>1, CapAssumption DEF Splice
<1>5. ASSUME NEW j \in 1..Len(bytes)
      PROVE  b[at + j - 1] = bytes[j]
  <2>1. /\ at + j - 1 \in 0..(Cap - 1) /\ at + j - 1 \in at..(at + Len(bytes) - 1)
        /\ at + j - 1 - at + 1 = j
    BY <1>1, CapAssumption
  <2>2. QED
    BY <2>1 DEF Splice
<1>6. QED
  BY <1>3, <1>4, <1>5

\* Receiving: the bytes that fit go behind the raw region, nothing else moves.
LEMMA RecvOK ==
    ASSUME NEW c, ConnInv(c), NEW bytes \in Seq(Byte), recv_fits(c, bytes),
           NEW d, d = ws_conn_recv(c, bytes), NEW at, at = c.msg_len + c.rx_len
    PROVE  /\ ConnInv(d)
           /\ d.state = c.state /\ d.frag = c.frag /\ d.msg_len = c.msg_len
           /\ d.rx_len = c.rx_len + Len(bytes)
           /\ d.sent_close = c.sent_close /\ d.rcvd_close = c.rcvd_close /\ d.failed = c.failed
           /\ \A i \in 0..(at - 1) : d.msg_buf[i] = c.msg_buf[i]
           /\ \A j \in 1..Len(bytes) : d.msg_buf[at + j - 1] = bytes[j]
<1> DEFINE n == Len(bytes)
           buf == Splice(c.msg_buf, at, bytes)
<1>1. c \in Conn /\ c.msg_len \in Nat /\ c.rx_len \in Nat /\ at \in Nat /\ c.msg_buf \in Buffer
  BY CapAssumption DEF ConnInv, Conn, Buffer
<1>2. n \in Nat /\ at + n <= Cap
  BY <1>1 DEF recv_fits
<1>3. d = [c EXCEPT !.msg_buf = buf, !.rx_len = c.rx_len + n]
  <2>1. d = [c EXCEPT !.msg_buf = [i \in 0..(Cap - 1) |->
                                      IF i \in at..(at + Len(bytes) - 1)
                                      THEN bytes[i - at + 1] ELSE @[i]],
                      !.rx_len = @ + Len(bytes)]
    BY Zenon DEF ws_conn_recv
  <2>2. QED
    BY Zenon, <2>1 DEF Splice
<1>4. buf = Splice(c.msg_buf, at, bytes)
  OBVIOUS
<1> HIDE DEF buf
<1>5. /\ buf \in Buffer
      /\ \A i \in 0..(at - 1) : buf[i] = c.msg_buf[i]
      /\ \A j \in 1..Len(bytes) : buf[at + j - 1] = bytes[j]
  BY SMTT(30), <1>1, <1>2, <1>4, SpliceOK
<1>6. /\ d \in Conn /\ d.msg_buf = buf
      /\ d.state = c.state /\ d.frag = c.frag /\ d.msg_len = c.msg_len
      /\ d.rx_len = c.rx_len + n
      /\ d.sent_close = c.sent_close /\ d.rcvd_close = c.rcvd_close /\ d.failed = c.failed
  <2>1. c.rx_len + n \in 0..Cap
    BY SMTT(30), <1>1, <1>2, CapAssumption
  <2> HIDE DEF n
  <2>2. QED
    BY Zenon, <1>1, <1>3, <1>5, <2>1 DEF Conn, Buffer
<1> HIDE DEF n
<1>7. ConnInv(d)
  BY <1>1, <1>2, <1>6, CapAssumption DEF ConnInv, ws_lc_active
<1>8. QED
  BY <1>5, <1>6, <1>7 DEF n

\* Neither changes the role.
LEMMA RoleKept ==
    ASSUME NEW c \in Conn, NEW bytes
    PROVE  /\ ws_conn_recv(c, bytes).role = c.role
           /\ ws_lc_send_close(c).role = c.role /\ ws_conn_open(c).role = c.role
<1>1. ws_conn_recv(c, bytes).role = c.role
  BY Zenon DEF ws_conn_recv, Conn
<1>2. ws_lc_send_close(c).role = c.role /\ ws_conn_open(c).role = c.role
  BY Zenon DEF ws_lc_send_close, ws_conn_open, ws_lc_handshake, Conn
<1>3. QED
  BY Zenon, <1>1, <1>2

-----------------------------------------------------------------------------
(* What a poll reports of a whole frame, on a connection with nothing       *)
(* assembled and nothing behind the frame.                                  *)

\* The bytes b lie in the buffer, from offset at on.
Carries(buf, at, b) == \A i \in 1..Len(b) : buf[at + (i - 1)] = b[i]

\* The frame of header h of hdr bytes, with the payload b, is all there is.
Alone(c, h, hdr, b) ==
    /\ Ready(c, h, hdr) /\ ws_lc_active(c)
    /\ c.msg_len = 0 /\ c.frag = "NONE" /\ c.rx_len = hdr + h.payload_len
    /\ b \in Seq(Byte) /\ Len(b) = h.payload_len

\* It is reported and consumed, or refused.
Hears(c, r, type, op, b, code) ==
    /\ r.ev.type = type /\ r.ev.op = op /\ EventData(r) = b /\ r.ev.close_code = code
    /\ r.conn.rx_len = 0 /\ r.conn.msg_len = 0 /\ r.conn.frag = "NONE"
    /\ ~r.conn.failed /\ r.conn.role = c.role

Refuses(c, r) ==
    /\ r.ev.type = "ERROR" /\ r.ev.op = WS_OP_TEXT /\ EventData(r) = << >>
    /\ r.ev.close_code = 0
    /\ r.conn.failed /\ r.conn.msg_len = 0 /\ r.conn.frag = "NONE" /\ r.conn.role = c.role

LEMMA FailRefuses ==
    ASSUME NEW c \in Conn PROVE Refuses(c, fail(c))
<1>1. PICK d, ev : /\ d = [c EXCEPT !.failed = TRUE, !.frag = "NONE", !.msg_len = 0]
                   /\ ev = Event("ERROR") /\ fail(c) = [conn |-> d, ev |-> ev]
  BY Zenon DEF fail, Result
<1>2. d.failed /\ d.msg_len = 0 /\ d.frag = "NONE" /\ d.role = c.role
  BY Zenon, <1>1 DEF Conn
<1>3. ev.type = "ERROR" /\ ev.op = WS_OP_TEXT /\ ev.len = 0 /\ ev.close_code = 0
  BY SMT, <1>1 DEF Event
<1>4. EventData(fail(c)) = << >>
  BY SMT, <1>1, <1>3 DEF EventData
<1>5. fail(c).conn = d /\ fail(c).ev = ev
  BY SMT, <1>1
<1>6. QED
  BY SMT, <1>2, <1>3, <1>4, <1>5 DEF Refuses

\* Unmasking undoes the peer's masking.
OnWire(h, b, i) == IF h.masked THEN Xor(b[i], h.mask_key[(i - 1) % 4]) ELSE b[i]
Arrived(buf, hdr, h, b) == \A i \in 1..Len(b) : buf[hdr + (i - 1)] = OnWire(h, b, i)

LEMMA Unmasks ==
    ASSUME NEW c, NEW h, NEW hdr, NEW b, Alone(c, h, hdr, b),
           Arrived(c.msg_buf, hdr, h, b), NEW u, u = unmask_payload(c, h, hdr)
    PROVE  Alone(u, h, hdr, b) /\ Carries(u.msg_buf, hdr, b) /\ u.role = c.role
<1>1. /\ Ready(c, h, hdr) /\ ws_lc_active(c) /\ c.msg_len = 0 /\ c.frag = "NONE"
      /\ c.rx_len = hdr + h.payload_len /\ b \in Seq(Byte) /\ Len(b) = h.payload_len
  BY Zenon DEF Alone
<1>2. /\ Ready(u, h, hdr)
      /\ u.state = c.state /\ u.frag = c.frag /\ u.msg_len = c.msg_len /\ u.rx_len = c.rx_len
  BY SMT, <1>1, UnmaskOK
<1>3. Alone(u, h, hdr, b)
  BY Zenon, <1>1, <1>2 DEF Alone, ws_lc_active
<1>4. /\ c \in Conn /\ h \in Header /\ hdr \in Nat /\ Len(b) \in Nat /\ Len(b) = h.payload_len
      /\ c.rx_len <= Cap /\ c.rx_len = hdr + Len(b)
  <2>1. c \in Conn /\ c.rx_len \in 0..Cap /\ h \in Header /\ hdr \in 2..14
    BY Zenon, <1>1 DEF Ready, ConnInv, Conn
  <2>2. QED
    BY SMT, <1>1, <2>1, CapAssumption
<1>5. u.role = c.role
  BY Zenon, <1>4 DEF unmask_payload, Conn
<1>6. ASSUME NEW i \in 1..Len(b) PROVE u.msg_buf[hdr + (i - 1)] = b[i]
  <2>1. b[i] \in Byte
    BY SMT, <1>1
  <2>2. CASE ~h.masked
    BY Zenon, <2>2 DEF unmask_payload, Arrived, OnWire
  <2>3. CASE h.masked
    <3>1. PICK k : k = hdr + (i - 1)
      BY Zenon
    <3>2. k \in 0..(Cap - 1) /\ k \in hdr..(hdr + Len(b) - 1) /\ k - hdr = i - 1
      BY SMT, <1>4, <3>1, CapAssumption
    <3>3. c.msg_len + hdr = hdr
      BY SMT, <1>1, <1>4
    <3>4. u.msg_buf = ws_mask(c.msg_buf, hdr, Len(b), h.mask_key)
      BY Zenon, <1>4, <2>3, <3>3 DEF unmask_payload, Conn
    <3>5. DOMAIN c.msg_buf = 0..(Cap - 1)
      BY Zenon, <1>4 DEF Conn
    <3>6. u.msg_buf[k] = Xor(c.msg_buf[k], h.mask_key[(i - 1) % 4])
      BY Zenon, <3>2, <3>4, <3>5 DEF ws_mask
    <3>7. c.msg_buf[k] = Xor(b[i], h.mask_key[(i - 1) % 4])
      BY Zenon, <2>3, <3>1 DEF Arrived, OnWire
    <3>8. h.mask_key[(i - 1) % 4] \in Byte
      <4>1. (i - 1) % 4 \in 0..3
        BY SMT, <1>4
      <4>2. QED
        BY Zenon, <1>4, <4>1 DEF Header
    <3>9. QED
      BY Zenon, <2>1, <3>1, <3>6, <3>7, <3>8, XorTwice
  <2>4. QED
    BY Zenon, <2>2, <2>3
<1>7. QED
  BY Zenon, <1>3, <1>5, <1>6 DEF Carries

\* Consuming all there is moves nothing.
LEMMA ConsumesAll ==
    ASSUME NEW c \in Conn, NEW take, take = c.rx_len, NEW d, d = raw_consume(c, take)
    PROVE  /\ d.rx_len = 0 /\ d.msg_buf = c.msg_buf /\ d.msg_len = c.msg_len
           /\ d.frag = c.frag /\ d.failed = c.failed /\ d.role = c.role
<1>1. c.rx_len \in Nat /\ c.msg_len \in Nat
  BY SMT, CapAssumption DEF Conn
<1>2. PICK n : n = c.rx_len - take
  BY Zenon
<1>3. n = 0
  BY SMT, <1>1, <1>2
<1>4. PICK m \in Int, k \in Int : m = c.msg_len /\ k = c.msg_len + take
  BY SMT, <1>1
<1>5. PICK buf : buf = c.msg_buf /\ buf = [i \in DOMAIN buf |-> buf[i]]
  BY Zenon DEF Conn
<1>6. fwd_copy(buf, m, k, n) = buf
  <2>1. \A i : i \notin m..(m + n - 1)
    BY SMT, <1>3
  <2>2. QED
    BY Zenon, <1>5, <2>1 DEF fwd_copy
<1>7. d = [c EXCEPT !.msg_buf = buf, !.rx_len = n]
  BY Zenon, <1>2, <1>4, <1>5, <1>6 DEF raw_consume, Conn
<1>8. QED
  BY Zenon, <1>3, <1>5, <1>7 DEF Conn

\* What the caller reads through ev.data.
LEMMA ReadsData ==
    ASSUME NEW r, NEW at \in Nat, NEW b \in Seq(Byte), r.ev.data = at, r.ev.len = Len(b),
           Carries(r.conn.msg_buf, at, b)
    PROVE  EventData(r) = b
<1>1. Len(b) \in Nat /\ b = [i \in 1..Len(b) |-> b[i]]
  BY SMT
<1>2. ASSUME NEW i \in 1..Len(b) PROVE r.conn.msg_buf[r.ev.data + i - 1] = b[i]
  <2>1. at + i - 1 = at + (i - 1)
    BY SMT, <1>1
  <2>2. QED
    BY Zenon, <2>1 DEF Carries
<1>3. QED
  BY Zenon, <1>1, <1>2 DEF EventData

\* A ping or a pong.
LEMMA ControlHears ==
    ASSUME NEW c, NEW h, NEW hdr, NEW b, Alone(c, h, hdr, b), Carries(c.msg_buf, hdr, b),
           h.opcode # WS_OP_CLOSE, NEW r, r = on_control(c, h, hdr)
    PROVE  Hears(c, r, IF h.opcode = WS_OP_PING THEN "PING" ELSE "PONG", WS_OP_TEXT, b, 0)
<1>1. /\ c \in Conn /\ ~c.failed /\ c.msg_len = 0 /\ c.frag = "NONE"
      /\ c.rx_len = hdr + h.payload_len /\ b \in Seq(Byte) /\ Len(b) = h.payload_len
      /\ hdr \in 2..14
  BY Zenon DEF Alone, Ready, ConnInv
<1>2. PICK d : d = raw_consume(c, hdr + h.payload_len)
  BY Zenon
<1>3. PICK type : type = IF h.opcode = WS_OP_PING THEN "PING" ELSE "PONG"
  BY Zenon
<1>4. PICK ev : ev = [Event(type) EXCEPT !.data = c.msg_len + hdr, !.len = h.payload_len]
  BY Zenon
<1>5. r.conn = d /\ r.ev = ev
  BY Zenon, <1>2, <1>3, <1>4 DEF on_control, Result
<1>6. /\ d.rx_len = 0 /\ d.msg_buf = c.msg_buf /\ d.msg_len = 0 /\ d.frag = "NONE"
      /\ ~d.failed /\ d.role = c.role
  <2>1. /\ d.rx_len = 0 /\ d.msg_buf = c.msg_buf /\ d.msg_len = c.msg_len
        /\ d.frag = c.frag /\ d.failed = c.failed /\ d.role = c.role
    BY SMT, <1>1, <1>2, ConsumesAll
  <2>2. QED
    BY Zenon, <1>1, <2>1
<1>7. hdr \in Nat /\ c.msg_len + hdr = hdr
  BY SMT, <1>1
<1>8. /\ ev.type = type /\ ev.op = WS_OP_TEXT /\ ev.close_code = 0
      /\ ev.data = hdr /\ ev.len = Len(b)
  BY SMT, <1>1, <1>4, <1>7 DEF Event
<1>9. EventData(r) = b
  BY Zenon, <1>1, <1>5, <1>6, <1>7, <1>8, ReadsData
<1>10. QED
  BY Zenon, <1>3, <1>5, <1>6, <1>8, <1>9 DEF Hears

\* An item of a sequence.
LEMMA SeqItem == ASSUME NEW S, NEW q \in Seq(S), NEW i \in 1..Len(q) PROVE q[i] \in S
OBVIOUS

\* A Close with a code and no reason.
CodeIn(b) == b[1] * 256 + b[2]

LEMMA CodeInType ==
    ASSUME NEW b, b[1] \in Byte, b[2] \in Byte PROVE CodeIn(b) \in UInt16
BY SMT, PairType DEF CodeIn

NothingIsValid == \A buf : \A at \in Nat : ws_utf8_valid(buf, at, 0)

LEMMA CloseHears ==
    ASSUME NEW c, NEW h, NEW hdr, NEW b, Alone(c, h, hdr, b), Carries(c.msg_buf, hdr, b),
           h.payload_len = 2, NothingIsValid, NEW code, code = CodeIn(b),
           NEW r, r = on_close(c, h, hdr)
    PROVE  IF ws_close_code_sendable(code) THEN Hears(c, r, "CLOSE", WS_OP_TEXT, << >>, code)
           ELSE Refuses(c, r)
<1>1. /\ c \in Conn /\ ~c.failed /\ c.msg_len = 0 /\ c.frag = "NONE" /\ ws_lc_active(c)
      /\ c.rx_len = hdr + h.payload_len /\ b \in Seq(Byte) /\ Len(b) = h.payload_len
      /\ hdr \in 2..14
  BY Zenon DEF Alone, Ready, ConnInv
<1>2. /\ hdr \in Nat /\ c.msg_len + hdr = hdr + (1 - 1) /\ c.msg_len + hdr + 1 = hdr + (2 - 1)
      /\ 1 \in 1..Len(b) /\ 2 \in 1..Len(b) /\ c.msg_len + hdr + 2 \in Nat
      /\ h.payload_len - 2 = 0 /\ h.payload_len >= 2 /\ h.payload_len # 0
  BY SMT, <1>1
<1>3. CloseCode(c, hdr) = code
  <2>1. c.msg_buf[c.msg_len + hdr] = b[1] /\ c.msg_buf[c.msg_len + hdr + 1] = b[2]
    BY Zenon, <1>2 DEF Carries
  <2>2. QED
    BY SMT, <2>1 DEF CloseCode, CodeIn
<1>4. close_body_ok(c, h, hdr) <=> ws_close_code_sendable(code)
  BY Zenon, <1>2, <1>3 DEF close_body_ok, NothingIsValid
<1>5. CASE ~ws_close_code_sendable(code)
  BY Zenon, <1>1, <1>4, <1>5, FailRefuses DEF on_close
<1>6. CASE ws_close_code_sendable(code)
  <2>1. PICK k : k = [c EXCEPT !.close_code = code]
    BY Zenon
  <2>2. PICK g : g = [k EXCEPT !.rcvd_close = TRUE, !.sent_close = TRUE, !.state = "CLOSED",
                               !.frag = "NONE", !.msg_len = 0]
    BY Zenon
  <2>3. PICK d, ev : /\ d = raw_consume(g, hdr + h.payload_len)
                     /\ ev = [Event("CLOSE") EXCEPT !.close_code = code]
    BY Zenon
  <2>4. b[1] \in Byte /\ b[2] \in Byte
    BY Zenon, <1>1, <1>2, SeqItem
  <2>5. /\ k \in Conn /\ k.state = c.state /\ k.close_code = code /\ k.failed = c.failed
        /\ k.role = c.role /\ k.rx_len = c.rx_len
    <3>1. code \in UInt16
      BY Zenon, <2>4, CodeInType
    <3>2. c \in Conn
      BY Zenon, <1>1
    <3>3. QED
      BY Zenon, <2>1, <3>1, <3>2 DEF Conn
  <2>6. r = [conn |-> d, ev |-> ev]
    <3>1. ws_lc_recv_close(k) = g
      BY Zenon, <1>1, <2>2, <2>5 DEF ws_lc_recv_close, ws_lc_active
    <3>2. QED
      BY Zenon, <1>2, <1>3, <1>4, <1>6, <2>1, <2>3, <2>5, <3>1 DEF on_close, Result
  <2>7. r.conn = d /\ r.ev = ev
    BY SMT, <2>6
  <2>8. /\ g \in Conn /\ g.msg_len = 0 /\ g.frag = "NONE" /\ g.failed = c.failed
        /\ g.role = c.role /\ g.rx_len = c.rx_len
    <3>1. 0 \in 0..Cap /\ "NONE" \in Frag /\ "CLOSED" \in State
      BY SMT, CapAssumption DEF Frag, State
    <3>2. QED
      BY Zenon, <2>2, <2>5, <3>1 DEF Conn
  <2>9. /\ d.rx_len = 0 /\ d.msg_len = g.msg_len
        /\ d.frag = g.frag /\ d.failed = g.failed /\ d.role = g.role
    BY SMT, <1>1, <2>3, <2>8, ConsumesAll
  <2>10. ev.type = "CLOSE" /\ ev.op = WS_OP_TEXT /\ ev.len = 0 /\ ev.close_code = code
    BY SMT, <2>3 DEF Event
  <2>11. EventData(r) = << >>
    BY SMT, <2>7, <2>10 DEF EventData
  <2>12. Hears(c, r, "CLOSE", WS_OP_TEXT, << >>, code)
    BY SMT, <1>1, <2>7, <2>8, <2>9, <2>10, <2>11 DEF Hears
  <2>13. QED
    BY Zenon, <1>6, <2>12
<1>7. QED
  BY Zenon, <1>5, <1>6

\* A payload that is all there is becomes the message.
LEMMA MovesAll ==
    ASSUME NEW c \in Conn, NEW h, NEW hdr \in Nat, NEW b \in Seq(Byte),
           Carries(c.msg_buf, hdr, b), c.msg_len = 0, h.payload_len = Len(b),
           c.rx_len = hdr + Len(b), NEW d, d = accumulate(c, h, hdr)
    PROVE  /\ d.rx_len = 0 /\ d.msg_len = Len(b) /\ Carries(d.msg_buf, 0, b)
           /\ d.frag = c.frag /\ d.state = c.state /\ d.failed = c.failed /\ d.role = c.role
<1>1. PICK n \in Nat : n = Len(b)
  BY SMT
<1>2. hdr + n <= Cap
  BY SMT, <1>1, CapAssumption DEF Conn
<1>3. PICK down : down = fwd_copy(c.msg_buf, 0, hdr, n)
  BY Zenon
<1>4. PICK moved : moved = fwd_copy(down, n, hdr + n, 0)
  BY Zenon
<1>5. /\ c.msg_len + n = n /\ c.msg_len + hdr = hdr /\ c.msg_len + hdr + n = hdr + n
      /\ c.rx_len - hdr - n = 0
  BY SMT, <1>1
<1>6. d = [c EXCEPT !.msg_buf = moved, !.rx_len = 0, !.msg_len = n]
  BY Zenon, <1>1, <1>3, <1>4, <1>5 DEF accumulate, Conn
<1>7. DOMAIN c.msg_buf = 0..(Cap - 1)
  BY Zenon DEF Conn
<1>8. ASSUME NEW i \in 1..n PROVE moved[0 + (i - 1)] = b[i]
  <2>1. PICK k \in Int : k = 0 + (i - 1)
    BY SMT, <1>1
  <2>2. /\ k \in 0..(Cap - 1) /\ k \in 0..(0 + n - 1) /\ hdr + k - 0 = hdr + (i - 1)
        /\ k \notin n..(n + 0 - 1)
    BY SMT, <1>1, <1>2, <2>1, CapAssumption
  <2>3. down[k] = c.msg_buf[hdr + (i - 1)] /\ DOMAIN down = 0..(Cap - 1)
    BY Zenon, <1>3, <1>7, <2>2 DEF fwd_copy
  <2>4. moved[k] = down[k]
    BY Zenon, <1>4, <2>2, <2>3 DEF fwd_copy
  <2>5. c.msg_buf[hdr + (i - 1)] = b[i]
    BY Zenon, <1>1 DEF Carries
  <2>6. QED
    BY Zenon, <2>1, <2>3, <2>4, <2>5
<1>9. /\ d.rx_len = 0 /\ d.msg_len = n /\ d.msg_buf = moved
      /\ d.frag = c.frag /\ d.state = c.state /\ d.failed = c.failed /\ d.role = c.role
  BY Zenon, <1>6 DEF Conn
<1>10. QED
  BY Zenon, <1>1, <1>8, <1>9 DEF Carries

\* The message is checked, if it is text, and reported.
LEMMA FinishHears ==
    ASSUME NEW d \in Conn, NEW b \in Seq(Byte), Carries(d.msg_buf, 0, b), d.msg_len = Len(b),
           d.frag # "NONE", ws_lc_active(d), ~d.failed, d.rx_len = 0, NEW op,
           op = IF d.frag = "BIN" THEN WS_OP_BIN ELSE WS_OP_TEXT, NEW r, r = finish_message(d)
    PROVE  IF d.frag = "TEXT" /\ ~ws_utf8_valid(d.msg_buf, 0, Len(b)) THEN Refuses(d, r)
           ELSE Hears(d, r, "MESSAGE", op, b, 0)
<1>1. CASE d.frag = "TEXT" /\ ~ws_utf8_valid(d.msg_buf, 0, Len(b))
  BY Zenon, <1>1, FailRefuses DEF finish_message, message_utf8_ok
<1>2. CASE ~(d.frag = "TEXT" /\ ~ws_utf8_valid(d.msg_buf, 0, Len(b)))
  <2>1. PICK g, ev : /\ g = [d EXCEPT !.frag = "NONE", !.msg_len = 0]
                     /\ ev = [Event("MESSAGE") EXCEPT !.op = op, !.len = Len(b)]
    BY Zenon
  <2>2. ws_lc_finish_frag(d) = [d EXCEPT !.frag = "NONE"]
    BY Zenon DEF ws_lc_finish_frag
  <2>3. [[d EXCEPT !.frag = "NONE"] EXCEPT !.msg_len = 0] = g
    BY Zenon, <2>1 DEF Conn
  <2>4. r.conn = g /\ r.ev = ev
    BY Zenon, <1>2, <2>1, <2>2, <2>3 DEF finish_message, message_utf8_ok, Result
  <2>5. /\ g.msg_buf = d.msg_buf /\ g.rx_len = 0 /\ g.msg_len = 0 /\ g.frag = "NONE"
        /\ ~g.failed /\ g.role = d.role
    BY Zenon, <2>1 DEF Conn
  <2>6. /\ ev.type = "MESSAGE" /\ ev.op = op /\ ev.data = 0 /\ ev.len = Len(b)
        /\ ev.close_code = 0
    BY SMT, <2>1 DEF Event
  <2>7. 0 \in Nat
    BY SMT
  <2>8. EventData(r) = b
    BY Zenon, <2>4, <2>5, <2>6, <2>7, ReadsData
  <2>9. Hears(d, r, "MESSAGE", op, b, 0)
    BY Zenon, <2>4, <2>5, <2>6, <2>8 DEF Hears
  <2>10. QED
    BY Zenon, <1>2, <2>9
<1>3. QED
  BY Zenon, <1>1, <1>2

\* A text or a binary message in one frame.
Message(c, r, op, b) ==
    \E buf : /\ Carries(buf, 0, b)
             /\ IF op = WS_OP_TEXT /\ ~ws_utf8_valid(buf, 0, Len(b)) THEN Refuses(c, r)
                ELSE Hears(c, r, "MESSAGE", op, b, 0)

LEMMA DataHears ==
    ASSUME NEW c, NEW h, NEW hdr, NEW b, Alone(c, h, hdr, b), Carries(c.msg_buf, hdr, b),
           h.fin, h.opcode \in {WS_OP_TEXT, WS_OP_BIN}, NEW r, r = on_data(c, h, hdr)
    PROVE  Message(c, r, h.opcode, b)
<1>1. /\ c \in Conn /\ ~c.failed /\ c.msg_len = 0 /\ c.frag = "NONE" /\ ws_lc_active(c)
      /\ c.rx_len = hdr + Len(b) /\ b \in Seq(Byte) /\ Len(b) = h.payload_len
      /\ hdr \in 2..14 /\ Ready(c, h, hdr)
  BY Zenon DEF Alone, Ready, ConnInv
<1>2. WS_OP_TEXT # WS_OP_CONT /\ WS_OP_BIN # WS_OP_CONT /\ WS_OP_TEXT # WS_OP_BIN
  BY SMT DEF WS_OP_TEXT, WS_OP_BIN, WS_OP_CONT
<1>3. ~data_illegal(c, h)
  <2>1. c.msg_len + h.payload_len <= Cap /\ hdr \in Nat
    <3>1. c.rx_len \in 0..Cap
      BY Zenon, <1>1 DEF Conn
    <3>2. QED
      BY SMT, <1>1, <3>1, CapAssumption
  <2>2. ~too_big(c, h)
    <3>1. c.msg_len + h.payload_len \in Int
      BY SMT, <1>1
    <3>2. QED
      BY SMT, <2>1, <3>1, CapAssumption DEF too_big
  <2>3. QED
    BY Zenon, <1>1, <1>2, <2>2 DEF data_illegal, is_stray_cont, is_interleave
<1>4. PICK f \in {"TEXT", "BIN"} : f = IF h.opcode = WS_OP_BIN THEN "BIN" ELSE "TEXT"
  BY Zenon
<1>5. PICK g : g = [c EXCEPT !.frag = f] /\ begin_data(c, h) = g
  BY Zenon, <1>1, <1>2, <1>4 DEF begin_data, ws_lc_start_frag
<1>6. /\ g \in Conn /\ g.frag = f /\ g.msg_len = 0 /\ g.rx_len = hdr + Len(b)
      /\ g.msg_buf = c.msg_buf /\ ~g.failed /\ g.state = c.state /\ g.role = c.role
      /\ g.sent_close = c.sent_close /\ g.rcvd_close = c.rcvd_close
  <2>1. f \in Frag
    BY Zenon, <1>4 DEF Frag
  <2>2. QED
    BY Zenon, <1>1, <1>5, <2>1 DEF Conn
<1>7. PICK d : d = accumulate(g, h, hdr)
  BY Zenon
<1>8. /\ d.rx_len = 0 /\ d.msg_len = Len(b) /\ Carries(d.msg_buf, 0, b)
      /\ d.frag = f /\ d.state = c.state /\ ~d.failed /\ d.role = c.role
  <2>1. hdr \in Nat
    BY SMT, <1>1
  <2>2. Carries(g.msg_buf, hdr, b)
    BY Zenon, <1>6
  <2>3. h.payload_len = Len(b) /\ g.rx_len = hdr + Len(b) /\ g.msg_len = 0 /\ g \in Conn
        /\ b \in Seq(Byte)
    BY Zenon, <1>1, <1>6
  <2>4. /\ d.rx_len = 0 /\ d.msg_len = Len(b) /\ Carries(d.msg_buf, 0, b)
        /\ d.frag = g.frag /\ d.state = g.state /\ d.failed = g.failed /\ d.role = g.role
    BY SMT, <1>7, <2>1, <2>2, <2>3, MovesAll
  <2>5. QED
    BY Zenon, <1>6, <2>4
<1>9. d \in Conn
  <2>1. g.frag # "NONE" /\ g.msg_len = c.msg_len /\ g.rx_len = c.rx_len
    <3>1. f # "NONE"
      BY Zenon
    <3>2. QED
      BY Zenon, <1>1, <1>6, <3>1
  <2>2. ConnInv(g)
    BY Zenon, <1>1, <1>6, <2>1 DEF Ready, ConnInv, ws_lc_active
  <2>3. Ready(g, h, hdr)
    BY Zenon, <1>1, <1>6, <2>1, <2>2 DEF Ready
  <2>4. QED
    BY Zenon, <1>7, <2>1, <2>3, AccumulateOK DEF ConnInv
<1>10. r = finish_message(d)
  BY Zenon, <1>3, <1>5, <1>7 DEF on_data
<1>11. /\ d.frag # "NONE" /\ ws_lc_active(d)
       /\ h.opcode = IF d.frag = "BIN" THEN WS_OP_BIN ELSE WS_OP_TEXT
       /\ d.frag = "TEXT" <=> h.opcode = WS_OP_TEXT
  BY Zenon, <1>1, <1>2, <1>4, <1>8 DEF ws_lc_active
<1>12. IF d.frag = "TEXT" /\ ~ws_utf8_valid(d.msg_buf, 0, Len(b)) THEN Refuses(d, r)
       ELSE Hears(d, r, "MESSAGE", h.opcode, b, 0)
  BY Zenon, <1>1, <1>8, <1>9, <1>10, <1>11, FinishHears
<1>13. /\ Refuses(d, r) => Refuses(c, r)
       /\ Hears(d, r, "MESSAGE", h.opcode, b, 0) => Hears(c, r, "MESSAGE", h.opcode, b, 0)
  BY Zenon, <1>8 DEF Refuses, Hears
<1>14. QED
  BY Zenon, <1>8, <1>11, <1>12, <1>13 DEF Message

\* What is reported of a whole frame with fin.
Answers(c, r, op, b) ==
    /\ op = WS_OP_CLOSE => IF ws_close_code_sendable(CodeIn(b))
                           THEN Hears(c, r, "CLOSE", WS_OP_TEXT, << >>, CodeIn(b))
                           ELSE Refuses(c, r)
    /\ op = WS_OP_PING => Hears(c, r, "PING", WS_OP_TEXT, b, 0)
    /\ op = WS_OP_PONG => Hears(c, r, "PONG", WS_OP_TEXT, b, 0)
    /\ op \in {WS_OP_TEXT, WS_OP_BIN} => Message(c, r, op, b)

LEMMA RouteHears ==
    ASSUME NEW c, NEW h, NEW hdr, NEW b, Alone(c, h, hdr, b), Carries(c.msg_buf, hdr, b),
           h.fin, h.opcode \in {WS_OP_TEXT, WS_OP_BIN, WS_OP_CLOSE, WS_OP_PING, WS_OP_PONG},
           h.opcode = WS_OP_CLOSE => h.payload_len = 2, NothingIsValid,
           NEW r, r = route(c, h, hdr)
    PROVE  Answers(c, r, h.opcode, b)
<1>1. /\ ws_classify_opcode(WS_OP_CLOSE) = "CONTROL" /\ ws_classify_opcode(WS_OP_PING) = "CONTROL"
      /\ ws_classify_opcode(WS_OP_PONG) = "CONTROL" /\ ws_classify_opcode(WS_OP_TEXT) = "DATA"
      /\ ws_classify_opcode(WS_OP_BIN) = "DATA"
      /\ WS_OP_CLOSE # WS_OP_PING /\ WS_OP_CLOSE # WS_OP_PONG /\ WS_OP_PING # WS_OP_PONG
      /\ WS_OP_CLOSE \notin {WS_OP_TEXT, WS_OP_BIN} /\ WS_OP_PING \notin {WS_OP_TEXT, WS_OP_BIN}
      /\ WS_OP_PONG \notin {WS_OP_TEXT, WS_OP_BIN}
  BY SMT DEF ws_classify_opcode, WS_OP_CONT, WS_OP_TEXT, WS_OP_BIN, WS_OP_CLOSE, WS_OP_PING,
             WS_OP_PONG
<1>2. CASE h.opcode = WS_OP_CLOSE
  <2>1. r = on_close(c, h, hdr)
    BY Zenon, <1>1, <1>2 DEF route, on_control
  <2>2. IF ws_close_code_sendable(CodeIn(b))
        THEN Hears(c, r, "CLOSE", WS_OP_TEXT, << >>, CodeIn(b)) ELSE Refuses(c, r)
    BY Zenon, <1>2, <2>1, CloseHears
  <2>3. QED
    BY Zenon, <1>1, <1>2, <2>2 DEF Answers
<1>3. CASE h.opcode \in {WS_OP_PING, WS_OP_PONG}
  <2>1. r = on_control(c, h, hdr) /\ h.opcode # WS_OP_CLOSE
    BY Zenon, <1>1, <1>3 DEF route
  <2>2. Hears(c, r, IF h.opcode = WS_OP_PING THEN "PING" ELSE "PONG", WS_OP_TEXT, b, 0)
    BY Zenon, <2>1, ControlHears
  <2>3. QED
    BY Zenon, <1>1, <1>3, <2>2 DEF Answers
<1>4. CASE h.opcode \in {WS_OP_TEXT, WS_OP_BIN}
  <2>1. r = on_data(c, h, hdr)
    BY Zenon, <1>1, <1>4 DEF route
  <2>2. Message(c, r, h.opcode, b)
    BY Zenon, <1>4, <2>1, DataHears
  <2>3. QED
    BY Zenon, <1>1, <1>4, <2>2 DEF Answers
<1>5. QED
  BY Zenon, <1>2, <1>3, <1>4

\* A frame with fin, whole and alone in the buffer, as the peer's builders make them.
WholeFrame(c, h, hdr, b) ==
    /\ ConnInv(c) /\ ~c.failed /\ c.msg_len = 0 /\ c.frag = "NONE"
    /\ ws_parse_header(raw(c), c.rx_len) = Parsed(hdr, h) /\ h \in Header /\ hdr \in 2..14
    /\ b \in Seq(Byte) /\ Len(b) = h.payload_len /\ c.rx_len = hdr + h.payload_len
    /\ Arrived(c.msg_buf, hdr, h, b) /\ mask_ok(c, h) /\ h.fin
    /\ h.opcode \in {WS_OP_TEXT, WS_OP_BIN, WS_OP_CLOSE, WS_OP_PING, WS_OP_PONG}
    /\ h.opcode = WS_OP_CLOSE => h.payload_len = 2

\* What poll reports of it.
LEMMA PollHears ==
    ASSUME NEW c, NEW h, NEW hdr, NEW b, WholeFrame(c, h, hdr, b), NothingIsValid,
           NEW r, r = ws_conn_poll(c)
    PROVE  IF ws_lc_active(c) THEN Answers(c, r, h.opcode, b) ELSE Refuses(c, r)
<1>1. /\ ConnInv(c) /\ ~c.failed /\ c.msg_len = 0 /\ c.frag = "NONE"
      /\ ws_parse_header(raw(c), c.rx_len) = Parsed(hdr, h) /\ h \in Header /\ hdr \in 2..14
      /\ b \in Seq(Byte) /\ Len(b) = h.payload_len /\ c.rx_len = hdr + h.payload_len
      /\ Arrived(c.msg_buf, hdr, h, b) /\ mask_ok(c, h) /\ h.fin
      /\ h.opcode \in {WS_OP_TEXT, WS_OP_BIN, WS_OP_CLOSE, WS_OP_PING, WS_OP_PONG}
      /\ h.opcode = WS_OP_CLOSE => h.payload_len = 2
  BY Zenon DEF WholeFrame
<1>2. PICK p : p = ws_parse_header(raw(c), c.rx_len)
  BY Zenon
<1>3. p.rc = hdr /\ p.h = h
  BY SMT, <1>1, <1>2 DEF Parsed
<1>4. c \in Conn
  BY Zenon, <1>1 DEF ConnInv
<1>5. hdr > 0 /\ c.rx_len >= hdr + h.payload_len /\ hdr + h.payload_len <= c.rx_len
  <2>1. h.payload_len \in Nat
    BY Zenon, <1>1 DEF Header
  <2>2. QED
    BY SMT, <1>1, <2>1
<1>6. frame_ready(c)
  BY Zenon, <1>2, <1>3, <1>5 DEF frame_ready
<1>7. r = dispatch(c, h, hdr)
  BY Zenon, <1>1, <1>2, <1>3, <1>6 DEF ws_conn_poll
<1>8. CASE ~ws_lc_active(c)
  BY Zenon, <1>4, <1>7, <1>8, FailRefuses DEF dispatch
<1>9. CASE ws_lc_active(c)
  <2>1. PICK u : u = unmask_payload(c, h, hdr)
    BY Zenon
  <2>2. Alone(c, h, hdr, b) /\ Arrived(c.msg_buf, hdr, h, b)
    BY Zenon, <1>1, <1>5, <1>9 DEF Alone, Ready
  <2>3. Alone(u, h, hdr, b) /\ Carries(u.msg_buf, hdr, b) /\ u.role = c.role
    BY SMT, <2>1, <2>2, Unmasks
  <2>4. r = route(u, h, hdr)
    BY Zenon, <1>1, <1>7, <1>9, <2>1 DEF dispatch
  <2>5. Answers(u, r, h.opcode, b)
    BY Zenon, <1>1, <2>3, <2>4, RouteHears
  <2>6. /\ Refuses(u, r) <=> Refuses(c, r)
        /\ \A type, op, data, code :
               Hears(u, r, type, op, data, code) <=> Hears(c, r, type, op, data, code)
    BY Zenon, <2>3 DEF Hears, Refuses
  <2>7. Message(u, r, h.opcode, b) => Message(c, r, h.opcode, b)
    BY Zenon, <2>6 DEF Message
  <2>8. Answers(c, r, h.opcode, b)
    BY Zenon, <2>5, <2>6, <2>7 DEF Answers
  <2>9. QED
    BY Zenon, <1>9, <2>8
<1>10. QED
  BY Zenon, <1>8, <1>9

-----------------------------------------------------------------------------
(* Numbers and sequences.                                                   *)

\* A set of natural numbers has a least one.
LEMMA LeastNumber ==
    ASSUME NEW S \in SUBSET Nat, S # {} PROVE \E m \in S : \A n \in S : m <= n
<1>1. PICK m \in S : \A n \in S : ~(<< n, m >> \in OpToRel(<, Nat))
  BY NatLessThanWellFounded, WFMin
<1>2. \A n \in S : ~(n < m)
  BY Zenon, <1>1 DEF OpToRel
<1>3. QED
  BY <1>2

LEMMA Concatenated ==
    ASSUME NEW S, NEW s \in Seq(S), NEW t \in Seq(S)
    PROVE  /\ s \o t \in Seq(S) /\ Len(s \o t) = Len(s) + Len(t)
           /\ \A i \in 1..(Len(s) + Len(t)) :
                  (s \o t)[i] = IF i <= Len(s) THEN s[i] ELSE t[i - Len(s)]
BY SMT

LEMMA SeqIsFunction ==
    ASSUME NEW S, NEW w \in Seq(S) PROVE w \in [1..Len(w) -> S] /\ Len(w) \in Nat
BY SMT

\* Two bytes, n and m more.
Parts(a, b, n, f, m, g) == [i \in 1..(2 + n + m) |-> IF i <= 2 THEN << a, b >>[i]
                                                    ELSE IF i <= 2 + n THEN f[i - 2]
                                                    ELSE g[i - (2 + n)]]

IsJoin(s, a, b, n, f, m, g) == Len(s) = 2 + n + m /\ s = Parts(a, b, n, f, m, g)

LEMMA Joined ==
    ASSUME NEW S, NEW a \in S, NEW b \in S, NEW n \in Nat, NEW m \in Nat,
           NEW f \in [1..n -> S], NEW g \in [1..m -> S]
    PROVE  IsJoin(<< a, b >> \o f \o g, a, b, n, f, m, g)
<1>3. /\ f \in Seq(S) /\ Len(f) = n /\ g \in Seq(S) /\ Len(g) = m
      /\ << a, b >> \in Seq(S) /\ Len(<< a, b >>) = 2
  BY SMT
<1>4. PICK t, u : t = << a, b >> /\ u = t \o f
  BY Zenon
<1>5. /\ u \in Seq(S) /\ Len(u) = 2 + n
      /\ \A i \in 1..(2 + n) : u[i] = IF i <= 2 THEN t[i] ELSE f[i - 2]
  <2>1. t \in Seq(S) /\ Len(t) = 2
    BY Zenon, <1>3, <1>4
  <2>2. /\ t \o f \in Seq(S) /\ Len(t \o f) = Len(t) + Len(f)
        /\ \A i \in 1..(Len(t) + Len(f)) :
               (t \o f)[i] = IF i <= Len(t) THEN t[i] ELSE f[i - Len(t)]
    BY Zenon, <1>3, <2>1, Concatenated
  <2>3. QED
    BY SMT, <1>3, <1>4, <2>1, <2>2
<1>7. /\ u \o g \in Seq(S) /\ Len(u \o g) = 2 + n + m
      /\ \A i \in 1..(2 + n + m) : (u \o g)[i] = IF i <= 2 + n THEN u[i] ELSE g[i - (2 + n)]
  <2>1. /\ u \o g \in Seq(S) /\ Len(u \o g) = Len(u) + Len(g)
        /\ \A i \in 1..(Len(u) + Len(g)) :
               (u \o g)[i] = IF i <= Len(u) THEN u[i] ELSE g[i - Len(u)]
    BY Zenon, <1>3, <1>5, Concatenated
  <2>2. Len(u) = 2 + n /\ Len(g) = m
    BY Zenon, <1>3, <1>5
  <2>3. QED
    BY SMT, <2>1, <2>2
<1>8. ASSUME NEW i \in 1..(2 + n + m)
      PROVE  (u \o g)[i] = IF i <= 2 THEN t[i] ELSE IF i <= 2 + n THEN f[i - 2]
                           ELSE g[i - (2 + n)]
  <2>1. CASE i <= 2 + n
    <3>1. i \in 1..(2 + n) /\ (u \o g)[i] = u[i]
      BY SMT, <1>7, <2>1
    <3>2. (u \o g)[i] = IF i <= 2 THEN t[i] ELSE f[i - 2]
      BY Zenon, <1>5, <3>1
    <3>3. QED
      BY Zenon, <2>1, <3>2
  <2>2. CASE ~(i <= 2 + n)
    <3>1. ~(i <= 2)
      BY SMT, <2>2
    <3>2. QED
      BY Zenon, <1>7, <2>2, <3>1
  <2>3. QED
    BY Zenon, <2>1, <2>2
<1>9. u \o g = [i \in 1..(2 + n + m) |-> (u \o g)[i]]
  BY Zenon, <1>7, SeqIsFunction
<1>10. QED
  BY Zenon, <1>4, <1>7, <1>8, <1>9 DEF Parts, IsJoin

-----------------------------------------------------------------------------
(* UTF-8.  The loop of ws_utf8_valid and the reference, read from the end.  *)

\* What the loop decides at i, if f is what it decides further on.
Step(f, data, end, i) ==
    \/ i = end
    \/ decode_step(data, end, i) /\ f[i + 1 + kContCount(data[i])]

LEMMA StepEnds == ASSUME NEW f, NEW data, NEW end PROVE Step(f, data, end, end)
BY Zenon DEF Step

IsLoop(f, data, a, end) == f = [i \in a..end |-> Step(f, data, end, i)]

LEMMA ContCount ==
    ASSUME NEW b
    PROVE  kContCount(b) \in Nat /\ (kContCount(b) # 255 => kContCount(b) \in 0..3)
BY SMT DEF kContCount

\* decode_step steps forward, and not past the end.
LEMMA StepsForward ==
    ASSUME NEW data, NEW end \in Int, NEW i \in Int, decode_step(data, end, i)
    PROVE  i + 1 + kContCount(data[i]) \in (i + 1)..end
<1>1. PICK c \in Nat : c = kContCount(data[i])
  BY Zenon, ContCount
<1>2. i + 1 + c <= end
  BY Zenon, <1>1 DEF decode_step
<1>3. i + 1 + c \in (i + 1)..end
  BY SMT, <1>2
<1>4. QED
  BY Zenon, <1>1, <1>3

\* The loop comes to a result from every place.
LEMMA LoopExists ==
    ASSUME NEW data, NEW end \in Int, NEW n \in Nat
    PROVE  \E f : IsLoop(f, data, end - n, end)
<1> DEFINE Bad == {m \in Nat : ~\E f : IsLoop(f, data, end - m, end)}
<1>1. SUFFICES Bad = {}
  BY Zenon
<1>2. SUFFICES ASSUME Bad # {} PROVE FALSE
  OBVIOUS
<1>3. PICK m \in Bad : \A k \in Bad : m <= k
  BY Zenon, <1>2, LeastNumber
<1>4. \E f : m = 0 \/ IsLoop(f, data, end - (m - 1), end)
  BY SMT, <1>3
<1>5. PICK f : m = 0 \/ IsLoop(f, data, end - (m - 1), end)
  BY Zenon, <1>4
<1>6. PICK a : a = end - m
  BY Zenon
<1> DEFINE g == [i \in a..end |-> Step(f, data, end, i)]
<1>7. ASSUME NEW i \in a..end PROVE Step(g, data, end, i) = Step(f, data, end, i)
  <2>1. CASE i = end
    BY Zenon, <2>1 DEF Step
  <2>2. CASE i # end
    <3>1. PICK j : j = i + 1 + kContCount(data[i])
      BY Zenon
    <3>2. i \in Int /\ m # 0
      BY SMT, <1>3, <1>6, <2>2
    <3>3. decode_step(data, end, i) => j \in (i + 1)..end
      BY Zenon, <3>1, <3>2, StepsForward
    <3>4. decode_step(data, end, i) => j \in a..end /\ j \in (end - (m - 1))..end
      BY SMT, <1>3, <1>6, <3>2, <3>3
    <3>5. decode_step(data, end, i) => g[j] = f[j]
      BY Zenon, <1>5, <3>2, <3>4 DEF IsLoop
    <3> HIDE DEF g
    <3>6. QED
      BY Zenon, <2>2, <3>1, <3>5 DEF Step
  <2>3. QED
    BY Zenon, <2>1, <2>2
<1>8. IsLoop(g, data, a, end)
  BY Zenon, <1>7 DEF IsLoop
<1>9. QED
  BY Zenon, <1>3, <1>6, <1>8

LEMMA ValidLoop ==
    ASSUME NEW data, NEW at \in Nat, NEW len \in Nat
    PROVE  \E f : /\ IsLoop(f, data, at, at + len)
                  /\ ws_utf8_valid(data, at, len) = f[at]
<1> DEFINE end == at + len
           eqn(g) == g = [i \in at..end |->
                            \/ i = end
                            \/ decode_step(data, end, i) /\ g[i + 1 + kContCount(data[i])]]
           f == CHOOSE g : eqn(g)
<1>1. \A g : eqn(g) <=> IsLoop(g, data, at, end)
  BY Zenon DEF IsLoop, Step
<1>2. ws_utf8_valid(data, at, len) = f[at]
  BY Zenon DEF ws_utf8_valid
<1> HIDE DEF eqn
<1>3. end \in Int /\ at = end - len
  BY SMT
<1> HIDE DEF end
<1>4. eqn(f)
  BY Zenon, <1>1, <1>3, LoopExists
<1> HIDE DEF f
<1>5. QED
  BY Zenon, <1>1, <1>2, <1>4 DEF end

\* The same for the reference.
RefStep(f, s, i) ==
    \/ i = Len(s) + 1
    \/ \E n \in 1..4 : i + n - 1 <= Len(s) /\ Encodes(s, i, n) /\ f[i + n]

IsRef(f, s, a) == f = [i \in a..(Len(s) + 1) |-> RefStep(f, s, i)]

LEMMA RefExists ==
    ASSUME NEW s, NEW len \in Nat, Len(s) = len, NEW n \in Nat
    PROVE  \E f : IsRef(f, s, len + 1 - n)
<1> DEFINE Bad == {m \in Nat : ~\E f : IsRef(f, s, len + 1 - m)}
<1>1. SUFFICES Bad = {}
  BY Zenon
<1>2. SUFFICES ASSUME Bad # {} PROVE FALSE
  OBVIOUS
<1>3. PICK m \in Bad : \A k \in Bad : m <= k
  BY Zenon, <1>2, LeastNumber
<1>4. \E f : m = 0 \/ IsRef(f, s, len + 1 - (m - 1))
  BY SMTT(30), <1>3
<1>5. PICK f : m = 0 \/ IsRef(f, s, len + 1 - (m - 1))
  BY Zenon, <1>4
<1>6. PICK a : a = len + 1 - m
  BY Zenon
<1> DEFINE g == [i \in a..(len + 1) |-> RefStep(f, s, i)]
<1>7. ASSUME NEW i \in a..(len + 1) PROVE RefStep(g, s, i) = RefStep(f, s, i)
  <2>1. CASE i = len + 1
    BY Zenon, <2>1 DEF RefStep
  <2>2. CASE i # len + 1
    <3>1. m # 0
      BY SMT, <1>3, <1>6, <2>2
    <3>2. ASSUME NEW k \in 1..4, i + k - 1 <= len PROVE g[i + k] = f[i + k]
      <4>1. i + k \in a..(len + 1) /\ i + k \in (len + 1 - (m - 1))..(len + 1)
        BY SMT, <1>3, <1>6, <3>2
      <4>2. f = [j \in (len + 1 - (m - 1))..(len + 1) |-> RefStep(f, s, j)]
        BY Zenon, <1>5, <3>1 DEF IsRef
      <4>3. QED
        BY Zenon, <4>1, <4>2
    <3> HIDE DEF g
    <3>3. QED
      BY Zenon, <2>2, <3>2 DEF RefStep
  <2>3. QED
    BY Zenon, <2>1, <2>2
<1>8. IsRef(g, s, a)
  BY Zenon, <1>7 DEF IsRef
<1>9. QED
  BY Zenon, <1>3, <1>6, <1>8

LEMMA RefLoop ==
    ASSUME NEW s, NEW len \in Nat, Len(s) = len
    PROVE  \E f : IsRef(f, s, 1) /\ IsUtf8(s) = f[1]
<1> DEFINE eqn(g) == g = [i \in 1..(Len(s) + 1) |->
                \/ i = Len(s) + 1
                \/ \E n \in 1..4 : i + n - 1 <= Len(s) /\ Encodes(s, i, n) /\ g[i + n]]
           f == CHOOSE g : eqn(g)
<1>1. \A g : eqn(g) <=> IsRef(g, s, 1)
  BY Zenon DEF IsRef, RefStep
<1>2. IsUtf8(s) = f[1]
  BY Zenon DEF IsUtf8
<1> HIDE DEF eqn
<1>3. 1 = len + 1 - len
  BY SMT
<1>4. eqn(f)
  BY Zenon, <1>1, <1>3, RefExists
<1> HIDE DEF f
<1>5. QED
  BY Zenon, <1>1, <1>2, <1>4

-----------------------------------------------------------------------------
(* One sequence: the table and the two guarded ranges against code points.  *)

IsByte(b) == b \in Nat /\ b <= 255
Guarded(b0, b1) == first_lo(b0) <= b1 /\ b1 <= first_hi(b0)

\* Their limits, by name.
In2(b) == 194 <= b
In4(b) == b <= 244
Bits2(b) == b % 32 = b - 192
Bits3(b) == b % 16 = b - 224
Bits4(b) == b % 8 = b - 240
BitsC(b) == b % 64 = b - 128

\* The table: which lead bytes announce how many bytes more.
LEMMA Table ==
    ASSUME NEW b, IsByte(b)
    PROVE  /\ kContCount(b) = 0 <=> b \in Lead(1)
           /\ kContCount(b) = 1 <=> b \in Lead(2) /\ In2(b)
           /\ kContCount(b) = 2 <=> b \in Lead(3)
           /\ kContCount(b) = 3 <=> b \in Lead(4) /\ In4(b)
BY SMT DEF kContCount, Lead, IsByte, In2, In4

LEMMA GuardedContinues ==
    ASSUME NEW b0, IsByte(b0), NEW b1, IsByte(b1), Guarded(b0, b1) PROVE b1 \in Continuation
BY SMT DEF Guarded, Continuation, first_lo, first_hi, IsByte

\* The bits a byte of each kind carries.
LEMMA ContinuationBits ==
    ASSUME NEW b, IsByte(b), b \in Continuation PROVE BitsC(b)
BY SMT DEF BitsC, Continuation, IsByte

LEMMA LeadBits ==
    ASSUME NEW b, IsByte(b)
    PROVE  /\ b \in Lead(2) => Bits2(b)
           /\ b \in Lead(3) => Bits3(b)
           /\ b \in Lead(4) => Bits4(b)
<1>1. b \in Lead(2) => Bits2(b)
  BY SMT DEF Bits2, Lead, IsByte
<1>2. b \in Lead(3) => Bits3(b)
  BY SMT DEF Bits3, Lead, IsByte
<1>3. b \in Lead(4) => Bits4(b)
  BY SMT DEF Bits4, Lead, IsByte
<1>4. QED
  BY Zenon, <1>1, <1>2, <1>3

\* The code points that two, three and four bytes spell.
Code2(b0, b1) == (b0 % 32) * 64 + (b1 % 64)
Code3(b0, b1, b2) == (b0 % 16) * 4096 + (b1 % 64) * 64 + (b2 % 64)
Code4(b0, b1, b2, b3) == (b0 % 8) * 262144 + (b1 % 64) * 4096 + (b2 % 64) * 64 + (b3 % 64)

\* Shortest forms of scalar values: exactly what the table and the guarded range
\* let through.
LEMMA Scalar1 ==
    ASSUME NEW b0, IsByte(b0), b0 \in Lead(1) PROVE IsScalar(b0, 1)
BY SMT DEF Lead, IsScalar

LEMMA Scalar2 ==
    ASSUME NEW b0, IsByte(b0), NEW b1, IsByte(b1), b0 \in Lead(2), b1 \in Continuation
    PROVE  /\ IsScalar(Code2(b0, b1), 2) <=> In2(b0)
           /\ Guarded(b0, b1)
<1>1. Bits2(b0) /\ BitsC(b1)
  BY Zenon, LeadBits, ContinuationBits
<1>2. Code2(b0, b1) = (b0 - 192) * 64 + (b1 - 128)
  BY SMT, <1>1 DEF Code2, Bits2, BitsC
<1>3. IsScalar((b0 - 192) * 64 + (b1 - 128), 2) <=> In2(b0)
  BY SMT DEF In2, Continuation, IsByte, Lead, IsScalar
<1>4. Guarded(b0, b1)
  BY SMT DEF Continuation, IsByte, Lead, Guarded, first_lo, first_hi
<1>5. QED
  BY SMT, <1>2, <1>3, <1>4

LEMMA Scalar3 ==
    ASSUME NEW b0, IsByte(b0), NEW b1, IsByte(b1), NEW b2, IsByte(b2),
           b0 \in Lead(3), b1 \in Continuation, b2 \in Continuation
    PROVE  IsScalar(Code3(b0, b1, b2), 3) <=> Guarded(b0, b1)
<1>1. Bits3(b0) /\ BitsC(b1) /\ BitsC(b2)
  BY Zenon, LeadBits, ContinuationBits
<1>2. Code3(b0, b1, b2) = (b0 - 224) * 4096 + (b1 - 128) * 64 + (b2 - 128)
  BY SMT, <1>1 DEF Code3, Bits3, BitsC
<1>3. IsScalar((b0 - 224) * 4096 + (b1 - 128) * 64 + (b2 - 128), 3)
      <=> (b0 = 224 => b1 >= 160) /\ (b0 = 237 => b1 <= 159)
  BY SMT DEF Continuation, IsByte, Lead, IsScalar
<1>4. Guarded(b0, b1) <=> (b0 = 224 => b1 >= 160) /\ (b0 = 237 => b1 <= 159)
  BY SMT DEF Continuation, IsByte, Lead, Guarded, first_lo, first_hi
<1>5. QED
  BY SMT, <1>2, <1>3, <1>4

Value4(e, d, c) == e * 262144 + d * 4096 + c
Low4(x, y) == x * 64 + y
Fits4(d, c) == d \in Nat /\ d < 64 /\ c \in Nat /\ c < 4096

LEMMA Limits4 ==
    ASSUME NEW e \in Nat, NEW d, NEW c, Fits4(d, c)
    PROVE  IsScalar(Value4(e, d, c), 4) <=> e <= 4 /\ (e = 0 => d >= 16) /\ (e = 4 => d <= 15)
<1>1. 65536 <= e * 262144 + d * 4096 + c <=> (e = 0 => d >= 16)
  BY SMT DEF Fits4
<1>2. e * 262144 + d * 4096 + c <= 1114111 <=> e <= 4 /\ (e = 4 => d <= 15)
  BY SMT DEF Fits4
<1>3. QED
  BY SMT, <1>1, <1>2 DEF IsScalar, Value4

LEMMA Scalar4 ==
    ASSUME NEW b0, IsByte(b0), NEW b1, IsByte(b1), NEW b2, IsByte(b2), NEW b3, IsByte(b3),
           b0 \in Lead(4), b1 \in Continuation, b2 \in Continuation, b3 \in Continuation
    PROVE  IsScalar(Code4(b0, b1, b2, b3), 4) <=> In4(b0) /\ Guarded(b0, b1)
<1>1. Bits4(b0) /\ BitsC(b1) /\ BitsC(b2) /\ BitsC(b3)
  BY Zenon, LeadBits, ContinuationBits
<1>2. PICK e \in Nat : e = b0 - 240 /\ e = b0 % 8
  BY SMT, <1>1 DEF Bits4, Lead
<1>3. PICK d \in Nat : d = b1 - 128 /\ d = b1 % 64
  BY SMT, <1>1 DEF BitsC, Continuation
<1>4. PICK x \in Nat : x = b2 - 128 /\ x = b2 % 64
  BY SMT, <1>1 DEF BitsC, Continuation
<1>5. PICK y \in Nat : y = b3 - 128 /\ y = b3 % 64
  BY SMT, <1>1 DEF BitsC, Continuation
<1>6. d < 64 /\ x < 64 /\ y < 64
  BY SMT, <1>3, <1>4, <1>5 DEF Continuation
<1>7. Fits4(d, Low4(x, y))
  BY SMT, <1>6 DEF Fits4, Low4
<1>8. Code4(b0, b1, b2, b3) = Value4(e, d, Low4(x, y))
  <2>1. Code4(b0, b1, b2, b3) = e * 262144 + d * 4096 + x * 64 + y
    BY SMT, <1>2, <1>3, <1>4, <1>5 DEF Code4
  <2>2. QED
    BY SMT, <2>1 DEF Value4, Low4
<1>9. IsScalar(Code4(b0, b1, b2, b3), 4) <=> e <= 4 /\ (e = 0 => d >= 16) /\ (e = 4 => d <= 15)
  <2>1. IsScalar(Value4(e, d, Low4(x, y)), 4)
        <=> e <= 4 /\ (e = 0 => d >= 16) /\ (e = 4 => d <= 15)
    BY ZenonT(60), <1>7, Limits4
  <2>2. QED
    BY SMT, <1>8, <2>1
<1>10. e <= 4 <=> In4(b0)
  BY SMT, <1>2 DEF In4, Lead
<1>11. (e = 0 <=> b0 = 240) /\ (e = 4 <=> b0 = 244)
  BY SMT, <1>2 DEF Lead
<1>12. (d >= 16 <=> b1 >= 144) /\ (d <= 15 <=> b1 <= 143)
  BY SMT, <1>3 DEF Continuation
<1>13. Guarded(b0, b1) <=> (b0 = 240 => b1 >= 144) /\ (b0 = 244 => b1 <= 143)
  BY SMT DEF Continuation, IsByte, Lead, Guarded, first_lo, first_hi
<1>14. QED
  BY SMT, <1>9, <1>10, <1>11, <1>12, <1>13

\* An encoding in n bytes is what the table announces and the ranges allow.
LEMMA Spelled1 ==
    ASSUME NEW s, NEW i \in Nat, IsByte(s[i])
    PROVE  Encodes(s, i, 1) <=> kContCount(s[i]) = 0
<1>1. Encodes(s, i, 1) <=> s[i] \in Lead(1) /\ IsScalar(CodePoint(s, i, 1), 1)
  <2>1. 1..(1 - 1) = {}
    BY SMT
  <2>2. QED
    BY Zenon, <2>1 DEF Encodes
<1>2. CodePoint(s, i, 1) = s[i]
  BY SMT DEF CodePoint
<1>3. QED
  BY Zenon, <1>1, <1>2, Table, Scalar1

LEMMA Spelled2 ==
    ASSUME NEW s, NEW i \in Nat, IsByte(s[i]), IsByte(s[i + 1])
    PROVE  Encodes(s, i, 2) <=> kContCount(s[i]) = 1 /\ Guarded(s[i], s[i + 1])
<1>1. PICK b0, b1 : b0 = s[i] /\ b1 = s[i + 1]
  BY Zenon
<1>2. Encodes(s, i, 2) <=> b0 \in Lead(2) /\ b1 \in Continuation /\ IsScalar(Code2(b0, b1), 2)
  <2>1. 1..(2 - 1) = {1}
    BY SMT
  <2>2. CodePoint(s, i, 2) = Code2(b0, b1)
    BY SMT, <1>1 DEF CodePoint, Code2
  <2>3. (\A k \in 1..(2 - 1) : s[i + k] \in Continuation) <=> b1 \in Continuation
    BY Zenon, <1>1, <2>1
  <2>4. QED
    BY Zenon, <1>1, <2>2, <2>3 DEF Encodes
<1>3. kContCount(b0) = 1 <=> b0 \in Lead(2) /\ In2(b0)
  BY Zenon, <1>1, Table
<1>4. b0 \in Lead(2) /\ b1 \in Continuation
      => (IsScalar(Code2(b0, b1), 2) <=> In2(b0)) /\ Guarded(b0, b1)
  BY Zenon, <1>1, Scalar2
<1>5. Guarded(b0, b1) => b1 \in Continuation
  BY Zenon, <1>1, GuardedContinues
<1>6. QED
  BY Zenon, <1>1, <1>2, <1>3, <1>4, <1>5

LEMMA Spelled3 ==
    ASSUME NEW s, NEW i \in Nat, IsByte(s[i]), IsByte(s[i + 1]), IsByte(s[i + 2])
    PROVE  Encodes(s, i, 3) <=> /\ kContCount(s[i]) = 2
                                /\ Guarded(s[i], s[i + 1])
                                /\ s[i + 2] \in Continuation
<1>1. PICK b0, b1, b2 : b0 = s[i] /\ b1 = s[i + 1] /\ b2 = s[i + 2]
  BY Zenon
<1>2. Encodes(s, i, 3) <=> /\ b0 \in Lead(3) /\ b1 \in Continuation /\ b2 \in Continuation
                           /\ IsScalar(Code3(b0, b1, b2), 3)
  <2>1. 1..(3 - 1) = {1, 2}
    BY SMT
  <2>2. CodePoint(s, i, 3) = Code3(b0, b1, b2)
    BY SMT, <1>1 DEF CodePoint, Code3
  <2>3. (\A k \in 1..(3 - 1) : s[i + k] \in Continuation) <=> b1 \in Continuation /\ b2 \in Continuation
    BY Zenon, <1>1, <2>1
  <2>4. QED
    BY Zenon, <1>1, <2>2, <2>3 DEF Encodes
<1>3. kContCount(b0) = 2 <=> b0 \in Lead(3)
  BY Zenon, <1>1, Table
<1>4. b0 \in Lead(3) /\ b1 \in Continuation /\ b2 \in Continuation
      => (IsScalar(Code3(b0, b1, b2), 3) <=> Guarded(b0, b1))
  BY Zenon, <1>1, Scalar3
<1>5. Guarded(b0, b1) => b1 \in Continuation
  BY Zenon, <1>1, GuardedContinues
<1>6. QED
  BY Zenon, <1>1, <1>2, <1>3, <1>4, <1>5

LEMMA Spelled4 ==
    ASSUME NEW s, NEW i \in Nat,
           IsByte(s[i]), IsByte(s[i + 1]), IsByte(s[i + 2]), IsByte(s[i + 3])
    PROVE  Encodes(s, i, 4) <=> /\ kContCount(s[i]) = 3
                                /\ Guarded(s[i], s[i + 1])
                                /\ s[i + 2] \in Continuation /\ s[i + 3] \in Continuation
<1>1. PICK b0, b1, b2, b3 : b0 = s[i] /\ b1 = s[i + 1] /\ b2 = s[i + 2] /\ b3 = s[i + 3]
  BY Zenon
<1>2. Encodes(s, i, 4) <=> /\ b0 \in Lead(4) /\ b1 \in Continuation /\ b2 \in Continuation
                           /\ b3 \in Continuation /\ IsScalar(Code4(b0, b1, b2, b3), 4)
  <2>1. 1..(4 - 1) = {1, 2, 3}
    BY SMT
  <2>2. CodePoint(s, i, 4) = Code4(b0, b1, b2, b3)
    BY SMT, <1>1 DEF CodePoint, Code4
  <2>3. (\A k \in 1..(4 - 1) : s[i + k] \in Continuation) <=> b1 \in Continuation /\ b2 \in Continuation /\ b3 \in Continuation
    BY Zenon, <1>1, <2>1
  <2>4. QED
    BY Zenon, <1>1, <2>2, <2>3 DEF Encodes
<1>3. kContCount(b0) = 3 <=> b0 \in Lead(4) /\ In4(b0)
  BY Zenon, <1>1, Table
<1>4. b0 \in Lead(4) /\ b1 \in Continuation /\ b2 \in Continuation /\ b3 \in Continuation
      => (IsScalar(Code4(b0, b1, b2, b3), 4) <=> In4(b0) /\ Guarded(b0, b1))
  BY Zenon, <1>1, Scalar4
<1>5. Guarded(b0, b1) => b1 \in Continuation
  BY Zenon, <1>1, GuardedContinues
<1>6. QED
  BY Zenon, <1>1, <1>2, <1>3, <1>4, <1>5

-----------------------------------------------------------------------------
(* decode_step against the reference, at one place of the text.             *)

\* data holds the text s at offset at.
TextAt(data, at, s, len) ==
    \A k \in 1..len : s[k] = data[at + (k - 1)] /\ IsByte(s[k])

LEMMA TailOk ==
    ASSUME NEW data, NEW i \in Int, NEW b0, NEW b1, b0 = data[i], b1 = data[i + 1],
           IsByte(b0), IsByte(b1)
    PROVE  /\ tail_ok(data, i, 1) <=> Guarded(b0, b1)
           /\ tail_ok(data, i, 2) <=> Guarded(b0, b1) /\ data[i + 2] \in Continuation
           /\ tail_ok(data, i, 3) <=> /\ Guarded(b0, b1)
                                      /\ data[i + 2] \in Continuation
                                      /\ data[i + 3] \in Continuation
<1>1. b1 \in first_lo(b0)..first_hi(b0) <=> Guarded(b0, b1)
  BY SMT DEF Guarded, first_lo, first_hi, IsByte
<1>2. \A c : tail_ok(data, i, c)
             <=> Guarded(b0, b1) /\ \A k \in 2..c : data[i + k] \in Continuation
  BY Zenon, <1>1 DEF tail_ok, Continuation
<1>3. 2..1 = {} /\ 2..2 = {2} /\ 2..3 = {2, 3}
  BY SMT
<1>4. QED
  BY Zenon, <1>2, <1>3

\* The table gives c for a byte that begins a sequence.
Begins(c) == c # 255

\* decode_step accepts exactly one encoding, of the length the table announces.
LEMMA Decode ==
    ASSUME NEW data, NEW at \in Nat, NEW s, NEW len \in Nat, TextAt(data, at, s, len),
           NEW i \in 1..len, NEW c, c = kContCount(s[i])
    PROVE  decode_step(data, at + len, at + (i - 1))
           <=> Begins(c) /\ i + c <= len /\ Encodes(s, i, c + 1)
<1>1. IsByte(s[i]) /\ s[i] = data[at + (i - 1)]
  BY Zenon DEF TextAt
<1>2. c \in Nat /\ (Begins(c) => c \in 0..3)
  BY Zenon, ContCount DEF Begins
<1>3. decode_step(data, at + len, at + (i - 1))
      <=> /\ Begins(c) /\ (at + (i - 1)) + 1 + c <= at + len
          /\ c = 0 \/ tail_ok(data, at + (i - 1), c)
  BY ZenonT(60), <1>1 DEF decode_step, Begins
<1>4. (at + (i - 1)) + 1 + c <= at + len <=> i + c <= len
  BY SMT, <1>2
<1>5. SUFFICES ASSUME Begins(c), i + c <= len
               PROVE  (c = 0 \/ tail_ok(data, at + (i - 1), c)) <=> Encodes(s, i, c + 1)
  BY Zenon, <1>3, <1>4
<1>6. ASSUME NEW k \in 1..3, k <= c
      PROVE  s[i + k] = data[(at + (i - 1)) + k] /\ IsByte(s[i + k])
  <2>1. i + k \in 1..len /\ at + ((i + k) - 1) = (at + (i - 1)) + k
    BY SMT, <1>2, <1>5, <1>6
  <2>2. QED
    BY Zenon, <2>1 DEF TextAt
<1>7. i \in Nat /\ at + (i - 1) \in Int
  BY SMT
<1>8. CASE c = 0
  <2>1. c + 1 = 1
    BY SMT, <1>8
  <2>2. QED
    BY Zenon, <1>1, <1>7, <1>8, <2>1, Spelled1
<1>9. CASE c = 1
  <2>1. c + 1 = 2 /\ 1 \in 1..3 /\ 1 <= c
    BY SMT, <1>9
  <2>2. s[i + 1] = data[(at + (i - 1)) + 1] /\ IsByte(s[i + 1])
    BY Zenon, <1>6, <2>1
  <2>3. tail_ok(data, at + (i - 1), 1)
        <=> Guarded(s[i], s[i + 1])
    BY ZenonT(60), <1>1, <1>7, <2>2, TailOk
  <2>4. Encodes(s, i, 2)
        <=> kContCount(s[i]) = 1 /\ Guarded(s[i], s[i + 1])
    BY Zenon, <1>1, <1>7, <2>2, Spelled2
  <2>5. QED
    BY SMT, <1>9, <2>1, <2>3, <2>4
<1>10. CASE c = 2
  <2>1. c + 1 = 3 /\ 1 \in 1..3 /\ 1 <= c /\ 2 \in 1..3 /\ 2 <= c
    BY SMT, <1>10
  <2>2. /\ s[i + 1] = data[(at + (i - 1)) + 1] /\ IsByte(s[i + 1])
        /\ s[i + 2] = data[(at + (i - 1)) + 2] /\ IsByte(s[i + 2])
    BY Zenon, <1>6, <2>1
  <2>3. tail_ok(data, at + (i - 1), 2)
        <=> Guarded(s[i], s[i + 1]) /\ s[i + 2] \in Continuation
    BY ZenonT(60), <1>1, <1>7, <2>2, TailOk
  <2>4. Encodes(s, i, 3)
        <=> kContCount(s[i]) = 2 /\ Guarded(s[i], s[i + 1]) /\ s[i + 2] \in Continuation
    BY Zenon, <1>1, <1>7, <2>2, Spelled3
  <2>5. QED
    BY SMT, <1>10, <2>1, <2>3, <2>4
<1>11. CASE c = 3
  <2>1. c + 1 = 4 /\ 1 \in 1..3 /\ 1 <= c /\ 2 \in 1..3 /\ 2 <= c /\ 3 \in 1..3 /\ 3 <= c
    BY SMT, <1>11
  <2>2. /\ s[i + 1] = data[(at + (i - 1)) + 1] /\ IsByte(s[i + 1])
        /\ s[i + 2] = data[(at + (i - 1)) + 2] /\ IsByte(s[i + 2])
        /\ s[i + 3] = data[(at + (i - 1)) + 3] /\ IsByte(s[i + 3])
    BY Zenon, <1>6, <2>1
  <2>3. tail_ok(data, at + (i - 1), 3)
        <=> Guarded(s[i], s[i + 1]) /\ s[i + 2] \in Continuation /\ s[i + 3] \in Continuation
    BY ZenonT(60), <1>1, <1>7, <2>2, TailOk
  <2>4. Encodes(s, i, 4)
        <=> kContCount(s[i]) = 3 /\ Guarded(s[i], s[i + 1]) /\ s[i + 2] \in Continuation /\ s[i + 3] \in Continuation
    BY Zenon, <1>1, <1>7, <2>2, Spelled4
  <2>5. QED
    BY SMT, <1>11, <2>1, <2>3, <2>4
<1>12. QED
  BY SMT, <1>2, <1>5, <1>8, <1>9, <1>10, <1>11

Spans(i, n, len) == i + n - 1 <= len

LEMMA OnlyAnnounced ==
    ASSUME NEW data, NEW at, NEW s, NEW len \in Nat, TextAt(data, at, s, len),
           NEW i \in 1..len, NEW n \in 1..4, Spans(i, n, len), Encodes(s, i, n)
    PROVE  kContCount(s[i]) = n - 1
<1>1. i \in Nat /\ IsByte(s[i])
  <2>1. i \in Nat
    BY SMT
  <2>2. QED
    BY Zenon, <2>1 DEF TextAt
<1>2. ASSUME NEW k \in 1..3, k <= n - 1 PROVE IsByte(s[i + k])
  <2>1. i + k \in 1..len
    BY SMT, <1>2 DEF Spans
  <2>2. QED
    BY Zenon, <2>1 DEF TextAt
<1>3. CASE n = 1
  <2>1. kContCount(s[i]) = 0
    BY Zenon, <1>1, <1>3, Spelled1
  <2>2. QED
    BY SMT, <1>3, <2>1
<1>4. CASE n = 2
  <2>1. 1 \in 1..3 /\ 1 <= n - 1
    BY SMT, <1>4
  <2>2. kContCount(s[i]) = 1
    BY Zenon, <1>1, <1>2, <1>4, <2>1, Spelled2
  <2>3. QED
    BY SMT, <1>4, <2>2
<1>5. CASE n = 3
  <2>1. 1 \in 1..3 /\ 1 <= n - 1 /\ 2 \in 1..3 /\ 2 <= n - 1
    BY SMT, <1>5
  <2>2. kContCount(s[i]) = 2
    BY Zenon, <1>1, <1>2, <1>5, <2>1, Spelled3
  <2>3. QED
    BY SMT, <1>5, <2>2
<1>6. CASE n = 4
  <2>1. 1 \in 1..3 /\ 1 <= n - 1 /\ 2 \in 1..3 /\ 2 <= n - 1 /\ 3 \in 1..3 /\ 3 <= n - 1
    BY SMT, <1>6
  <2>2. kContCount(s[i]) = 3
    BY Zenon, <1>1, <1>2, <1>6, <2>1, Spelled4
  <2>3. QED
    BY SMT, <1>6, <2>2
<1>7. QED
  BY SMT, <1>3, <1>4, <1>5, <1>6

\* ws_utf8_valid accepts exactly UTF-8, whatever the bytes and wherever they lie.
LEMMA ValidIsUtf8 ==
    ASSUME NEW data, NEW at \in Nat, NEW s, NEW len \in Nat, Len(s) = len,
           TextAt(data, at, s, len)
    PROVE  ws_utf8_valid(data, at, len) <=> IsUtf8(s)
<1>1. PICK f : IsLoop(f, data, at, at + len) /\ ws_utf8_valid(data, at, len) = f[at]
  BY Zenon, ValidLoop
<1>2. PICK g : IsRef(g, s, 1) /\ IsUtf8(s) = g[1]
  BY Zenon, RefLoop
<1> DEFINE Same(i) == f[at + (i - 1)] <=> g[i]
           Bad == {m \in Nat : m <= len /\ ~Same(len + 1 - m)}
<1>3. ASSUME NEW i \in 1..(len + 1), \A j \in (i + 1)..(len + 1) : Same(j) PROVE Same(i)
  <2>1. /\ f[at + (i - 1)] = Step(f, data, at + len, at + (i - 1))
        /\ g[i] = RefStep(g, s, i)
    <3>1. at + (i - 1) \in at..(at + len)
      BY SMT
    <3>2. QED
      BY Zenon, <1>1, <1>2, <3>1 DEF IsLoop, IsRef
  <2>2. CASE i = len + 1
    <3>1. at + (i - 1) = at + len
      BY SMT, <2>2
    <3>2. QED
      BY Zenon, <2>1, <2>2, <3>1 DEF Step, RefStep
  <2>3. CASE i # len + 1
    <3>1. i \in 1..len /\ at + (i - 1) # at + len
      BY SMT, <2>3
    <3>2. PICK c \in Nat : c = kContCount(s[i]) /\ (Begins(c) => c \in 0..3)
      BY Zenon, ContCount DEF Begins
    <3>3. s[i] = data[at + (i - 1)]
      BY Zenon, <3>1 DEF TextAt
    <3>4. decode_step(data, at + len, at + (i - 1))
          <=> Begins(c) /\ i + c <= len /\ Encodes(s, i, c + 1)
      BY Zenon, <3>1, <3>2, Decode
    <3>5. \A n \in 1..4 : i + n - 1 <= len /\ Encodes(s, i, n) => c = n - 1
      <4>1. ASSUME NEW n \in 1..4, Spans(i, n, len), Encodes(s, i, n)
            PROVE  kContCount(s[i]) = n - 1
        BY SMT, <3>1, <4>1, OnlyAnnounced
      <4>2. c = kContCount(s[i])
        BY Zenon, <3>2
      <4>3. QED
        BY Zenon, <4>1, <4>2 DEF Spans
    <3>6. Begins(c) /\ i + c <= len => Same(i + (c + 1))
      <4>1. Begins(c) /\ i + c <= len => i + (c + 1) \in (i + 1)..(len + 1)
        BY SMT
      <4>2. QED
        BY Zenon, <1>3, <4>1
    <3>7. at + (i - 1) + 1 + c = at + ((i + (c + 1)) - 1)
      BY SMT
    <3>8. f[at + (i - 1)]
          <=> /\ Begins(c) /\ i + c <= len /\ Encodes(s, i, c + 1)
              /\ f[at + ((i + (c + 1)) - 1)]
      BY Zenon, <2>1, <3>1, <3>2, <3>3, <3>4, <3>7 DEF Step
    <3>9. g[i] <=> \E n \in 1..4 : i + n - 1 <= len /\ Encodes(s, i, n) /\ g[i + n]
      BY Zenon, <2>1, <2>3 DEF RefStep
    <3>10. g[i] <=> Begins(c) /\ i + c <= len /\ Encodes(s, i, c + 1) /\ g[i + (c + 1)]
      <4>1. ASSUME NEW n \in 1..4, c = n - 1 PROVE n = c + 1 /\ Begins(c)
        BY SMT, <4>1 DEF Begins
      <4>2. Begins(c) => c + 1 \in 1..4
        BY SMT, <3>2
      <4>3. i + (c + 1) - 1 <= len <=> i + c <= len
        BY SMT
      <4>4. QED
        BY Zenon, <3>5, <3>9, <4>1, <4>2, <4>3
    <3>11. QED
      BY Zenon, <3>6, <3>8, <3>10
  <2>4. QED
    BY Zenon, <2>2, <2>3
<1>4. Bad = {}
  <2>1. SUFFICES ASSUME Bad # {} PROVE FALSE
    BY Zenon
  <2>2. PICK m \in Bad : \A k \in Bad : m <= k
    BY Zenon, <2>1, LeastNumber
  <2>3. m \in Nat /\ m <= len /\ ~Same(len + 1 - m)
    BY Zenon, <2>2
  <2>4. \A k \in Nat : k < m => Same(len + 1 - k)
    <3> HIDE DEF Same
    <3>1. QED
      BY SMT, <2>2, <2>3
  <2> HIDE DEF Same, Bad
  <2>5. len + 1 - m \in 1..(len + 1)
    BY SMT, <2>3
  <2>6. ASSUME NEW j \in ((len + 1 - m) + 1)..(len + 1) PROVE Same(j)
    <3>1. len + 1 - j \in Nat /\ len + 1 - j < m /\ len + 1 - (len + 1 - j) = j
      BY SMT, <2>3
    <3>2. QED
      BY Zenon, <2>4, <3>1
  <2>7. QED
    BY Zenon, <1>3, <2>3, <2>5, <2>6
<1>5. Same(1)
  <2> HIDE DEF Same
  <2>1. len + 1 - len = 1 /\ len <= len
    BY SMT
  <2>2. QED
    BY Zenon, <1>4, <2>1
<1>6. at + (1 - 1) = at
  BY SMT
<1>7. QED
  BY Zenon, <1>1, <1>2, <1>5, <1>6
=============================================================================
