-------------------------- MODULE WsMeaningProofs --------------------------
(***************************************************************************)
(* Lemmas about WsMeaning, for every script: what a frame looks like on    *)
(* the wire and what the parser reads of it, where the bytes of each frame *)
(* lie in the bytes of the script, and how its meaning grows frame by      *)
(* frame.  The two recursive functions of WsMeaning have the values their  *)
(* equations say, by least counterexample.  PollTaken, the heart of it: a  *)
(* poll takes the frame at the front of the raw region as WsMeaning does,  *)
(* whatever message is in progress before it and whatever bytes are        *)
(* behind it.                                                              *)
(***************************************************************************)
EXTENDS WsMeaning, WsConnProofs

-----------------------------------------------------------------------------
(* A frame on the wire.                                                     *)

HeadLen(f) == 2 + Len(f.key)
FrameLen(f) == HeadLen(f) + Len(f.payload)

WireKey(f) == IF f.key = << >> THEN NoKey ELSE [i \in 0..3 |-> f.key[i + 1]]

\* The header the parser is to find.
HeaderOf(f) ==
    [fin |-> f.fin, rsv |-> f.rsv, opcode |-> f.op, masked |-> f.key # << >>,
     payload_len |-> Len(f.payload), mask_key |-> WireKey(f)]

FirstByteOf(f) == (IF f.fin THEN 128 ELSE 0) + 16 * f.rsv + f.op
SecondByteOf(f) == (IF f.key = << >> THEN 0 ELSE 128) + Len(f.payload)
WireByte(f, i) == IF f.key = << >> THEN f.payload[i] ELSE Xor(f.payload[i], f.key[((i - 1) % 4) + 1])

\* The fields of a frame.
LEMMA FrameType ==
    ASSUME NEW f \in Frames
    PROVE  /\ f.fin \in BOOLEAN /\ f.rsv \in 0..7 /\ f.op \in 0..15
           /\ f.payload \in Seq(Byte) /\ Len(f.payload) \in 0..125
           /\ f.key \in {<< >>} \union [1..4 -> Byte]
<1>1. /\ f.fin \in BOOLEAN /\ f.rsv \in 0..7 /\ f.op \in 0..15 /\ f.payload \in Seq(Byte)
      /\ f.key \in {<< >>} \union [1..4 -> Byte] /\ Len(f.payload) <= 125
  BY Zenon DEF Frames
<1>2. Len(f.payload) \in Nat
  BY Zenon, <1>1, SeqIsFunction
<1>3. Len(f.payload) \in 0..125
  <2>1. ASSUME NEW n \in Nat, n <= 125 PROVE n \in 0..125
    BY SMT, <2>1
  <2>2. QED
    BY Zenon, <1>1, <1>2, <2>1
<1>4. QED
  BY Zenon, <1>1, <1>3

\* A function on 1..n is a sequence.
LEMMA FunctionIsSeq ==
    ASSUME NEW S, NEW n \in Nat, NEW w \in [1..n -> S] PROVE w \in Seq(S) /\ Len(w) = n
BY SMT

LEMMA KeyShape ==
    ASSUME NEW f \in Frames
    PROVE  /\ f.key \in Seq(Byte)
           /\ f.key = << >> => Len(f.key) = 0
           /\ f.key # << >> => f.key \in [1..4 -> Byte] /\ Len(f.key) = 4
           /\ Len(f.key) \in {0, 4}
<1>1. CASE f.key = << >>
  BY SMT, <1>1
<1>2. CASE f.key # << >>
  <2>1. f.key \in [1..4 -> Byte]
    BY Zenon, <1>2, FrameType
  <2>2. 4 \in Nat
    BY SMT
  <2>3. f.key \in Seq(Byte) /\ Len(f.key) = 4
    BY Zenon, <2>1, <2>2, FunctionIsSeq
  <2>4. QED
    BY Zenon, <1>2, <2>1, <2>3
<1>3. QED
  BY Zenon, <1>1, <1>2

LEMMA HeaderType == ASSUME NEW f \in Frames PROVE HeaderOf(f) \in Header
<1>1. WireKey(f) \in [0..3 -> Byte]
  <2>1. CASE f.key = << >>
    BY SMT, <2>1 DEF WireKey, NoKey, Byte
  <2>2. CASE f.key # << >>
    <3>1. f.key \in [1..4 -> Byte]
      BY Zenon, <2>2, KeyShape
    <3>2. \A i \in 0..3 : i + 1 \in 1..4
      BY SMT
    <3>3. QED
      BY Zenon, <2>2, <3>1, <3>2 DEF WireKey
  <2>3. QED
    BY Zenon, <2>1, <2>2
<1>2. Len(f.payload) \in Nat
  BY SMT, FrameType
<1>3. QED
  BY Zenon, <1>1, <1>2, FrameType DEF HeaderOf, Header

\* The bit fields of the first two bytes.
FirstHas(b, fin, rsv, op) ==
    b \in Byte /\ (b >= 128) = fin /\ (b \div 16) % 8 = rsv /\ b % 16 = op
SecondHas(b, masked, n) == b \in Byte /\ (b >= 128) = masked /\ b % 128 = n /\ ext_bytes(n) = 0

LEMMA FirstFields ==
    ASSUME NEW fin \in BOOLEAN, NEW rsv \in 0..7, NEW op \in 0..15
    PROVE  FirstHas((IF fin THEN 128 ELSE 0) + 16 * rsv + op, fin, rsv, op)
<1>1. PICK x \in {0, 128} : x = IF fin THEN 128 ELSE 0
  BY Zenon
<1>2. PICK b : b = x + 16 * rsv + op
  BY Zenon
<1>3. b \in Byte /\ (b \div 16) % 8 = rsv /\ b % 16 = op
  BY SMT, <1>2 DEF Byte
<1>4. (b >= 128) = (x = 128)
  BY SMT, <1>2
<1>5. (x = 128) = fin
  BY SMT, <1>1
<1>6. (b >= 128) = fin
  BY Zenon, <1>4, <1>5
<1>7. FirstHas(b, fin, rsv, op)
  BY Zenon, <1>3, <1>6 DEF FirstHas
<1>8. QED
  BY Zenon, <1>1, <1>2, <1>7

LEMMA SecondFields ==
    ASSUME NEW masked \in BOOLEAN, NEW n \in 0..125
    PROVE  SecondHas((IF masked THEN 128 ELSE 0) + n, masked, n)
<1>1. PICK x \in {0, 128} : x = IF masked THEN 128 ELSE 0
  BY Zenon
<1>2. PICK b : b = x + n
  BY Zenon
<1>3. b \in Byte /\ b % 128 = n
  BY SMT, <1>2 DEF Byte
<1>4. (b >= 128) = (x = 128)
  BY SMT, <1>2
<1>5. (x = 128) = masked
  BY SMT, <1>1
<1>6. ext_bytes(n) = 0
  BY SMT DEF ext_bytes
<1>7. (b >= 128) = masked
  BY Zenon, <1>4, <1>5
<1>8. SecondHas(b, masked, n)
  BY Zenon, <1>3, <1>6, <1>7 DEF SecondHas
<1>9. QED
  BY Zenon, <1>1, <1>2, <1>8

\* The first two bytes.
LEMMA FrontBytes ==
    ASSUME NEW f \in Frames
    PROVE  /\ FirstHas(FirstByteOf(f), f.fin, f.rsv, f.op)
           /\ SecondHas(SecondByteOf(f), f.key # << >>, Len(f.payload))
           /\ FirstByteOf(f) \in Byte /\ SecondByteOf(f) \in Byte
<1>1. /\ f.fin \in BOOLEAN /\ f.rsv \in 0..7 /\ f.op \in 0..15 /\ Len(f.payload) \in 0..125
  BY Zenon, FrameType
<1>2. PICK masked \in BOOLEAN : masked = (f.key # << >>)
  BY Zenon
<1>3. SecondByteOf(f) = (IF masked THEN 128 ELSE 0) + Len(f.payload)
  BY Zenon, <1>2 DEF SecondByteOf
<1>4. FirstHas(FirstByteOf(f), f.fin, f.rsv, f.op)
  BY Zenon, <1>1, FirstFields DEF FirstByteOf
<1>5. SecondHas(SecondByteOf(f), masked, Len(f.payload))
  BY Zenon, <1>1, <1>3, SecondFields
<1>6. QED
  BY Zenon, <1>2, <1>4, <1>5 DEF FirstHas, SecondHas

\* Items of a sequence.
LEMMA ItemOf == ASSUME NEW S, NEW q \in Seq(S), NEW i \in 1..Len(q) PROVE q[i] \in S
BY SMT

\* A byte of the payload on the wire.
LEMMA WireByteType ==
    ASSUME NEW f \in Frames, NEW i \in 1..Len(f.payload) PROVE WireByte(f, i) \in Byte
<1>1. f.payload[i] \in Byte
  BY Zenon, FrameType, ItemOf
<1>2. CASE f.key = << >>
  BY Zenon, <1>1, <1>2 DEF WireByte
<1>3. CASE f.key # << >>
  <2>1. PICK j : j = (i - 1) % 4
    BY Zenon
  <2>2. j \in 0..3 /\ j + 1 \in 1..4
    BY SMT, <2>1, FrameType
  <2>3. f.key[j + 1] \in Byte
    BY Zenon, <1>3, <2>2, KeyShape
  <2>4. Xor(f.payload[i], f.key[j + 1]) \in Byte
    BY Zenon, <1>1, <2>3, XorByte
  <2>5. QED
    BY Zenon, <1>3, <2>1, <2>4 DEF WireByte
<1>4. QED
  BY Zenon, <1>2, <1>3

\* The bytes of an encoding, by position.
EncodedAs(f, e) ==
    /\ e \in Seq(Byte) /\ Len(e) = FrameLen(f)
    /\ e[1] = FirstByteOf(f) /\ e[2] = SecondByteOf(f)
    /\ \A i \in 1..Len(f.key) : e[2 + i] = f.key[i]
    /\ \A i \in 1..Len(f.payload) : e[HeadLen(f) + i] = WireByte(f, i)

LEMMA EncodeShape == ASSUME NEW f \in Frames PROVE EncodedAs(f, Encode(f))
<1>1. PICK b0, b1 : b0 = FirstByteOf(f) /\ b1 = SecondByteOf(f)
  BY Zenon
<1>2. b0 \in Byte /\ b1 \in Byte
  BY Zenon, <1>1, FrontBytes
<1>3. PICK n, k : n = Len(f.payload) /\ k = Len(f.key)
  BY Zenon
<1>4. n \in Nat /\ k \in Nat
  <2>1. \A i \in 0..125 : i \in Nat
    BY SMT
  <2>2. 0 \in Nat /\ 4 \in Nat
    BY SMT
  <2>3. QED
    BY Zenon, <1>3, <2>1, <2>2, FrameType, KeyShape
<1>5. PICK w : w = [i \in 1..n |-> WireByte(f, i)]
  BY Zenon
<1>6. f.key \in [1..k -> Byte]
  BY Zenon, <1>3, KeyShape, SeqIsFunction
<1>7. Encode(f) = << b0, b1 >> \o f.key \o w
  BY Zenon, <1>1, <1>3, <1>5 DEF Encode, FirstByteOf, SecondByteOf, WireByte
<1>8. w \in [1..n -> Byte]
  BY Zenon, <1>3, <1>5, WireByteType
<1>9. PICK e : e = Encode(f)
  BY Zenon
<1>10. Len(e) = 2 + k + n /\ e = Parts(b0, b1, k, f.key, n, w)
  <2>1. IsJoin(<< b0, b1 >> \o f.key \o w, b0, b1, k, f.key, n, w)
    BY Zenon, <1>2, <1>4, <1>6, <1>8, Joined
  <2>2. QED
    BY Zenon, <1>7, <1>9, <2>1 DEF IsJoin
<1>11. /\ 2 + k + n \in Nat /\ 1 \in 1..(2 + k + n) /\ 2 \in 1..(2 + k + n) /\ 1 <= 2 /\ 2 <= 2
       /\ << b0, b1 >>[1] = b0 /\ << b0, b1 >>[2] = b1
  BY SMT, <1>4
<1>12. e[1] = b0 /\ e[2] = b1
  BY Zenon, <1>10, <1>11 DEF Parts
<1>13. ASSUME NEW i \in 1..k PROVE e[2 + i] = f.key[i]
  <2>1. PICK j : j = 2 + i
    BY Zenon
  <2>2. j \in 1..(2 + k + n) /\ ~(j <= 2) /\ j <= 2 + k /\ j - 2 = i
    BY SMT, <1>4, <2>1
  <2>3. QED
    BY Zenon, <1>10, <2>1, <2>2 DEF Parts
<1>14. ASSUME NEW i \in 1..n PROVE e[2 + k + i] = WireByte(f, i)
  <2>1. PICK j : j = 2 + k + i
    BY Zenon
  <2>2. j \in 1..(2 + k + n) /\ ~(j <= 2) /\ ~(j <= 2 + k) /\ j - (2 + k) = i
    BY SMT, <1>4, <2>1
  <2>3. e[j] = w[i]
    BY Zenon, <1>10, <2>1, <2>2 DEF Parts
  <2>4. QED
    BY Zenon, <1>5, <2>1, <2>3
<1>15. e \in Seq(Byte)
  <2>1. ASSUME NEW j \in 1..(2 + k + n) PROVE e[j] \in Byte
    <3>1. j \in Nat
      BY SMT, <1>4
    <3>2. CASE j <= 2
      <4>1. j = 1 \/ j = 2
        BY SMT, <3>2
      <4>2. QED
        BY Zenon, <1>2, <1>12, <4>1
    <3>3. CASE ~(j <= 2) /\ j <= 2 + k
      <4>1. PICK i \in 1..k : j = 2 + i
        <5>1. j - 2 \in 1..k /\ j = 2 + (j - 2)
          BY SMT, <1>4, <3>1, <3>3
        <5>2. QED
          BY Zenon, <5>1
      <4>2. QED
        BY Zenon, <1>6, <1>13, <4>1
    <3>4. CASE ~(j <= 2 + k)
      <4>1. PICK i \in 1..n : j = 2 + k + i
        <5>1. j - (2 + k) \in 1..n /\ j = 2 + k + (j - (2 + k))
          BY SMT, <1>4, <3>1, <3>4
        <5>2. QED
          BY Zenon, <5>1
      <4>2. QED
        BY Zenon, <1>3, <1>14, <4>1, WireByteType
    <3>5. QED
      BY Zenon, <3>2, <3>3, <3>4
  <2>2. e \in [1..(2 + k + n) -> Byte]
    BY Zenon, <1>10, <2>1 DEF Parts
  <2>3. QED
    BY Zenon, <1>11, <2>2, FunctionIsSeq
<1>16. QED
  BY Zenon, <1>1, <1>3, <1>9, <1>10, <1>12, <1>13, <1>14, <1>15 DEF EncodedAs, FrameLen, HeadLen

-----------------------------------------------------------------------------
(* What the parser reads of it.                                             *)

\* The first len bytes of buf are the frame's, as far as it goes.
FrontIs(buf, len, f) == \A i \in 1..FrameLen(f) : i <= len => buf[i - 1] = Encode(f)[i]

\* The frame's header is one the parser accepts.
Proper(f) == f.rsv = 0 /\ (f.op \in {WS_OP_CLOSE, WS_OP_PING, WS_OP_PONG} => f.fin)

LEMMA EncodeParses ==
    ASSUME NEW f \in Frames, NEW len \in Nat, NEW buf \in [0..(len - 1) -> Byte],
           FrontIs(buf, len, f), NEW p, p = ws_parse_header(buf, len), p.rc > 0
    PROVE  p = Parsed(HeadLen(f), HeaderOf(f)) /\ Proper(f)
<1>1. EncodedAs(f, Encode(f))
  BY Zenon, EncodeShape
<1>2. len >= 2
  <2>1. SUFFICES ASSUME len < 2 PROVE FALSE
    BY SMT
  <2>2. p.rc = WS_ERR_NEED_MORE
    BY Zenon, <2>1 DEF ws_parse_header, Unparsed, Parsed
  <2>3. QED
    BY SMT, <2>2 DEF WS_ERR_NEED_MORE
<1>3. FrameLen(f) \in Nat /\ FrameLen(f) >= HeadLen(f) /\ HeadLen(f) >= 2 /\ HeadLen(f) \in Nat
  <2>1. PICK n, k : n = Len(f.payload) /\ k = Len(f.key)
    BY Zenon
  <2>2. n \in 0..125 /\ k \in {0, 4}
    BY Zenon, <2>1, FrameType, KeyShape
  <2>3. 2 + k + n \in Nat /\ 2 + k + n >= 2 + k /\ 2 + k >= 2 /\ 2 + k \in Nat
    BY SMT, <2>2
  <2>4. QED
    BY Zenon, <2>1, <2>3 DEF FrameLen, HeadLen
<1>4. buf[0] = FirstByteOf(f) /\ buf[1] = SecondByteOf(f)
  <2>1. 1 \in 1..FrameLen(f) /\ 2 \in 1..FrameLen(f) /\ 1 <= len /\ 2 <= len /\ 1 - 1 = 0 /\ 2 - 1 = 1
    BY SMT, <1>2, <1>3
  <2>2. QED
    BY Zenon, <1>1, <2>1 DEF FrontIs, EncodedAs
<1>5. /\ buf[1] % 128 = Len(f.payload) /\ (buf[1] >= 128) = (f.key # << >>)
      /\ (buf[0] >= 128) = f.fin /\ (buf[0] \div 16) % 8 = f.rsv /\ buf[0] % 16 = f.op
      /\ ext_bytes(buf[1] % 128) = 0
  <2>1. FirstHas(buf[0], f.fin, f.rsv, f.op) /\ SecondHas(buf[1], f.key # << >>, Len(f.payload))
    BY Zenon, <1>4, FrontBytes
  <2>2. (buf[0] >= 128) = f.fin /\ (buf[0] \div 16) % 8 = f.rsv /\ buf[0] % 16 = f.op
    BY Zenon, <2>1 DEF FirstHas
  <2>3. /\ buf[1] % 128 = Len(f.payload) /\ (buf[1] >= 128) = (f.key # << >>)
        /\ ext_bytes(Len(f.payload)) = 0
    BY Zenon, <2>1 DEF SecondHas
  <2>4. QED
    BY Zenon, <2>2, <2>3
<1>8. PICK h : h = [fin |-> f.fin, rsv |-> f.rsv, opcode |-> f.op, masked |-> f.key # << >>,
                    payload_len |-> Len(f.payload), mask_key |-> NoKey]
  BY Zenon
<1>9. fill_fields(buf, raw_len(buf, 0)) = h
  BY Zenon, <1>5, <1>8 DEF fill_fields, raw_len
<1>10. p = IF ~header_well_formed(h) THEN Parsed(WS_ERR_PROTOCOL, h) ELSE parse_mask(buf, len, 2, h)
  <2>1. ~(len < 2) /\ ~(len < 2 + 0) /\ 2 + 0 = 2
    BY SMT, <1>2
  <2>2. len_ok(buf, 0)
    BY SMT DEF len_ok
  <2>3. QED
    BY Zenon, <1>5, <1>9, <2>1, <2>2 DEF ws_parse_header
<1>11. header_well_formed(h)
  <2>1. SUFFICES ASSUME ~header_well_formed(h) PROVE FALSE
    OBVIOUS
  <2>2. p.rc = WS_ERR_PROTOCOL
    <3>1. p = Parsed(WS_ERR_PROTOCOL, h)
      BY Zenon, <1>10, <2>1
    <3>2. QED
      BY SMT, <3>1 DEF Parsed
  <2>3. QED
    BY SMT, <2>2 DEF WS_ERR_PROTOCOL
<1>12. p = parse_mask(buf, len, 2, h)
  BY Zenon, <1>10, <1>11
<1>13. Proper(f)
  <2>1. h.rsv = f.rsv /\ h.opcode = f.op /\ h.fin = f.fin
    BY Zenon, <1>8
  <2>2. f.op \in {WS_OP_CLOSE, WS_OP_PING, WS_OP_PONG} => ws_classify_opcode(f.op) = "CONTROL"
    BY SMT DEF ws_classify_opcode, WS_OP_CONT, WS_OP_TEXT, WS_OP_BIN, WS_OP_CLOSE, WS_OP_PING,
               WS_OP_PONG
  <2>3. QED
    BY Zenon, <1>11, <2>1, <2>2 DEF header_well_formed, Proper
<1>14. CASE f.key = << >>
  <2>1. h = HeaderOf(f) /\ HeadLen(f) = 2 /\ ~h.masked
    <3>1. Len(f.key) = 0 /\ 2 + 0 = 2
      BY SMT, <1>14
    <3>2. QED
      BY Zenon, <1>8, <1>14, <3>1 DEF HeaderOf, WireKey, HeadLen
  <2>2. QED
    BY Zenon, <1>12, <1>13, <2>1 DEF parse_mask
<1>15. CASE f.key # << >>
  <2>1. h.masked /\ Len(f.key) = 4 /\ HeadLen(f) = 2 + 4
    BY Zenon, <1>8, <1>15, KeyShape DEF HeadLen
  <2>2. ~(len < 2 + 4)
    <3>1. SUFFICES ASSUME len < 2 + 4 PROVE FALSE
      OBVIOUS
    <3>2. p.rc = WS_ERR_NEED_MORE
      <4>1. p = Parsed(WS_ERR_NEED_MORE, h)
        BY Zenon, <1>12, <2>1, <3>1 DEF parse_mask
      <4>2. QED
        BY SMT, <4>1 DEF Parsed
    <3>3. QED
      BY SMT, <3>2 DEF WS_ERR_NEED_MORE
  <2>3. [i \in 0..3 |-> buf[2 + i]] = WireKey(f)
    <3>1. ASSUME NEW i \in 0..3 PROVE buf[2 + i] = f.key[i + 1]
      <4>1. PICK j \in 1..FrameLen(f) : j = 2 + (i + 1)
        BY SMT, <1>3, <2>1
      <4>2. j <= len /\ j - 1 = 2 + i /\ i + 1 \in 1..Len(f.key)
        BY SMT, <2>1, <2>2, <4>1
      <4>3. buf[2 + i] = Encode(f)[j]
        BY Zenon, <4>1, <4>2 DEF FrontIs
      <4>4. Encode(f)[2 + (i + 1)] = f.key[i + 1]
        BY Zenon, <1>1, <4>2 DEF EncodedAs
      <4>5. QED
        BY Zenon, <4>1, <4>3, <4>4
    <3>2. QED
      BY Zenon, <1>15, <3>1 DEF WireKey
  <2>4. [h EXCEPT !.mask_key = WireKey(f)] = HeaderOf(f)
    <3>1. PICK k : k = WireKey(f)
      BY Zenon
    <3>2. [h EXCEPT !.mask_key = k] =
              [fin |-> f.fin, rsv |-> f.rsv, opcode |-> f.op, masked |-> f.key # << >>,
               payload_len |-> Len(f.payload), mask_key |-> k]
      BY SMT, <1>8
    <3>3. QED
      BY Zenon, <3>1, <3>2 DEF HeaderOf
  <2>5. p = Parsed(2 + 4, [h EXCEPT !.mask_key = [i \in 0..3 |-> buf[2 + i]]])
    BY Zenon, <1>12, <2>1, <2>2 DEF parse_mask
  <2>6. QED
    BY Zenon, <1>13, <2>1, <2>3, <2>4, <2>5
<1>16. QED
  BY Zenon, <1>14, <1>15

\* A data frame that has no business there.
Stray(m, f) ==
    \/ f.op = WS_OP_CONT /\ m.kind = -1
    \/ f.op \in {WS_OP_TEXT, WS_OP_BIN} /\ m.kind # -1

LEMMA OpcodeKinds ==
    ASSUME NEW op \in 0..15
    PROVE  /\ op \in {WS_OP_CONT, WS_OP_TEXT, WS_OP_BIN} =>
                  ws_classify_opcode(op) = "DATA" /\ ~(op >= 8)
                  /\ op \notin {WS_OP_CLOSE, WS_OP_PING, WS_OP_PONG}
           /\ op \in {WS_OP_CLOSE, WS_OP_PING, WS_OP_PONG} =>
                  ws_classify_opcode(op) = "CONTROL" /\ op >= 8
                  /\ op \notin {WS_OP_CONT, WS_OP_TEXT, WS_OP_BIN}
           /\ op \notin {WS_OP_CONT, WS_OP_TEXT, WS_OP_BIN, WS_OP_CLOSE, WS_OP_PING, WS_OP_PONG} =>
                  ws_classify_opcode(op) = "RESERVED"
           /\ op \in {0, 1, 2, 8, 9, 10} <=>
                  op \in {WS_OP_CONT, WS_OP_TEXT, WS_OP_BIN, WS_OP_CLOSE, WS_OP_PING, WS_OP_PONG}
BY SMT DEF ws_classify_opcode, WS_OP_CONT, WS_OP_TEXT, WS_OP_BIN, WS_OP_CLOSE, WS_OP_PING,
           WS_OP_PONG

\* A well-formed header is malformed only in its opcode.
LEMMA OnlyTheOpcode ==
    ASSUME NEW f \in Frames, Proper(f)
    PROVE  Malformed(f) <=>
               f.op \notin {WS_OP_CONT, WS_OP_TEXT, WS_OP_BIN, WS_OP_CLOSE, WS_OP_PING, WS_OP_PONG}
<1>1. f.op \in 0..15
  BY Zenon, FrameType
<1>2. f.rsv = 0
  BY Zenon DEF Proper
<1>3. CASE f.op \in {WS_OP_CONT, WS_OP_TEXT, WS_OP_BIN}
  BY Zenon, <1>1, <1>2, <1>3, OpcodeKinds DEF Malformed
<1>4. CASE f.op \in {WS_OP_CLOSE, WS_OP_PING, WS_OP_PONG}
  BY Zenon, <1>1, <1>2, <1>4, OpcodeKinds DEF Malformed, Proper
<1>5. CASE f.op \notin {WS_OP_CONT, WS_OP_TEXT, WS_OP_BIN, WS_OP_CLOSE, WS_OP_PING, WS_OP_PONG}
  BY Zenon, <1>1, <1>5, OpcodeKinds DEF Malformed
<1>6. QED
  BY Zenon, <1>3, <1>4, <1>5

\* A frame is at least its first two bytes.
LEMMA LengthsOf ==
    ASSUME NEW f \in Frames
    PROVE  /\ HeadLen(f) \in Nat /\ Len(f.payload) \in Nat /\ FrameLen(f) \in Nat
           /\ FrameLen(f) = HeadLen(f) + Len(f.payload) /\ FrameLen(f) >= 2
<1>1. PICK k, n : k = Len(f.key) /\ n = Len(f.payload)
  BY Zenon
<1>2. k \in {0, 4} /\ n \in 0..125
  BY Zenon, <1>1, FrameType, KeyShape
<1>3. 2 + k \in Nat /\ n \in Nat /\ (2 + k) + n \in Nat /\ (2 + k) + n >= 2
  BY SMT, <1>2
<1>4. QED
  BY Zenon, <1>1, <1>3 DEF HeadLen, FrameLen

-----------------------------------------------------------------------------
(* What may be told, and the state WsMeaning keeps.                         *)

Told == [type : EventType, op : {WS_OP_TEXT, WS_OP_BIN}, data : Seq(Byte), close_code : UInt16]
MState == [events : Seq(Told), kind : {-1, WS_OP_TEXT, WS_OP_BIN}, body : Seq(Byte),
           life : {"open", "closed", "dead"}]

LEMMA OpcodesDiffer ==
    /\ WS_OP_TEXT # WS_OP_BIN /\ WS_OP_TEXT # WS_OP_CONT /\ WS_OP_BIN # WS_OP_CONT
    /\ -1 # WS_OP_TEXT /\ -1 # WS_OP_BIN /\ WS_OP_PING # WS_OP_PONG /\ WS_OP_CLOSE # WS_OP_PING
    /\ WS_OP_CLOSE # WS_OP_PONG
BY SMT DEF WS_OP_CONT, WS_OP_TEXT, WS_OP_BIN, WS_OP_CLOSE, WS_OP_PING, WS_OP_PONG

\* An event to tell.
Is(e, type, op, data, code) ==
    e \in Told /\ e.type = type /\ e.op = op /\ e.data = data /\ e.close_code = code

LEMMA SaysType ==
    ASSUME NEW type \in EventType, NEW op \in {WS_OP_TEXT, WS_OP_BIN}, NEW data \in Seq(Byte),
           NEW code \in UInt16
    PROVE  Is(Says(type, op, data, code), type, op, data, code)
BY Zenon DEF Is, Says, Told

LEMMA Appended ==
    ASSUME NEW S, NEW s \in Seq(S), NEW e \in S PROVE Append(s, e) \in Seq(S)
BY SMT

-----------------------------------------------------------------------------
(* The bytes and the meaning of a script, frame by frame.                   *)

\* Both are sequences of n steps from a start; they exist.
BytesStep(f, script, k) == IF k = 0 THEN << >> ELSE f[k - 1] \o Encode(script[k])
IsBytes(f, script, n) == f = [k \in 0..n |-> BytesStep(f, script, k)]

LEMMA BytesExist ==
    ASSUME NEW script, NEW n \in Nat PROVE \E f : IsBytes(f, script, n)
<1> DEFINE Bad == {m \in Nat : ~\E f : IsBytes(f, script, m)}
<1>1. SUFFICES Bad = {}
  BY Zenon
<1>2. SUFFICES ASSUME Bad # {} PROVE FALSE
  OBVIOUS
<1>3. PICK m \in Bad : \A k \in Bad : m <= k
  BY Zenon, <1>2, LeastNumber
<1>4. m # 0
  <2>1. \A k \in 0..0 : k = 0
    BY SMT
  <2>2. IsBytes([k \in 0..0 |-> << >>], script, 0)
    BY Zenon, <2>1 DEF IsBytes, BytesStep
  <2>3. QED
    BY Zenon, <1>3, <2>2
<1>5. PICK f : IsBytes(f, script, m - 1)
  BY SMT, <1>3, <1>4
<1> DEFINE g == [k \in 0..m |-> BytesStep(f, script, k)]
<1>6. ASSUME NEW k \in 0..m PROVE BytesStep(g, script, k) = BytesStep(f, script, k)
  <2>1. CASE k = 0
    BY Zenon, <2>1 DEF BytesStep
  <2>2. CASE k # 0
    <3>1. k - 1 \in 0..m /\ k - 1 \in 0..(m - 1)
      BY SMT, <1>3, <2>2
    <3>2. g[k - 1] = f[k - 1]
      BY Zenon, <1>5, <3>1 DEF IsBytes
    <3> HIDE DEF g
    <3>3. QED
      BY Zenon, <3>2 DEF BytesStep
  <2>3. QED
    BY Zenon, <2>1, <2>2
<1>7. IsBytes(g, script, m)
  BY Zenon, <1>6 DEF IsBytes
<1>8. QED
  BY Zenon, <1>3, <1>7

MeaningStep(f, role, script, k) == IF k = 0 THEN Fresh ELSE Takes(role, f[k - 1], script[k])
IsMeaning(f, role, script, n) == f = [k \in 0..n |-> MeaningStep(f, role, script, k)]

LEMMA MeaningExists ==
    ASSUME NEW role, NEW script, NEW n \in Nat PROVE \E f : IsMeaning(f, role, script, n)
<1> DEFINE Bad == {m \in Nat : ~\E f : IsMeaning(f, role, script, m)}
<1>1. SUFFICES Bad = {}
  BY Zenon
<1>2. SUFFICES ASSUME Bad # {} PROVE FALSE
  OBVIOUS
<1>3. PICK m \in Bad : \A k \in Bad : m <= k
  BY Zenon, <1>2, LeastNumber
<1>4. m # 0
  <2>1. \A k \in 0..0 : k = 0
    BY SMT
  <2>2. IsMeaning([k \in 0..0 |-> Fresh], role, script, 0)
    BY Zenon, <2>1 DEF IsMeaning, MeaningStep
  <2>3. QED
    BY Zenon, <1>3, <2>2
<1>5. PICK f : IsMeaning(f, role, script, m - 1)
  BY SMT, <1>3, <1>4
<1> DEFINE g == [k \in 0..m |-> MeaningStep(f, role, script, k)]
<1>6. ASSUME NEW k \in 0..m PROVE MeaningStep(g, role, script, k) = MeaningStep(f, role, script, k)
  <2>1. CASE k = 0
    BY Zenon, <2>1 DEF MeaningStep
  <2>2. CASE k # 0
    <3>1. k - 1 \in 0..m /\ k - 1 \in 0..(m - 1)
      BY SMT, <1>3, <2>2
    <3>2. g[k - 1] = f[k - 1]
      BY Zenon, <1>5, <3>1 DEF IsMeaning
    <3> HIDE DEF g
    <3>3. QED
      BY Zenon, <3>2 DEF MeaningStep
  <2>3. QED
    BY Zenon, <2>1, <2>2
<1>7. IsMeaning(g, role, script, m)
  BY Zenon, <1>6 DEF IsMeaning
<1>8. QED
  BY Zenon, <1>3, <1>7

\* The two recursive functions of WsMeaning satisfy their equations.
LEMMA EncodingIs ==
    ASSUME NEW script, Len(script) \in Nat PROVE IsBytes(Encoding(script), script, Len(script))
<1> DEFINE eqn(f) == f = [k \in 0..Len(script) |->
                            IF k = 0 THEN << >> ELSE f[k - 1] \o Encode(script[k])]
           f == CHOOSE g : eqn(g)
<1>1. \A g : eqn(g) <=> IsBytes(g, script, Len(script))
  BY Zenon DEF IsBytes, BytesStep
<1>2. Encoding(script) = f
  BY Zenon DEF Encoding
<1> HIDE DEF eqn
<1>3. eqn(f)
  BY Zenon, <1>1, BytesExist
<1> HIDE DEF f
<1>4. QED
  BY Zenon, <1>1, <1>2, <1>3

LEMMA ProgressIs ==
    ASSUME NEW role, NEW script, Len(script) \in Nat
    PROVE  IsMeaning(Progress(role, script), role, script, Len(script))
<1> DEFINE eqn(f) == f = [k \in 0..Len(script) |->
                            IF k = 0 THEN Fresh ELSE Takes(role, f[k - 1], script[k])]
           f == CHOOSE g : eqn(g)
<1>1. \A g : eqn(g) <=> IsMeaning(g, role, script, Len(script))
  BY Zenon DEF IsMeaning, MeaningStep
<1>2. Progress(role, script) = f
  BY Zenon DEF Progress
<1> HIDE DEF eqn
<1>3. eqn(f)
  BY Zenon, <1>1, MeaningExists
<1> HIDE DEF f
<1>4. QED
  BY Zenon, <1>1, <1>2, <1>3

\* t starts with s.
Leads(s, t) == Len(s) <= Len(t) /\ \A i \in 1..Len(s) : s[i] = t[i]

LEMMA LeadsTwice ==
    ASSUME NEW S, NEW s \in Seq(S), NEW t \in Seq(S), NEW u \in Seq(S), Leads(s, t), Leads(t, u)
    PROVE  Leads(s, u)
BY SMT DEF Leads

LEMMA LeadsJoined ==
    ASSUME NEW S, NEW s \in Seq(S), NEW t \in Seq(S) PROVE Leads(s, s \o t)
BY SMT DEF Leads

LEMMA LeadsAppended ==
    ASSUME NEW S, NEW s \in Seq(S), NEW e \in S PROVE Leads(s, Append(s, e)) /\ Leads(s, s)
BY SMT DEF Leads

LEMMA LeadsIsStart ==
    ASSUME NEW S, NEW s \in Seq(S), NEW t \in Seq(S), Leads(s, t) PROVE StartOf(s, t)
<1>1. Len(s) \in 0..Len(t)
  BY SMT DEF Leads
<1>2. s = SubSeq(t, 1, Len(s))
  BY SMT DEF Leads
<1>3. QED
  BY Zenon, <1>1, <1>2 DEF StartOf

\* A script, n frames long, and its bytes and meanings.
Scripted(script, n, e) ==
    /\ script \in Seq(Frames) /\ n = Len(script) /\ n \in Nat /\ e = Encoding(script)
    /\ \A k \in 1..n : script[k] \in Frames

LEMMA ScriptShape ==
    ASSUME NEW script \in Seq(Frames)
    PROVE  Scripted(script, Len(script), Encoding(script))
BY Zenon, SeqIsFunction DEF Scripted

\* The bytes of the first k frames, one frame after another.
Chained(script, n, e) ==
    /\ e[0] = << >>
    /\ \A k \in 1..n : e[k] = e[k - 1] \o Encode(script[k])

LEMMA BytesSteps ==
    ASSUME NEW script, NEW n, NEW e, Scripted(script, n, e)
    PROVE  Chained(script, n, e)
<1>1. e = [k \in 0..n |-> BytesStep(e, script, k)] /\ n \in Nat
  BY Zenon, EncodingIs DEF Scripted, IsBytes
<1>2. 0 \in 0..n
  BY SMT, <1>1
<1>3. ASSUME NEW k \in 1..n PROVE e[k] = e[k - 1] \o Encode(script[k])
  <2>1. k \in 0..n /\ k # 0
    BY SMT, <1>1
  <2>2. e[k] = BytesStep(e, script, k)
    BY Zenon, <1>1, <2>1
  <2>3. QED
    BY Zenon, <2>1, <2>2 DEF BytesStep
<1>4. e[0] = BytesStep(e, script, 0)
  BY Zenon, <1>1, <1>2
<1>5. e[0] = << >>
  BY Zenon, <1>4 DEF BytesStep
<1>6. QED
  BY Zenon, <1>3, <1>5 DEF Chained

LEMMA BytesType ==
    ASSUME NEW script, NEW n, NEW e, Scripted(script, n, e), NEW k \in 0..n
    PROVE  e[k] \in Seq(Byte)
<1> DEFINE Bad == {j \in 0..n : e[j] \notin Seq(Byte)}
<1>1. n \in Nat /\ \A j \in 1..n : script[j] \in Frames
  BY Zenon DEF Scripted
<1>0. Chained(script, n, e)
  BY Zenon, BytesSteps
<1>2. SUFFICES ASSUME Bad # {} PROVE FALSE
  BY Zenon
<1>3. Bad \in SUBSET Nat
  BY SMT, <1>1
<1>4. PICK j \in Bad : \A i \in Bad : j <= i
  BY Zenon, <1>2, <1>3, LeastNumber
<1>5. j \in 0..n /\ e[j] \notin Seq(Byte)
  BY Zenon, <1>4
<1>6. j # 0
  <2>1. << >> \in Seq(Byte)
    BY SMT
  <2>2. QED
    BY Zenon, <1>0, <1>5, <2>1 DEF Chained
<1>7. j \in 1..n /\ j - 1 \in 0..n /\ ~(j <= j - 1)
  BY SMT, <1>1, <1>5, <1>6
<1>8. e[j - 1] \in Seq(Byte)
  BY Zenon, <1>4, <1>7
<1>9. Encode(script[j]) \in Seq(Byte)
  BY Zenon, <1>1, <1>7, EncodeShape DEF EncodedAs
<1>10. e[j] = e[j - 1] \o Encode(script[j])
  BY Zenon, <1>0, <1>7 DEF Chained
<1>11. QED
  BY Zenon, <1>5, <1>8, <1>9, <1>10, Concatenated

\* Where frame k lies.
Lies(script, n, e, k) ==
    /\ k - 1 \in 0..n /\ k \in 0..n
    /\ Len(e[k - 1]) \in Nat /\ Len(e[k]) = Len(e[k - 1]) + FrameLen(script[k])
    /\ \A i \in 1..FrameLen(script[k]) : e[k][Len(e[k - 1]) + i] = Encode(script[k])[i]
    /\ Leads(e[k - 1], e[k])

LEMMA FrameLies ==
    ASSUME NEW script, NEW n, NEW e, Scripted(script, n, e), NEW k \in 1..n
    PROVE  Lies(script, n, e, k)
<1>1. n \in Nat /\ script[k] \in Frames
  BY Zenon DEF Scripted
<1>2. k - 1 \in 0..n /\ k \in 0..n
  BY SMT, <1>1
<1>3. PICK s, t, w : s = e[k - 1] /\ t = Encode(script[k]) /\ w = e[k]
  BY Zenon
<1>4. s \in Seq(Byte) /\ t \in Seq(Byte) /\ w = s \o t /\ Len(t) = FrameLen(script[k])
  <2>1. s \in Seq(Byte)
    BY Zenon, <1>2, <1>3, BytesType
  <2>2. EncodedAs(script[k], Encode(script[k]))
    BY Zenon, <1>1, EncodeShape
  <2>3. Chained(script, n, e)
    BY Zenon, BytesSteps
  <2>4. QED
    BY Zenon, <1>3, <2>1, <2>2, <2>3 DEF EncodedAs, Chained
<1>5. PICK a \in Nat, b \in Nat : a = Len(s) /\ b = Len(t)
  BY Zenon, <1>4, SeqIsFunction
<1>6. Len(w) = a + b /\ \A i \in 1..b : w[a + i] = t[i]
  BY SMT, <1>4, <1>5
<1>7. Leads(s, w)
  BY Zenon, <1>4, LeadsJoined
<1>8. QED
  BY Zenon, <1>2, <1>3, <1>4, <1>5, <1>6, <1>7 DEF Lies

\* All the bytes start with those of the first k frames.
LEMMA BytesLead ==
    ASSUME NEW script, NEW n, NEW e, Scripted(script, n, e), NEW k \in 0..n
    PROVE  Leads(e[k], e[n])
<1> DEFINE Bad == {j \in Nat : k + j <= n /\ ~Leads(e[k], e[k + j])}
<1>1. n \in Nat /\ n \in 0..n
  BY SMT DEF Scripted
<1>2. SUFFICES ASSUME Bad # {} PROVE FALSE
  <2>1. PICK j \in Nat : k + j = n /\ k + j <= n
    BY SMT, <1>1
  <2>2. QED
    BY Zenon, <2>1
<1>3. PICK j \in Bad : \A i \in Bad : j <= i
  BY Zenon, <1>2, LeastNumber
<1>4. j \in Nat /\ k + j <= n /\ ~Leads(e[k], e[k + j])
  BY Zenon, <1>3
<1>5. j # 0
  <2>1. ASSUME j = 0 PROVE k + j = k
    BY SMT, <1>1, <2>1
  <2>2. e[k] \in Seq(Byte)
    BY Zenon, BytesType
  <2>3. Leads(e[k], e[k])
    <3>1. PICK s \in Seq(Byte) : s = e[k]
      BY Zenon, <2>2
    <3>2. Leads(s, s)
      BY SMT DEF Leads
    <3>3. QED
      BY Zenon, <3>1, <3>2
  <2>4. QED
    BY Zenon, <1>4, <2>1, <2>3
<1>6. /\ j - 1 \in Nat /\ k + (j - 1) <= n /\ ~(j <= j - 1) /\ k + j \in 1..n
      /\ (k + j) - 1 = k + (j - 1) /\ k + (j - 1) \in 0..n /\ k + j \in 0..n
  BY SMTT(30), <1>1, <1>4, <1>5
<1>7. Leads(e[k], e[k + (j - 1)])
  BY Zenon, <1>3, <1>6
<1>8. Leads(e[k + (j - 1)], e[k + j])
  <2>1. Leads(e[(k + j) - 1], e[k + j])
    BY Zenon, <1>6, FrameLies DEF Lies
  <2>2. QED
    BY Zenon, <1>6, <2>1
<1>9. e[k] \in Seq(Byte) /\ e[k + (j - 1)] \in Seq(Byte) /\ e[k + j] \in Seq(Byte)
  BY Zenon, <1>6, BytesType
<1>10. QED
  BY Zenon, <1>4, <1>7, <1>8, <1>9, LeadsTwice

\* Frame k in the bytes of the whole script.
LEMMA FrameInStream ==
    ASSUME NEW script \in Seq(Frames), NEW k \in 1..Len(script)
    PROVE  /\ script[k] \in Frames /\ k - 1 \in 0..Len(script)
           /\ EndOf(script, k - 1) \in Nat
           /\ EndOf(script, k) = EndOf(script, k - 1) + FrameLen(script[k])
           /\ EndOf(script, k) <= Len(EncodeAll(script))
           /\ \A i \in 1..FrameLen(script[k]) :
                  EncodeAll(script)[EndOf(script, k - 1) + i] = Encode(script[k])[i]
<1>1. PICK n, e : n = Len(script) /\ e = Encoding(script)
  BY Zenon
<1>2. Scripted(script, n, e)
  BY Zenon, <1>1, ScriptShape
<1>3. k \in 1..n /\ script[k] \in Frames
  BY Zenon, <1>1, <1>2 DEF Scripted
<1>4. /\ k - 1 \in 0..n /\ k \in 0..n
      /\ Len(e[k - 1]) \in Nat /\ Len(e[k]) = Len(e[k - 1]) + FrameLen(script[k])
      /\ \A i \in 1..FrameLen(script[k]) : e[k][Len(e[k - 1]) + i] = Encode(script[k])[i]
  <2>1. Lies(script, n, e, k)
    BY Zenon, <1>2, <1>3, FrameLies
  <2>2. QED
    BY Zenon, <2>1 DEF Lies
<1>5. Leads(e[k], e[n])
  BY Zenon, <1>2, <1>4, BytesLead
<1>6. PICK a \in Nat, b \in Nat : a = Len(e[k - 1]) /\ b = FrameLen(script[k])
  BY Zenon, <1>3, <1>4, LengthsOf
<1>7. ASSUME NEW i \in 1..b PROVE e[n][a + i] = Encode(script[k])[i]
  <2>1. a + i \in 1..(a + b)
    BY SMT
  <2>2. e[k][a + i] = e[n][a + i]
    BY Zenon, <1>4, <1>5, <1>6, <2>1 DEF Leads
  <2>3. QED
    BY Zenon, <1>4, <1>6, <2>2
<1>8. EncodeAll(script) = e[n] /\ EndOf(script, k - 1) = a /\ EndOf(script, k) = Len(e[k])
  BY Zenon, <1>1, <1>6 DEF EncodeAll, EndOf
<1>9. QED
  BY Zenon, <1>1, <1>3, <1>4, <1>5, <1>6, <1>7, <1>8 DEF Leads

LEMMA StreamEnds ==
    ASSUME NEW script \in Seq(Frames)
    PROVE  /\ EndOf(script, 0) = 0 /\ EndOf(script, Len(script)) = Len(EncodeAll(script))
           /\ EncodeAll(script) \in Seq(Byte) /\ 0 \in 0..Len(script)
<1>1. PICK n, e : n = Len(script) /\ e = Encoding(script)
  BY Zenon
<1>2. Scripted(script, n, e)
  BY Zenon, <1>1, ScriptShape
<1>3. n \in 0..n /\ 0 \in 0..n
  <2>1. n \in Nat
    BY Zenon, <1>2 DEF Scripted
  <2>2. QED
    BY SMT, <2>1
<1>4. e[n] \in Seq(Byte) /\ e[0] = << >>
  BY Zenon, <1>2, <1>3, BytesSteps, BytesType DEF Chained
<1>5. Len(<< >>) = 0
  BY SMT
<1>6. QED
  BY Zenon, <1>1, <1>3, <1>4, <1>5 DEF EndOf, EncodeAll

\* A frame tells at most one thing more.
Grows(m, n) ==
    /\ n \in MState
    /\ n.events = m.events \/ \E e \in Told : n.events = Append(m.events, e)

LEMMA TellsMore ==
    ASSUME NEW m \in MState, NEW e \in Told
    PROVE  \E es \in Seq(Told) : es = Append(m.events, e)
<1>1. m.events \in Seq(Told)
  BY Zenon DEF MState
<1>2. QED
  BY Zenon, <1>1, Appended

LEMMA CodeType ==
    ASSUME NEW b \in Seq(Byte), CloseBodyAllowed(b), b # << >> PROVE Code(b) \in UInt16
<1>1. Len(b) >= 2
  BY Zenon DEF CloseBodyAllowed
<1>2. 1 \in 1..Len(b) /\ 2 \in 1..Len(b)
  <2>1. Len(b) \in Nat
    BY Zenon, SeqIsFunction
  <2>2. QED
    BY SMT, <1>1, <2>1
<1>3. PICK x \in Byte, y \in Byte : x = b[1] /\ y = b[2]
  BY Zenon, <1>2, ItemOf
<1>4. x * 256 + y \in UInt16
  BY SMT DEF Byte, UInt16
<1>5. QED
  BY Zenon, <1>3, <1>4 DEF Code

LEMMA DiesGrows == ASSUME NEW m \in MState PROVE Grows(m, Dies(m))
<1>1. PICK e : e = Says("ERROR", WS_OP_TEXT, << >>, 0)
  BY Zenon
<1>2. << >> \in Seq(Byte) /\ 0 \in UInt16
  BY SMT DEF UInt16
<1>3. "ERROR" \in EventType
  BY Zenon DEF EventType
<1>4. Is(e, "ERROR", WS_OP_TEXT, << >>, 0)
  BY Zenon, <1>1, <1>2, <1>3, SaysType
<1>5. e \in Told
  BY Zenon, <1>4 DEF Is
<1>6. PICK es \in Seq(Told) : es = Append(m.events, e)
  BY Zenon, <1>5, TellsMore
<1>7. PICK n : n = [m EXCEPT !.events = es, !.life = "dead"]
  BY Zenon
<1>8. n = Dies(m)
  BY Zenon, <1>1, <1>6, <1>7 DEF Dies
<1>9. n \in MState /\ n.events = es
  BY Zenon, <1>7 DEF MState
<1>10. QED
  BY Zenon, <1>5, <1>6, <1>8, <1>9 DEF Grows

LEMMA ControlGrows ==
    ASSUME NEW m \in MState, NEW f \in Frames, f.op = WS_OP_CLOSE => CloseBodyAllowed(f.payload)
    PROVE  Grows(m, TakesControl(m, f))
<1>1. f.payload \in Seq(Byte)
  BY Zenon, FrameType
<1>3. << >> \in Seq(Byte) /\ 0 \in UInt16
  BY SMT DEF UInt16
<1>4. "CLOSE" \in EventType /\ "PING" \in EventType /\ "PONG" \in EventType
  BY Zenon DEF EventType
<1>5. CASE f.op = WS_OP_CLOSE
  <2>1. PICK code : code = IF f.payload = << >> THEN 0 ELSE Code(f.payload)
    BY Zenon
  <2>2. code \in UInt16
    BY Zenon, <1>1, <1>3, <1>5, <2>1, CodeType
  <2>3. PICK e : e = Says("CLOSE", WS_OP_TEXT, << >>, code)
    BY Zenon
  <2>4. Is(e, "CLOSE", WS_OP_TEXT, << >>, code)
    BY Zenon, <1>3, <1>4, <2>2, <2>3, SaysType
  <2>5. e \in Told
    BY Zenon, <2>4 DEF Is
  <2>6. PICK es \in Seq(Told) : es = Append(m.events, e)
    BY Zenon, <2>5, TellsMore
  <2>7. PICK n : n = [m EXCEPT !.events = es, !.life = "closed"]
    BY Zenon
  <2>8. n = TakesControl(m, f)
    BY Zenon, <1>5, <2>1, <2>3, <2>6, <2>7 DEF TakesControl
  <2>9. n \in MState /\ n.events = es
    BY Zenon, <2>7 DEF MState
  <2>10. QED
    BY Zenon, <2>5, <2>6, <2>8, <2>9 DEF Grows
<1>6. CASE f.op # WS_OP_CLOSE
  <2>1. PICK type \in EventType : type = IF f.op = WS_OP_PING THEN "PING" ELSE "PONG"
    BY Zenon, <1>4
  <2>2. PICK e : e = Says(type, WS_OP_TEXT, f.payload, 0)
    BY Zenon
  <2>3. Is(e, type, WS_OP_TEXT, f.payload, 0)
    BY Zenon, <1>1, <1>3, <2>2, SaysType
  <2>4. e \in Told
    BY Zenon, <2>3 DEF Is
  <2>5. PICK es \in Seq(Told) : es = Append(m.events, e)
    BY Zenon, <2>4, TellsMore
  <2>6. PICK n : n = [m EXCEPT !.events = es]
    BY Zenon
  <2>7. n = TakesControl(m, f)
    BY Zenon, <1>6, <2>1, <2>2, <2>5, <2>6 DEF TakesControl
  <2>8. n \in MState /\ n.events = es
    BY Zenon, <2>6 DEF MState
  <2>9. QED
    BY Zenon, <2>4, <2>5, <2>7, <2>8 DEF Grows
<1>7. QED
  BY Zenon, <1>5, <1>6

LEMMA DataGrows ==
    ASSUME NEW m \in MState, NEW f \in Frames, ~Stray(m, f),
           f.op \in {WS_OP_CONT, WS_OP_TEXT, WS_OP_BIN}
    PROVE  Grows(m, TakesData(m, f))
<1>1. f.payload \in Seq(Byte)
  BY Zenon, FrameType
<1>2. /\ m.kind \in {-1, WS_OP_TEXT, WS_OP_BIN} /\ m.body \in Seq(Byte)
  BY Zenon DEF MState
<1>3. << >> \in Seq(Byte) /\ 0 \in UInt16
  BY SMT DEF UInt16
<1>4. PICK kind, w : /\ kind = (IF f.op = WS_OP_CONT THEN m.kind ELSE f.op)
                     /\ w = m.body \o f.payload
  BY Zenon
<1>5. kind \in {WS_OP_TEXT, WS_OP_BIN} /\ w \in Seq(Byte)
  BY Zenon, <1>1, <1>2, <1>4, Concatenated DEF Stray
<1>6. CASE ~f.fin
  <2>1. TakesData(m, f) = [m EXCEPT !.kind = kind, !.body = w]
    BY Zenon, <1>4, <1>6 DEF TakesData
  <2>2. QED
    BY Zenon, <1>5, <2>1 DEF Grows, MState
<1>7. CASE f.fin /\ kind = WS_OP_TEXT /\ ~IsUtf8(w)
  <2>1. TakesData(m, f) = Dies(m)
    BY Zenon, <1>4, <1>7 DEF TakesData
  <2>2. QED
    BY Zenon, <2>1, DiesGrows
<1>8. CASE f.fin /\ ~(kind = WS_OP_TEXT /\ ~IsUtf8(w))
  <2>1. PICK e : e = Says("MESSAGE", kind, w, 0)
    BY Zenon
  <2>2. "MESSAGE" \in EventType
    BY Zenon DEF EventType
  <2>3. Is(e, "MESSAGE", kind, w, 0)
    BY Zenon, <1>3, <1>5, <2>1, <2>2, SaysType
  <2>4. e \in Told
    BY Zenon, <2>3 DEF Is
  <2>5. PICK es \in Seq(Told) : es = Append(m.events, e)
    BY Zenon, <2>4, TellsMore
  <2>6. PICK n : n = [m EXCEPT !.events = es, !.kind = -1, !.body = << >>]
    BY Zenon
  <2>7. n = TakesData(m, f)
    <3>1. es = Append(m.events, Says("MESSAGE", kind, w, 0))
      BY Zenon, <2>1, <2>5
    <3>2. QED
      BY Zenon, <1>4, <1>8, <2>6, <3>1 DEF TakesData
  <2>8. n \in MState /\ n.events = es
    BY Zenon, <1>3, <2>6 DEF MState
  <2>9. QED
    BY Zenon, <2>4, <2>5, <2>7, <2>8 DEF Grows
<1>9. QED
  BY Zenon, <1>6, <1>7, <1>8

LEMMA TakesGrows ==
    ASSUME NEW role, NEW m \in MState, NEW f \in Frames PROVE Grows(m, Takes(role, m, f))
<1>1. f.op \in 0..15
  BY Zenon, FrameType
<1>2. CASE m.life = "dead"
  BY Zenon, <1>2 DEF Takes, Grows
<1>3. CASE m.life # "dead" /\ Unlawful(role, m, f)
  BY Zenon, <1>3, DiesGrows DEF Takes
<1>4. CASE m.life # "dead" /\ ~Unlawful(role, m, f)
  <2>1. ~Stray(m, f) /\ (f.op = WS_OP_CLOSE => CloseBodyAllowed(f.payload))
        /\ f.op \in {0, 1, 2, 8, 9, 10}
    BY Zenon, <1>4 DEF Unlawful, Stray, Malformed
  <2>2. f.op \in {WS_OP_CONT, WS_OP_TEXT, WS_OP_BIN, WS_OP_CLOSE, WS_OP_PING, WS_OP_PONG}
    BY Zenon, <1>1, <2>1, OpcodeKinds
  <2>3. CASE f.op >= 8
    <3>1. Takes(role, m, f) = TakesControl(m, f)
      BY Zenon, <1>4, <2>3 DEF Takes
    <3>2. QED
      BY Zenon, <2>1, <3>1, ControlGrows
  <2>4. CASE ~(f.op >= 8)
    <3>1. Takes(role, m, f) = TakesData(m, f)
      BY Zenon, <1>4, <2>4 DEF Takes
    <3>2. f.op \in {WS_OP_CONT, WS_OP_TEXT, WS_OP_BIN}
      BY Zenon, <1>1, <2>2, <2>4, OpcodeKinds
    <3>3. QED
      BY Zenon, <2>1, <3>1, <3>2, DataGrows
  <2>5. QED
    BY Zenon, <2>3, <2>4
<1>5. QED
  BY Zenon, <1>2, <1>3, <1>4

\* The meanings of the first k frames.
Meant(role, script, n, p) ==
    /\ n = Len(script) /\ n \in Nat /\ p = Progress(role, script)
    /\ \A k \in 1..n : script[k] \in Frames

MeaningChain(role, script, n, p) ==
    /\ p[0] = Fresh
    /\ \A k \in 1..n : p[k] = Takes(role, p[k - 1], script[k])

LEMMA MeaningSteps ==
    ASSUME NEW role, NEW script, NEW n, NEW p, Meant(role, script, n, p)
    PROVE  MeaningChain(role, script, n, p)
<1>1. p = [k \in 0..n |-> MeaningStep(p, role, script, k)] /\ n \in Nat
  <2>1. n = Len(script) /\ n \in Nat /\ p = Progress(role, script)
    BY Zenon DEF Meant
  <2>2. IsMeaning(Progress(role, script), role, script, Len(script))
    BY Zenon, <2>1, ProgressIs
  <2>3. IsMeaning(p, role, script, n)
    BY Zenon, <2>1, <2>2
  <2>4. QED
    BY Zenon, <2>1, <2>3 DEF IsMeaning
<1>2. 0 \in 0..n
  BY SMT, <1>1
<1>3. ASSUME NEW k \in 1..n PROVE p[k] = Takes(role, p[k - 1], script[k])
  <2>1. k \in 0..n /\ k # 0
    BY SMT, <1>1
  <2>2. p[k] = MeaningStep(p, role, script, k)
    BY Zenon, <1>1, <2>1
  <2>3. QED
    BY Zenon, <2>1, <2>2 DEF MeaningStep
<1>4. p[0] = MeaningStep(p, role, script, 0)
  BY Zenon, <1>1, <1>2
<1>5. p[0] = Fresh
  BY Zenon, <1>4 DEF MeaningStep
<1>6. QED
  BY Zenon, <1>3, <1>5 DEF MeaningChain

LEMMA FreshType == Fresh \in MState
<1>1. << >> \in Seq(Told) /\ << >> \in Seq(Byte)
  BY SMT
<1>2. QED
  BY Zenon, <1>1 DEF Fresh, MState

LEMMA MeaningType ==
    ASSUME NEW role, NEW script, NEW n, NEW p, Meant(role, script, n, p), NEW k \in 0..n
    PROVE  p[k] \in MState
<1> DEFINE Bad == {j \in 0..n : p[j] \notin MState}
<1>0. MeaningChain(role, script, n, p)
  BY Zenon, MeaningSteps
<1>1. n \in Nat /\ \A j \in 1..n : script[j] \in Frames
  BY Zenon DEF Meant
<1>2. SUFFICES ASSUME Bad # {} PROVE FALSE
  BY Zenon
<1>3. Bad \in SUBSET Nat
  BY SMT, <1>1
<1>4. PICK j \in Bad : \A i \in Bad : j <= i
  BY Zenon, <1>2, <1>3, LeastNumber
<1>5. j \in 0..n /\ p[j] \notin MState
  BY Zenon, <1>4
<1>6. j # 0
  BY Zenon, <1>0, <1>5, FreshType DEF MeaningChain
<1>7. j \in 1..n /\ j - 1 \in 0..n /\ ~(j <= j - 1)
  BY SMT, <1>1, <1>5, <1>6
<1>8. p[j - 1] \in MState
  BY Zenon, <1>4, <1>7
<1>9. Grows(p[j - 1], Takes(role, p[j - 1], script[j]))
  BY Zenon, <1>1, <1>7, <1>8, TakesGrows
<1>10. QED
  BY Zenon, <1>0, <1>5, <1>7, <1>9 DEF MeaningChain, Grows

\* What the first k frames tell is what the script tells first.
LEMMA MeaningLeads ==
    ASSUME NEW role, NEW script, NEW n, NEW p, Meant(role, script, n, p), NEW k \in 0..n
    PROVE  Leads(p[k].events, p[n].events)
<1> DEFINE Bad == {j \in Nat : k + j <= n /\ ~Leads(p[k].events, p[k + j].events)}
<1>0. MeaningChain(role, script, n, p)
  BY Zenon, MeaningSteps
<1>1. n \in Nat /\ \A j \in 1..n : script[j] \in Frames
  BY Zenon DEF Meant
<1>2. SUFFICES ASSUME Bad # {} PROVE FALSE
  <2>1. PICK j \in Nat : k + j = n /\ k + j <= n
    BY SMT, <1>1
  <2>2. QED
    BY Zenon, <2>1
<1>3. PICK j \in Bad : \A i \in Bad : j <= i
  BY Zenon, <1>2, LeastNumber
<1>4. j \in Nat /\ k + j <= n /\ ~Leads(p[k].events, p[k + j].events)
  BY Zenon, <1>3
<1>5. j # 0
  <2>1. ASSUME j = 0 PROVE k + j = k
    BY SMT, <1>1, <2>1
  <2>2. PICK s \in Seq(Told) : s = p[k].events
    BY Zenon, MeaningType DEF MState
  <2>3. Leads(s, s)
    BY SMT DEF Leads
  <2>4. QED
    BY Zenon, <1>4, <2>1, <2>2, <2>3
<1>6. /\ j - 1 \in Nat /\ k + (j - 1) <= n /\ ~(j <= j - 1) /\ k + j \in 1..n
      /\ (k + j) - 1 = k + (j - 1) /\ k + (j - 1) \in 0..n /\ k + j \in 0..n
  BY SMT, <1>1, <1>4, <1>5
<1>7. Leads(p[k].events, p[k + (j - 1)].events)
  BY Zenon, <1>3, <1>6
<1>8. PICK a, b, c : a = p[k] /\ b = p[k + (j - 1)] /\ c = p[k + j]
  BY Zenon
<1>9. a \in MState /\ b \in MState /\ c \in MState
  BY Zenon, <1>6, <1>8, MeaningType
<1>10. a.events \in Seq(Told) /\ b.events \in Seq(Told) /\ c.events \in Seq(Told)
  BY Zenon, <1>9 DEF MState
<1>11. c = Takes(role, b, script[k + j])
  BY Zenon, <1>0, <1>6, <1>8 DEF MeaningChain
<1>12. Grows(b, c)
  BY Zenon, <1>1, <1>6, <1>9, <1>11, TakesGrows
<1>13. Leads(b.events, c.events)
  <2>1. CASE c.events = b.events
    <3>1. PICK s \in Seq(Told) : s = b.events
      BY Zenon, <1>10
    <3>2. Leads(s, s)
      BY SMT DEF Leads
    <3>3. QED
      BY Zenon, <2>1, <3>1, <3>2
  <2>2. CASE \E e \in Told : c.events = Append(b.events, e)
    BY Zenon, <1>10, <2>2, LeadsAppended
  <2>3. QED
    BY Zenon, <1>12, <2>1, <2>2 DEF Grows
<1>14. QED
  BY Zenon, <1>4, <1>7, <1>8, <1>10, <1>13, LeadsTwice

-----------------------------------------------------------------------------
(* The connection and the meaning so far.                                   *)

KindOf(frag) == IF frag = "NONE" THEN -1 ELSE IF frag = "TEXT" THEN WS_OP_TEXT ELSE WS_OP_BIN

\* The assembled message is the one in progress, until the peer closes.
Assembles(c, m) ==
    /\ m.kind = KindOf(c.frag) /\ Len(m.body) = c.msg_len /\ Carries(c.msg_buf, 0, m.body)
    /\ c.close_code = 0

Tracks(c, m) ==
    /\ m \in MState
    /\ m.life = IF c.state = "CLOSED" THEN "closed" ELSE "open"
    /\ c.state # "CLOSED" => Assembles(c, m)

\* The event of r is e, but for the payload of a ping or pong with bytes behind it.
Tells(r, e) ==
    /\ r.ev.type = e.type /\ r.ev.op = e.op /\ r.ev.close_code = e.close_code
    /\ EventData(r) = e.data \/ (e.type \in {"PING", "PONG"} /\ r.conn.rx_len > 0)

\* r says of c what takes the meaning from m to n.
Says1(m, r, n) ==
    \/ r.ev.type = "NONE" /\ n.events = m.events
    \/ \E e \in Told : e.type # "NONE" /\ n.events = Append(m.events, e) /\ Tells(r, e)

\* and take bytes of it are consumed, unless it fails.
Follows(c, m, r, n, take) ==
    /\ n \in MState /\ Says1(m, r, n) /\ r.conn.role = c.role
    /\ r.conn.failed => n.life = "dead"
    /\ ~r.conn.failed => Tracks(r.conn, n) /\ r.conn.rx_len = c.rx_len - take

\* A refusal ends the meaning.
LEMMA RefusalTold ==
    ASSUME NEW m \in MState, NEW c, NEW r, Refuses(c, r), NEW take
    PROVE  Follows(c, m, r, Dies(m), take)
<1>1. PICK e : e = Says("ERROR", WS_OP_TEXT, << >>, 0)
  BY Zenon
<1>2. << >> \in Seq(Byte) /\ 0 \in UInt16
  BY SMT DEF UInt16
<1>3. /\ e \in Told /\ e.type = "ERROR" /\ e.op = WS_OP_TEXT /\ e.data = << >>
      /\ e.close_code = 0
  <2>1. "ERROR" \in EventType /\ WS_OP_TEXT \in {WS_OP_TEXT, WS_OP_BIN}
    BY Zenon DEF EventType
  <2>2. Is(e, "ERROR", WS_OP_TEXT, << >>, 0)
    BY Zenon, <1>1, <1>2, <2>1, SaysType
  <2>3. QED
    BY Zenon, <2>2 DEF Is
<1>4. PICK es : es = Append(m.events, e) /\ es \in Seq(Told)
  <2>1. m.events \in Seq(Told)
    BY Zenon DEF MState
  <2>2. QED
    BY Zenon, <1>3, <2>1, Appended
<1>5. PICK n : n = [m EXCEPT !.events = es, !.life = "dead"]
  BY Zenon
<1>6. n = Dies(m)
  BY Zenon, <1>1, <1>4, <1>5 DEF Dies
<1>7. n \in MState /\ n.events = es /\ n.life = "dead"
  BY Zenon, <1>4, <1>5 DEF MState
<1>8. Tells(r, e) /\ e.type # "NONE"
  BY Zenon, <1>3 DEF Tells, Refuses
<1>9. Says1(m, r, n)
  BY Zenon, <1>3, <1>4, <1>7, <1>8 DEF Says1
<1>10. r.conn.role = c.role /\ r.conn.failed
  BY Zenon DEF Refuses
<1>11. QED
  BY Zenon, <1>6, <1>7, <1>9, <1>10 DEF Follows

-----------------------------------------------------------------------------
(* The buffer around a frame.                                               *)

\* The frame of header h of hdr bytes, with the payload b, is at the front.
AtFront(c, h, hdr, b) ==
    /\ Ready(c, h, hdr) /\ ws_lc_active(c) /\ b \in Seq(Byte) /\ Len(b) = h.payload_len

\* d has the message of c, and whatever else a control frame leaves alone.
SameMessage(c, d) ==
    /\ d.state = c.state /\ d.frag = c.frag /\ d.role = c.role /\ d.failed = c.failed
    /\ d.msg_len = c.msg_len /\ d.close_code = c.close_code
    /\ \A i \in 0..(c.msg_len - 1) : d.msg_buf[i] = c.msg_buf[i]

\* Sizes.
LEMMA FrontSizes ==
    ASSUME NEW c, NEW h, NEW hdr, NEW b, AtFront(c, h, hdr, b)
    PROVE  /\ c \in Conn /\ ConnInv(c) /\ ~c.failed /\ h \in Header /\ c.msg_buf \in Buffer
           /\ hdr \in Nat /\ hdr >= 2 /\ Len(b) \in Nat /\ Len(b) = h.payload_len
           /\ c.msg_len \in Nat /\ c.rx_len \in Nat
           /\ hdr + Len(b) \in Nat /\ hdr + Len(b) <= c.rx_len /\ c.msg_len + c.rx_len <= Cap
<1>1. /\ ConnInv(c) /\ ~c.failed /\ h \in Header /\ hdr \in 2..14 /\ b \in Seq(Byte)
      /\ Len(b) = h.payload_len /\ hdr + h.payload_len <= c.rx_len
  BY Zenon DEF AtFront, Ready
<1>2. c \in Conn /\ c.msg_len + c.rx_len <= Cap
  BY Zenon, <1>1 DEF ConnInv
<1>3. c.msg_len \in 0..Cap /\ c.rx_len \in 0..Cap /\ c.msg_buf \in Buffer
  BY Zenon, <1>2 DEF Conn, Buffer
<1>4. Len(b) \in Nat
  BY Zenon, <1>1, SeqIsFunction
<1>5. c.msg_len \in Nat /\ c.rx_len \in Nat
  BY SMT, <1>3, CapAssumption
<1>6. hdr \in Nat /\ hdr >= 2 /\ hdr + Len(b) \in Nat
  BY SMT, <1>1, <1>4
<1>7. QED
  BY Zenon, <1>1, <1>2, <1>3, <1>4, <1>5, <1>6

\* Unmasking undoes the peer's masking and leaves the message alone.
LEMMA UnmasksAt ==
    ASSUME NEW c, NEW h, NEW hdr, NEW b, AtFront(c, h, hdr, b),
           Arrived(c.msg_buf, c.msg_len + hdr, h, b), NEW u, u = unmask_payload(c, h, hdr)
    PROVE  /\ AtFront(u, h, hdr, b) /\ Carries(u.msg_buf, u.msg_len + hdr, b)
           /\ SameMessage(c, u) /\ u.rx_len = c.rx_len
<1>1. /\ Ready(c, h, hdr) /\ ws_lc_active(c) /\ b \in Seq(Byte) /\ Len(b) = h.payload_len
  BY Zenon DEF AtFront
<1>2. /\ c \in Conn /\ h \in Header /\ c.msg_buf \in Buffer
      /\ hdr \in Nat /\ Len(b) \in Nat /\ c.msg_len \in Nat /\ c.rx_len \in Nat
      /\ hdr + Len(b) <= c.rx_len /\ c.msg_len + c.rx_len <= Cap
  BY Zenon, FrontSizes
<1>3. /\ Ready(u, h, hdr)
      /\ u.state = c.state /\ u.frag = c.frag /\ u.msg_len = c.msg_len /\ u.rx_len = c.rx_len
      /\ u.failed = c.failed
  BY SMT, <1>1, UnmaskOK
<1>4. AtFront(u, h, hdr, b)
  BY Zenon, <1>1, <1>3 DEF AtFront, ws_lc_active
<1>5. u.role = c.role /\ u.close_code = c.close_code
  BY Zenon, <1>2 DEF unmask_payload, Conn
<1>6. PICK at \in Nat : at = c.msg_len + hdr /\ at + Len(b) <= Cap
  BY SMT, <1>2, CapAssumption
<1>7. DOMAIN c.msg_buf = 0..(Cap - 1)
  BY Zenon, <1>2 DEF Buffer
<1>8. ASSUME h.masked PROVE u.msg_buf = ws_mask(c.msg_buf, at, Len(b), h.mask_key)
  BY Zenon, <1>1, <1>2, <1>6, <1>8 DEF unmask_payload, Conn
<1>9. ASSUME NEW i \in 0..(c.msg_len - 1) PROVE u.msg_buf[i] = c.msg_buf[i]
  <2>1. i \in 0..(Cap - 1) /\ i \notin at..(at + Len(b) - 1)
    BY SMTT(30), <1>2, <1>6, CapAssumption
  <2>2. CASE ~h.masked
    BY Zenon, <2>2 DEF unmask_payload
  <2>3. CASE h.masked
    BY Zenon, <1>7, <1>8, <2>1, <2>3 DEF ws_mask
  <2>4. QED
    BY Zenon, <2>2, <2>3
<1>10. ASSUME NEW i \in 1..Len(b) PROVE u.msg_buf[at + (i - 1)] = b[i]
  <2>1. b[i] \in Byte
    BY Zenon, <1>1, SeqItem
  <2>2. CASE ~h.masked
    BY Zenon, <1>6, <2>2 DEF unmask_payload, Arrived, OnWire
  <2>3. CASE h.masked
    <3>1. PICK k : k = at + (i - 1)
      BY Zenon
    <3>2. k \in 0..(Cap - 1) /\ k \in at..(at + Len(b) - 1) /\ k - at = i - 1
      <4>1. Len(b) \in Nat /\ at + Len(b) <= Cap
        BY Zenon, <1>2, <1>6
      <4>2. QED
        BY SMT, <3>1, <4>1, CapAssumption
    <3>3. u.msg_buf[k] = Xor(c.msg_buf[k], h.mask_key[(i - 1) % 4])
      BY Zenon, <1>7, <1>8, <2>3, <3>2 DEF ws_mask
    <3>4. c.msg_buf[k] = Xor(b[i], h.mask_key[(i - 1) % 4])
      BY Zenon, <1>6, <2>3, <3>1 DEF Arrived, OnWire
    <3>5. h.mask_key[(i - 1) % 4] \in Byte
      <4>1. (i - 1) % 4 \in 0..3
        BY SMT, <1>2
      <4>2. QED
        BY Zenon, <1>2, <4>1 DEF Header
    <3>6. QED
      BY Zenon, <2>1, <3>1, <3>3, <3>4, <3>5, XorTwice
  <2>4. QED
    BY Zenon, <2>2, <2>3
<1>11. Carries(u.msg_buf, u.msg_len + hdr, b)
  BY Zenon, <1>3, <1>6, <1>10 DEF Carries
<1>12. SameMessage(c, u)
  BY Zenon, <1>3, <1>5, <1>9 DEF SameMessage
<1>13. QED
  BY Zenon, <1>3, <1>4, <1>11, <1>12

\* Consuming leaves the message alone, and everything if nothing is left behind.
LEMMA ConsumesSome ==
    ASSUME NEW c \in Conn, NEW take \in Nat, NEW d, d = raw_consume(c, take)
    PROVE  /\ SameMessage(c, d) /\ d.rx_len = c.rx_len - take
           /\ d.rx_len = 0 => d.msg_buf = c.msg_buf
<1>1. c.msg_len \in 0..Cap /\ c.rx_len \in 0..Cap /\ DOMAIN c.msg_buf = 0..(Cap - 1)
  BY Zenon DEF Conn
<1>2. PICK m \in Int, k \in Int, n \in Int :
          m = c.msg_len /\ k = c.msg_len + take /\ n = c.rx_len - take
  BY SMT, <1>1, CapAssumption
<1>3. PICK moved : moved = fwd_copy(c.msg_buf, m, k, n)
  BY Zenon
<1>4. d = [c EXCEPT !.msg_buf = moved, !.rx_len = n]
  BY Zenon, <1>2, <1>3 DEF raw_consume, Conn
<1>5. /\ d.state = c.state /\ d.frag = c.frag /\ d.role = c.role /\ d.failed = c.failed
      /\ d.msg_len = c.msg_len /\ d.close_code = c.close_code /\ d.rx_len = n
      /\ d.msg_buf = moved
  BY Zenon, <1>4 DEF Conn
<1>6. ASSUME NEW i \in 0..(c.msg_len - 1) PROVE moved[i] = c.msg_buf[i]
  <2>1. i \in 0..(Cap - 1) /\ i \notin m..(m + n - 1)
    BY SMTT(30), <1>1, <1>2, CapAssumption
  <2>2. QED
    BY Zenon, <1>1, <1>3, <2>1 DEF fwd_copy
<1>7. ASSUME n = 0 PROVE moved = c.msg_buf
  <2>1. \A i : i \notin m..(m + n - 1)
    BY SMT, <1>7
  <2>2. c.msg_buf = [i \in DOMAIN c.msg_buf |-> c.msg_buf[i]]
    BY Zenon DEF Conn
  <2>3. QED
    BY Zenon, <1>3, <2>1, <2>2 DEF fwd_copy
<1>8. QED
  BY Zenon, <1>2, <1>5, <1>6, <1>7 DEF SameMessage

\* The same message means the same.
LEMMA SameTracks ==
    ASSUME NEW c \in Conn, NEW d, SameMessage(c, d), NEW m, Tracks(c, m)
    PROVE  Tracks(d, m)
<1>1. ASSUME c.state # "CLOSED" PROVE Carries(d.msg_buf, 0, m.body)
  <2>1. Carries(c.msg_buf, 0, m.body) /\ Len(m.body) = c.msg_len
    BY Zenon, <1>1 DEF Tracks, Assembles
  <2>2. ASSUME NEW i \in 1..Len(m.body) PROVE d.msg_buf[0 + (i - 1)] = m.body[i]
    <3>1. c.msg_len \in 0..Cap
      BY Zenon DEF Conn
    <3>2. 0 + (i - 1) \in 0..(c.msg_len - 1)
      BY SMT, <2>1, <3>1
    <3>3. QED
      BY Zenon, <2>1, <3>2 DEF SameMessage, Carries
  <2>3. QED
    BY Zenon, <2>2 DEF Carries
<1>2. QED
  BY Zenon, <1>1 DEF SameMessage, Tracks, Assembles

-----------------------------------------------------------------------------
(* Control frames.                                                          *)

\* An event is added and the message in progress stays.
LEMMA AddsEvent ==
    ASSUME NEW c, NEW m, Tracks(c, m), NEW e \in Told
    PROVE  /\ Tracks(c, [m EXCEPT !.events = Append(@, e)])
           /\ [m EXCEPT !.events = Append(@, e)].events = Append(m.events, e)
<1> DEFINE n == [m EXCEPT !.events = Append(@, e)]
<1>1. m \in MState
  BY Zenon DEF Tracks
<1>2. PICK es : es = Append(m.events, e) /\ es \in Seq(Told)
  <2>1. m.events \in Seq(Told)
    BY Zenon, <1>1 DEF MState
  <2>2. QED
    BY Zenon, <2>1, Appended
<1>3. n = [m EXCEPT !.events = es]
  BY Zenon, <1>2
<1>4. n \in MState /\ n.events = es /\ n.kind = m.kind /\ n.body = m.body /\ n.life = m.life
  BY Zenon, <1>1, <1>2, <1>3 DEF MState
<1>5. QED
  BY Zenon, <1>2, <1>4 DEF Tracks, Assembles

LEMMA ControlTaken ==
    ASSUME NEW c, NEW h, NEW hdr, NEW b, AtFront(c, h, hdr, b),
           Carries(c.msg_buf, c.msg_len + hdr, b), NEW m, Tracks(c, m),
           NEW f, f.op = h.opcode, f.payload = b, h.opcode \in {WS_OP_PING, WS_OP_PONG},
           NEW r, r = on_control(c, h, hdr)
    PROVE  Follows(c, m, r, TakesControl(m, f), hdr + Len(b)) /\ r.ev.type \in {"PING", "PONG"}
<1>1. /\ c \in Conn /\ ~c.failed /\ hdr \in Nat /\ Len(b) \in Nat /\ Len(b) = h.payload_len
      /\ c.msg_len \in Nat /\ c.rx_len \in Nat
      /\ hdr + Len(b) \in Nat /\ hdr + Len(b) <= c.rx_len
  BY Zenon, FrontSizes
<1>2. b \in Seq(Byte)
  BY Zenon DEF AtFront
<1>3. PICK d : d = raw_consume(c, hdr + Len(b))
  BY Zenon
<1>4. /\ SameMessage(c, d) /\ d.rx_len = c.rx_len - (hdr + Len(b))
      /\ d.rx_len = 0 => d.msg_buf = c.msg_buf
  BY Zenon, <1>1, <1>3, ConsumesSome
<1>5. PICK type \in {"PING", "PONG"} : type = IF h.opcode = WS_OP_PING THEN "PING" ELSE "PONG"
  BY Zenon
<1>6. PICK at \in Nat : at = c.msg_len + hdr
  BY SMT, <1>1
<1>7. PICK event : event = [Event(type) EXCEPT !.data = at, !.len = Len(b)]
  BY Zenon
<1>8. r.conn = d /\ r.ev = event
  <2>1. h.opcode # WS_OP_CLOSE
    BY Zenon, OpcodesDiffer
  <2>2. QED
    BY Zenon, <1>1, <1>3, <1>5, <1>6, <1>7, <2>1 DEF on_control, Result
<1>9. /\ event.type = type /\ event.op = WS_OP_TEXT /\ event.close_code = 0
      /\ event.data = at /\ event.len = Len(b)
  BY Zenon, <1>7 DEF Event
<1>10. PICK e : e = Says(type, WS_OP_TEXT, b, 0)
  BY Zenon
<1>11. Is(e, type, WS_OP_TEXT, b, 0)
  <2>1. type \in EventType /\ WS_OP_TEXT \in {WS_OP_TEXT, WS_OP_BIN}
    BY Zenon, <1>5 DEF EventType
  <2>2. 0 \in UInt16
    BY SMT DEF UInt16
  <2>3. QED
    BY Zenon, <1>2, <1>10, <2>1, <2>2, SaysType
<1>12. EventData(r) = b \/ r.conn.rx_len > 0
  <2>1. CASE d.rx_len = 0
    <3>1. r.ev.data = at /\ r.ev.len = Len(b) /\ Carries(r.conn.msg_buf, at, b)
      BY Zenon, <1>4, <1>6, <1>8, <1>9, <2>1
    <3>2. QED
      BY Zenon, <1>2, <3>1, ReadsData
  <2>2. CASE d.rx_len # 0
    BY SMTT(30), <1>1, <1>4, <1>8, <2>2
  <2>3. QED
    BY Zenon, <2>1, <2>2
<1>13. Tells(r, e) /\ e.type # "NONE" /\ e \in Told
  BY Zenon, <1>5, <1>8, <1>9, <1>11, <1>12 DEF Tells, Is
<1>14. PICK n : n = [m EXCEPT !.events = Append(@, e)]
  BY Zenon
<1>15. n = TakesControl(m, f)
  BY Zenon, <1>5, <1>10, <1>14, OpcodesDiffer DEF TakesControl
<1>16. Tracks(d, n) /\ n.events = Append(m.events, e)
  <2>1. Tracks(d, m)
    BY Zenon, <1>1, <1>4, SameTracks
  <2>2. QED
    BY Zenon, <1>13, <1>14, <2>1, AddsEvent
<1>17. Says1(m, r, n)
  BY Zenon, <1>13, <1>16 DEF Says1
<1>18. n \in MState /\ r.conn.role = c.role /\ ~r.conn.failed
  BY Zenon, <1>1, <1>4, <1>8, <1>16 DEF Tracks, SameMessage
<1>19. QED
  BY Zenon, <1>4, <1>5, <1>8, <1>9, <1>15, <1>16, <1>17, <1>18 DEF Follows

\* The two lists of close codes agree.
LEMMA CodesAgree ==
    ASSUME NEW code \in Nat PROVE ws_close_code_sendable(code) <=> CodeAllowed(code)
<1>1. ws_close_code_sendable(code) <=>
          \/ 1000 <= code /\ code <= 1011 /\ code # 1004 /\ code # 1005 /\ code # 1006
          \/ 3000 <= code /\ code <= 4999
  BY SMTT(30) DEF ws_close_code_sendable
<1>2. CodeAllowed(code) <=>
          \/ 1000 <= code /\ code <= 1003
          \/ 1007 <= code /\ code <= 1011
          \/ 3000 <= code /\ code <= 4999
  BY SMTT(30) DEF CodeAllowed
<1>3. QED
  BY SMTT(30), <1>1, <1>2

\* A text in the buffer is valid iff it is UTF-8.
LEMMA CarriedUtf8 ==
    ASSUME NEW buf, NEW at \in Nat, NEW s \in Seq(Byte), Carries(buf, at, s)
    PROVE  ws_utf8_valid(buf, at, Len(s)) <=> IsUtf8(s)
<1>1. Len(s) \in Nat
  BY Zenon, SeqIsFunction
<1>2. ASSUME NEW k \in 1..Len(s) PROVE s[k] = buf[at + (k - 1)] /\ IsByte(s[k])
  <2>1. s[k] \in Byte
    BY Zenon, SeqItem
  <2>2. IsByte(s[k])
    BY Zenon, <2>1, ByteFacts DEF IsByte
  <2>3. QED
    BY Zenon, <2>2 DEF Carries
<1>3. TextAt(buf, at, s, Len(s))
  BY Zenon, <1>2 DEF TextAt
<1>4. QED
  BY Zenon, <1>1, <1>3, ValidIsUtf8

\* What lies behind the first two bytes of a sequence.
LEMMA Behind ==
    ASSUME NEW b \in Seq(Byte), Len(b) >= 2, NEW s, s = SubSeq(b, 3, Len(b))
    PROVE  s \in Seq(Byte) /\ Len(s) = Len(b) - 2 /\ \A i \in 1..Len(s) : s[i] = b[2 + i]
<1>1. PICK n \in Nat : n = Len(b)
  BY Zenon, SeqIsFunction
<1>2. s = SubSeq(b, 3, n) /\ 2 <= n
  BY SMT, <1>1
<1>3. s \in Seq(Byte)
  BY SMT, <1>1, <1>2
<1>4. Len(s) = n - 2
  BY SMTT(30), <1>1, <1>2
<1>5. \A i \in 1..Len(s) : s[i] = b[2 + i]
  BY SMTT(30), <1>1, <1>2, <1>4
<1>6. QED
  BY Zenon, <1>1, <1>3, <1>4, <1>5

\* So do the two ways to check a Close body.
LEMMA BodiesAgree ==
    ASSUME NEW c, NEW h, NEW hdr, NEW b, AtFront(c, h, hdr, b),
           Carries(c.msg_buf, c.msg_len + hdr, b)
    PROVE  /\ close_body_ok(c, h, hdr) <=> CloseBodyAllowed(b)
           /\ Len(b) >= 2 => CloseCode(c, hdr) = Code(b) /\ Code(b) \in UInt16
<1>1. /\ c \in Conn /\ hdr \in Nat /\ Len(b) \in Nat /\ Len(b) = h.payload_len
      /\ c.msg_len \in Nat
  BY Zenon, FrontSizes
<1>2. b \in Seq(Byte)
  BY Zenon DEF AtFront
<1>3. PICK at \in Nat : at = c.msg_len + hdr
  BY SMT, <1>1
<1>4. b = << >> <=> Len(b) = 0
  BY SMT, <1>2
<1>5. ASSUME Len(b) >= 2
      PROVE  /\ CloseCode(c, hdr) = Code(b) /\ Code(b) \in UInt16 /\ Code(b) \in Nat
             /\ ws_utf8_valid(c.msg_buf, at + 2, Len(b) - 2) <=> IsUtf8(SubSeq(b, 3, Len(b)))
  <2>1. /\ 1 \in 1..Len(b) /\ 2 \in 1..Len(b) /\ at + (1 - 1) = at /\ at + (2 - 1) = at + 1
    BY SMT, <1>1, <1>5
  <2>2. c.msg_buf[at] = b[1] /\ c.msg_buf[at + 1] = b[2]
    BY Zenon, <1>3, <2>1 DEF Carries
  <2>3. b[1] \in Byte /\ b[2] \in Byte
    BY Zenon, <1>2, <2>1, SeqItem
  <2>4. CloseCode(c, hdr) = Code(b)
    BY Zenon, <1>3, <2>2 DEF CloseCode, Code
  <2>5. Code(b) \in UInt16
    BY Zenon, <2>3, PairType DEF Code
  <2>6. PICK s : s = SubSeq(b, 3, Len(b))
    BY Zenon
  <2>7. s \in Seq(Byte) /\ Len(s) = Len(b) - 2 /\ \A i \in 1..Len(s) : s[i] = b[2 + i]
    BY Zenon, <1>2, <1>5, <2>6, Behind
  <2>8. ASSUME NEW i \in 1..Len(s) PROVE c.msg_buf[at + 2 + (i - 1)] = s[i]
    <3>1. PICK n \in Nat, k \in Nat : n = Len(b) /\ k = Len(s) /\ k = n - 2 /\ i \in 1..k
      BY Zenon, <1>1, <2>7, SeqIsFunction
    <3>2. PICK j : j = 2 + i /\ j \in 1..n /\ at + 2 + (i - 1) = at + (j - 1)
      BY SMT, <3>1
    <3>3. Carries(c.msg_buf, at, b)
      BY Zenon, <1>3
    <3>4. c.msg_buf[at + (j - 1)] = b[j]
      BY Zenon, <3>1, <3>2, <3>3 DEF Carries
    <3>5. QED
      BY Zenon, <2>7, <3>2, <3>4
  <2>13. Carries(c.msg_buf, at + 2, s)
    BY Zenon, <2>8 DEF Carries
  <2>9. at + 2 \in Nat
    BY SMT
  <2>10. ws_utf8_valid(c.msg_buf, at + 2, Len(s)) <=> IsUtf8(s)
    BY Zenon, <2>7, <2>13, <2>9, CarriedUtf8
  <2>11. Code(b) \in Nat
    <3>1. \A x \in UInt16 : x \in Nat
      BY SMT DEF UInt16
    <3>2. QED
      BY Zenon, <2>5, <3>1
  <2>12. QED
    BY Zenon, <2>4, <2>5, <2>6, <2>7, <2>10, <2>11
<1>6. ASSUME Len(b) >= 2 PROVE Len(b) # 0
  BY SMT, <1>1, <1>6
<1>7. close_body_ok(c, h, hdr) <=> CloseBodyAllowed(b)
  BY Zenon, <1>1, <1>3, <1>4, <1>5, <1>6, CodesAgree DEF close_body_ok, CloseBodyAllowed
<1>8. QED
  BY Zenon, <1>5, <1>7

\* A Close whose body passes.
LEMMA CloseTaken ==
    ASSUME NEW c, NEW h, NEW hdr, NEW b, AtFront(c, h, hdr, b),
           Carries(c.msg_buf, c.msg_len + hdr, b), NEW m, Tracks(c, m),
           NEW f, f.op = WS_OP_CLOSE, f.payload = b, CloseBodyAllowed(b),
           NEW r, r = on_close(c, h, hdr)
    PROVE  Follows(c, m, r, TakesControl(m, f), hdr + Len(b))
<1>1. /\ c \in Conn /\ ~c.failed /\ hdr \in Nat /\ Len(b) \in Nat /\ Len(b) = h.payload_len
      /\ c.msg_len \in Nat /\ c.rx_len \in Nat
      /\ hdr + Len(b) \in Nat /\ hdr + Len(b) <= c.rx_len
  BY Zenon, FrontSizes
<1>2. b \in Seq(Byte) /\ ws_lc_active(c)
  BY Zenon DEF AtFront
<1>3. m \in MState /\ c.close_code = 0
  BY Zenon, <1>2 DEF Tracks, Assembles, ws_lc_active
<1>4. close_body_ok(c, h, hdr)
  BY Zenon, BodiesAgree
<1>5. PICK code : code = IF b = << >> THEN 0 ELSE Code(b)
  BY Zenon
<1>6. code \in UInt16 /\ code = IF h.payload_len >= 2 THEN CloseCode(c, hdr) ELSE c.close_code
  <2>1. CASE b = << >>
    <3>1. 0 \in UInt16 /\ ~(Len(b) >= 2)
      BY SMT, <2>1 DEF UInt16
    <3>2. QED
      BY Zenon, <1>1, <1>3, <1>5, <2>1, <3>1
  <2>2. CASE b # << >>
    <3>1. Len(b) >= 2
      BY Zenon, <2>2 DEF CloseBodyAllowed
    <3>2. QED
      BY Zenon, <1>1, <1>5, <2>2, <3>1, BodiesAgree
  <2>3. QED
    BY Zenon, <2>1, <2>2
<1>7. PICK k : k = [c EXCEPT !.close_code = code]
  BY Zenon
<1>8. PICK g : g = [k EXCEPT !.rcvd_close = TRUE, !.sent_close = TRUE, !.state = "CLOSED",
                             !.frag = "NONE", !.msg_len = 0]
  BY Zenon
<1>9. PICK d, event : /\ d = raw_consume(g, hdr + Len(b))
                   /\ event = [Event("CLOSE") EXCEPT !.close_code = code]
  BY Zenon
<1>10. /\ k \in Conn /\ k.state = c.state /\ k.close_code = code /\ k.failed = c.failed
       /\ k.role = c.role /\ k.rx_len = c.rx_len
  BY Zenon, <1>1, <1>6, <1>7 DEF Conn
<1>11. r.conn = d /\ r.ev = event
  <2>1. ws_lc_recv_close(k) = g
    BY Zenon, <1>2, <1>8, <1>10 DEF ws_lc_recv_close, ws_lc_active
  <2>2. [c EXCEPT !.close_code = IF h.payload_len >= 2 THEN CloseCode(c, hdr) ELSE @] = k
    BY Zenon, <1>6, <1>7
  <2>3. QED
    BY Zenon, <1>1, <1>4, <1>9, <1>10, <2>1, <2>2 DEF on_close, Result
<1>12. /\ g \in Conn /\ g.state = "CLOSED" /\ g.failed = c.failed
       /\ g.role = c.role /\ g.rx_len = c.rx_len
  <2>1. 0 \in 0..Cap /\ "NONE" \in Frag /\ "CLOSED" \in State
    BY SMT, CapAssumption DEF Frag, State
  <2>2. QED
    BY Zenon, <1>8, <1>10, <2>1 DEF Conn
<1>13. SameMessage(g, d) /\ d.rx_len = g.rx_len - (hdr + Len(b))
  BY Zenon, <1>1, <1>9, <1>12, ConsumesSome
<1>14. event.type = "CLOSE" /\ event.op = WS_OP_TEXT /\ event.len = 0 /\ event.close_code = code
  BY Zenon, <1>9 DEF Event
<1>15. EventData(r) = << >>
  BY SMT, <1>11, <1>14 DEF EventData
<1>16. PICK e : e = Says("CLOSE", WS_OP_TEXT, << >>, code)
  BY Zenon
<1>17. Is(e, "CLOSE", WS_OP_TEXT, << >>, code)
  <2>1. "CLOSE" \in EventType /\ WS_OP_TEXT \in {WS_OP_TEXT, WS_OP_BIN}
    BY Zenon DEF EventType
  <2>2. << >> \in Seq(Byte)
    BY SMT
  <2>3. QED
    BY Zenon, <1>6, <1>16, <2>1, <2>2, SaysType
<1>18. Tells(r, e) /\ e.type # "NONE" /\ e \in Told
  BY Zenon, <1>11, <1>14, <1>15, <1>17 DEF Tells, Is
<1>19. PICK es : es = Append(m.events, e) /\ es \in Seq(Told)
  <2>1. m.events \in Seq(Told)
    BY Zenon, <1>3 DEF MState
  <2>2. QED
    BY Zenon, <1>18, <2>1, Appended
<1>20. PICK n : n = [m EXCEPT !.events = es, !.life = "closed"]
  BY Zenon
<1>21. n \in MState /\ n.events = es /\ n.life = "closed"
  BY Zenon, <1>3, <1>19, <1>20 DEF MState
<1>22. n = TakesControl(m, f)
  BY Zenon, <1>5, <1>16, <1>19, <1>20 DEF TakesControl
<1>23. Says1(m, r, n)
  BY Zenon, <1>18, <1>19, <1>21 DEF Says1
<1>24. Tracks(d, n)
  BY Zenon, <1>12, <1>13, <1>21 DEF Tracks, SameMessage
<1>25. d.role = c.role /\ ~d.failed /\ d.rx_len = c.rx_len - (hdr + Len(b))
  BY Zenon, <1>1, <1>12, <1>13 DEF SameMessage
<1>26. QED
  BY Zenon, <1>11, <1>21, <1>22, <1>23, <1>24, <1>25 DEF Follows

-----------------------------------------------------------------------------
(* Data frames.                                                             *)

\* The offsets of a copy down within the buffer.
IsCopy(d, buf, dst, src, n) ==
    /\ DOMAIN d = 0..(Cap - 1)
    /\ \A i \in 0..(n - 1) : d[dst + i] = buf[src + i]
    /\ \A i \in 0..(dst - 1) : d[i] = buf[i]

LEMMA CopiedDown ==
    ASSUME NEW buf, DOMAIN buf = 0..(Cap - 1), NEW dst \in Nat, NEW src \in Nat, NEW n \in Nat,
           dst + n <= Cap
    PROVE  IsCopy(fwd_copy(buf, dst, src, n), buf, dst, src, n)
<1>0. PICK d : d = fwd_copy(buf, dst, src, n)
  BY Zenon
<1>1. DOMAIN d = 0..(Cap - 1)
  BY Zenon, <1>0 DEF fwd_copy
<1>2. ASSUME NEW i \in 0..(n - 1) PROVE d[dst + i] = buf[src + i]
  <2>1. PICK k : k = dst + i
    BY Zenon
  <2>2. k \in 0..(Cap - 1) /\ k \in dst..(dst + n - 1) /\ src + k - dst = src + i
    BY SMT, <2>1, CapAssumption
  <2>3. QED
    BY Zenon, <1>0, <2>1, <2>2 DEF fwd_copy
<1>3. ASSUME NEW i \in 0..(dst - 1) PROVE d[i] = buf[i]
  <2>1. i \in 0..(Cap - 1) /\ i \notin dst..(dst + n - 1)
    BY SMT, CapAssumption
  <2>2. QED
    BY Zenon, <1>0, <2>1 DEF fwd_copy
<1>4. QED
  BY Zenon, <1>0, <1>1, <1>2, <1>3 DEF IsCopy

\* d is c with n bytes less to read and the message w.
Grown(c, d, w, n) ==
    /\ d \in Conn /\ Carries(d.msg_buf, 0, w) /\ d.msg_len = Len(w)
    /\ d.rx_len = c.rx_len - n /\ w \in Seq(Byte)
    /\ d.frag = c.frag /\ d.state = c.state /\ d.failed = c.failed /\ d.role = c.role
    /\ d.close_code = c.close_code

\* The payload joins the message.
LEMMA Accumulates ==
    ASSUME NEW c, NEW h, NEW hdr, NEW b, AtFront(c, h, hdr, b), c.frag # "NONE",
           Carries(c.msg_buf, c.msg_len + hdr, b), NEW body \in Seq(Byte),
           Len(body) = c.msg_len, Carries(c.msg_buf, 0, body)
    PROVE  Grown(c, accumulate(c, h, hdr), body \o b, hdr + Len(b))
<1>0. PICK d : d = accumulate(c, h, hdr)
  BY Zenon
<1>1. /\ c \in Conn /\ hdr \in Nat /\ Len(b) \in Nat /\ Len(b) = h.payload_len
      /\ c.msg_len \in Nat /\ c.rx_len \in Nat /\ c.msg_buf \in Buffer
      /\ hdr + Len(b) <= c.rx_len /\ c.msg_len + c.rx_len <= Cap
  BY Zenon, FrontSizes
<1>2. b \in Seq(Byte) /\ Ready(c, h, hdr)
  BY Zenon DEF AtFront
<1>3. PICK ml \in Nat, n \in Nat : ml = c.msg_len /\ n = Len(b)
  BY Zenon, <1>1
<1>31. PICK rest : rest = c.rx_len - hdr - n
  BY Zenon
<1>4. /\ rest \in Nat /\ ml + n <= Cap /\ ml + n + rest <= Cap /\ ml + hdr \in Nat
      /\ ml + n \in Nat /\ ml + hdr + n \in Nat /\ rest = c.rx_len - (hdr + n)
  <2>1. PICK rx \in Nat : rx = c.rx_len
    BY Zenon, <1>1
  <2>2. rest = rx - hdr - n /\ hdr + n <= rx /\ ml + rx <= Cap /\ hdr \in Nat
    BY Zenon, <1>1, <1>3, <1>31, <2>1
  <2>3. /\ rest \in Nat /\ ml + n <= Cap /\ ml + n + rest <= Cap /\ ml + hdr \in Nat
        /\ ml + n \in Nat /\ ml + hdr + n \in Nat /\ rest = rx - (hdr + n)
    BY SMT, <2>2, CapAssumption
  <2>4. QED
    BY Zenon, <2>1, <2>3
<1>5. PICK down : down = fwd_copy(c.msg_buf, ml, ml + hdr, n)
  BY Zenon
<1>6. PICK moved : moved = fwd_copy(down, ml + n, ml + hdr + n, rest)
  BY Zenon
<1>7. d = [c EXCEPT !.msg_buf = moved, !.rx_len = rest, !.msg_len = ml + n]
  BY Zenon, <1>0, <1>1, <1>3, <1>31, <1>5, <1>6 DEF accumulate, Conn
<1>8. /\ d.msg_buf = moved /\ d.rx_len = rest /\ d.msg_len = ml + n
      /\ d.frag = c.frag /\ d.state = c.state /\ d.failed = c.failed /\ d.role = c.role
      /\ d.close_code = c.close_code
  BY Zenon, <1>1, <1>7 DEF Conn
<1>9. d \in Conn
  <2>1. ConnInv(d)
    BY Zenon, <1>0, <1>2, AccumulateOK
  <2>2. QED
    BY Zenon, <2>1 DEF ConnInv
<1>10. DOMAIN c.msg_buf = 0..(Cap - 1)
  BY Zenon, <1>1 DEF Buffer
<1>11. /\ DOMAIN down = 0..(Cap - 1) /\ \A i \in 0..(n - 1) : down[ml + i] = c.msg_buf[ml + hdr + i]
       /\ \A i \in 0..(ml - 1) : down[i] = c.msg_buf[i]
  <2>1. IsCopy(down, c.msg_buf, ml, ml + hdr, n)
    BY Zenon, <1>4, <1>5, <1>10, CopiedDown
  <2>2. QED
    BY Zenon, <2>1 DEF IsCopy
<1>12. \A i \in 0..(ml + n - 1) : moved[i] = down[i]
  <2>1. PICK e, src : e = ml + n /\ src = ml + hdr + n
    BY Zenon
  <2>2. e \in Nat /\ src \in Nat /\ e + rest <= Cap /\ moved = fwd_copy(down, e, src, rest)
    BY Zenon, <1>4, <1>6, <2>1
  <2>3. IsCopy(moved, down, e, src, rest)
    BY Zenon, <1>4, <1>11, <2>2, CopiedDown
  <2>4. \A i \in 0..(e - 1) : moved[i] = down[i]
    BY Zenon, <2>3 DEF IsCopy
  <2>5. e - 1 = ml + n - 1
    BY SMT, <2>1
  <2>6. QED
    BY Zenon, <2>4, <2>5
<1>13. PICK w : w = body \o b
  BY Zenon
<1>14. /\ w \in Seq(Byte) /\ Len(w) = ml + n
       /\ \A i \in 1..(ml + n) : w[i] = IF i <= ml THEN body[i] ELSE b[i - ml]
  <2>1. /\ w \in Seq(Byte) /\ Len(w) = Len(body) + Len(b)
        /\ \A i \in 1..(Len(body) + Len(b)) :
               w[i] = IF i <= Len(body) THEN body[i] ELSE b[i - Len(body)]
    BY Zenon, <1>2, <1>13, Concatenated
  <2>2. Len(body) = ml /\ Len(b) = n
    BY Zenon, <1>3
  <2>3. QED
    BY Zenon, <2>1, <2>2
<1>15. ASSUME NEW i \in 1..(ml + n) PROVE moved[0 + (i - 1)] = w[i]
  <2>1. PICK k : k = 0 + (i - 1)
    BY Zenon
  <2>2. i \in Nat /\ k \in 0..(ml + n - 1)
    BY SMTT(30), <1>4, <2>1
  <2>3. moved[k] = down[k]
    BY Zenon, <1>12, <2>2
  <2>4. CASE i <= ml
    <3>1. i \in 1..ml /\ k \in 0..(ml - 1)
      BY SMTT(30), <2>1, <2>2, <2>4
    <3>2. down[k] = c.msg_buf[k] /\ c.msg_buf[k] = body[i]
      BY Zenon, <1>3, <1>11, <2>1, <3>1 DEF Carries
    <3>3. QED
      BY Zenon, <1>14, <2>1, <2>3, <2>4, <3>2
  <2>5. CASE ~(i <= ml)
    <3>1. PICK j : j = i - ml /\ j \in 1..n /\ j - 1 \in 0..(n - 1) /\ k = ml + (j - 1)
      BY SMT, <2>1, <2>5
    <3>2. down[k] = c.msg_buf[ml + hdr + (j - 1)]
      BY Zenon, <1>11, <3>1
    <3>3. c.msg_buf[ml + hdr + (j - 1)] = b[j]
      BY Zenon, <1>3, <3>1 DEF Carries
    <3>4. QED
      BY Zenon, <1>14, <2>1, <2>3, <2>5, <3>1, <3>2, <3>3
  <2>6. QED
    BY Zenon, <2>4, <2>5
<1>16. Carries(d.msg_buf, 0, w)
  BY Zenon, <1>8, <1>14, <1>15 DEF Carries
<1>17. QED
  BY Zenon, <1>0, <1>3, <1>4, <1>8, <1>9, <1>13, <1>14, <1>16 DEF Grown

\* A message that ends.
Reports(d, r, op, w) ==
    /\ r.conn.state = d.state /\ r.conn.frag = "NONE" /\ r.conn.msg_len = 0
    /\ r.conn.rx_len = d.rx_len /\ r.conn.role = d.role /\ ~r.conn.failed
    /\ r.conn.close_code = d.close_code
    /\ r.ev.type = "MESSAGE" /\ r.ev.op = op /\ r.ev.close_code = 0 /\ EventData(r) = w

LEMMA Finishes ==
    ASSUME NEW d \in Conn, NEW w \in Seq(Byte), Carries(d.msg_buf, 0, w), d.msg_len = Len(w),
           d.frag # "NONE", ws_lc_active(d), ~d.failed, NEW r, r = finish_message(d)
    PROVE  IF d.frag = "TEXT" /\ ~IsUtf8(w) THEN Refuses(d, r)
           ELSE Reports(d, r, IF d.frag = "BIN" THEN WS_OP_BIN ELSE WS_OP_TEXT, w)
<1>1. 0 \in Nat
  BY SMT
<1>2. message_utf8_ok(d) <=> ~(d.frag = "TEXT" /\ ~IsUtf8(w))
  BY Zenon, <1>1, CarriedUtf8 DEF message_utf8_ok
<1>3. CASE ~message_utf8_ok(d)
  BY Zenon, <1>2, <1>3, FailRefuses DEF finish_message
<1>4. CASE message_utf8_ok(d)
  <2>1. PICK op : op = IF d.frag = "BIN" THEN WS_OP_BIN ELSE WS_OP_TEXT
    BY Zenon
  <2>2. PICK g, event : /\ g = [d EXCEPT !.frag = "NONE", !.msg_len = 0]
                     /\ event = [Event("MESSAGE") EXCEPT !.op = op, !.len = Len(w)]
    BY Zenon
  <2>3. ws_lc_finish_frag(d) = [d EXCEPT !.frag = "NONE"]
    BY Zenon DEF ws_lc_finish_frag
  <2>4. [[d EXCEPT !.frag = "NONE"] EXCEPT !.msg_len = 0] = g
    BY Zenon, <2>2 DEF Conn
  <2>5. r.conn = g /\ r.ev = event
    BY Zenon, <1>4, <2>1, <2>2, <2>3, <2>4 DEF finish_message, Result
  <2>6. /\ g.msg_buf = d.msg_buf /\ g.rx_len = d.rx_len /\ g.msg_len = 0 /\ g.frag = "NONE"
        /\ ~g.failed /\ g.role = d.role /\ g.state = d.state /\ g.close_code = d.close_code
    BY Zenon, <2>2 DEF Conn
  <2>7. /\ event.type = "MESSAGE" /\ event.op = op /\ event.data = 0 /\ event.len = Len(w)
        /\ event.close_code = 0
    BY Zenon, <2>2 DEF Event
  <2>8. EventData(r) = w
    BY Zenon, <1>1, <2>5, <2>6, <2>7, ReadsData
  <2>9. Reports(d, r, op, w)
    BY Zenon, <2>5, <2>6, <2>7, <2>8 DEF Reports
  <2>10. QED
    BY Zenon, <1>2, <1>4, <2>1, <2>9
<1>5. QED
  BY Zenon, <1>3, <1>4

LEMMA StrayRefused ==
    ASSUME NEW c, NEW h, NEW hdr, NEW b, AtFront(c, h, hdr, b), NEW m, Tracks(c, m),
           NEW f, f.op = h.opcode, f.op \in {WS_OP_CONT, WS_OP_TEXT, WS_OP_BIN}
    PROVE  data_illegal(c, h) <=> Stray(m, f)
<1>1. /\ c \in Conn /\ hdr \in Nat /\ Len(b) \in Nat /\ Len(b) = h.payload_len
      /\ c.msg_len \in Nat /\ c.rx_len \in Nat
      /\ hdr + Len(b) <= c.rx_len /\ c.msg_len + c.rx_len <= Cap
  BY Zenon, FrontSizes
<1>2. ~too_big(c, h)
  <2>1. ~(c.msg_len + Len(b) > Cap)
    BY SMT, <1>1, CapAssumption
  <2>2. QED
    BY Zenon, <1>1, <2>1 DEF too_big
<1>3. m.kind = KindOf(c.frag)
  BY Zenon DEF AtFront, Tracks, Assembles, ws_lc_active
<1>4. c.frag = "NONE" <=> m.kind = -1
  BY Zenon, <1>3, OpcodesDiffer DEF KindOf
<1>5. QED
  BY Zenon, <1>2, <1>4, OpcodesDiffer DEF data_illegal, is_stray_cont, is_interleave, Stray

\* The message a data frame belongs to.
Joins(c, g, kind) ==
    \E frag \in {"TEXT", "BIN"} : g = [c EXCEPT !.frag = frag] /\ KindOf(frag) = kind

LEMMA Belongs ==
    ASSUME NEW c \in Conn, ws_lc_active(c), NEW h, NEW m, Tracks(c, m), NEW f, f.op = h.opcode,
           f.op \in {WS_OP_CONT, WS_OP_TEXT, WS_OP_BIN}, ~Stray(m, f), NEW g, g = begin_data(c, h)
    PROVE  Joins(c, g, IF f.op = WS_OP_CONT THEN m.kind ELSE f.op)
<1> USE DEF Joins
<1>1. m.kind = KindOf(c.frag) /\ c.frag \in {"NONE", "TEXT", "BIN"}
  BY Zenon DEF Tracks, Assembles, ws_lc_active, Conn, Frag
<1>2. CASE f.op = WS_OP_CONT
  <2>1. c.frag # "NONE"
    BY Zenon, <1>1, <1>2 DEF Stray, KindOf
  <2>2. g = [c EXCEPT !.frag = c.frag]
    BY Zenon, <1>2 DEF begin_data, Conn
  <2>3. QED
    BY Zenon, <1>1, <1>2, <2>1, <2>2
<1>3. CASE f.op # WS_OP_CONT
  <2>1. PICK frag \in {"TEXT", "BIN"} : frag = IF h.opcode = WS_OP_BIN THEN "BIN" ELSE "TEXT"
    BY Zenon
  <2>2. c.frag = "NONE"
    BY Zenon, <1>1, <1>3, OpcodesDiffer DEF Stray, KindOf
  <2>3. g = [c EXCEPT !.frag = frag]
    BY Zenon, <1>3, <2>1, <2>2 DEF begin_data, ws_lc_start_frag
  <2>4. KindOf(frag) = f.op
    BY Zenon, <1>3, <2>1, OpcodesDiffer DEF KindOf
  <2>5. QED
    BY Zenon, <1>3, <2>1, <2>3, <2>4
<1>4. QED
  BY Zenon, <1>2, <1>3

\* What a data frame in its place does.
LEMMA DataTaken ==
    ASSUME NEW c, NEW h, NEW hdr, NEW b, AtFront(c, h, hdr, b),
           Carries(c.msg_buf, c.msg_len + hdr, b), NEW m, Tracks(c, m),
           NEW f, f.op = h.opcode, f.fin = h.fin, f.payload = b,
           f.op \in {WS_OP_CONT, WS_OP_TEXT, WS_OP_BIN}, ~Stray(m, f),
           NEW r, r = on_data(c, h, hdr)
    PROVE  /\ Follows(c, m, r, TakesData(m, f), hdr + Len(b))
           /\ r.ev.type # "CLOSE"
           /\ r.ev.type = "MESSAGE" => f.fin
<1>1. /\ c \in Conn /\ ConnInv(c) /\ ~c.failed /\ hdr \in Nat /\ Len(b) \in Nat
      /\ c.msg_len \in Nat
  BY Zenon, FrontSizes
<1>2. ws_lc_active(c) /\ Ready(c, h, hdr) /\ b \in Seq(Byte) /\ Len(b) = h.payload_len
  BY Zenon DEF AtFront
<1>3. ~data_illegal(c, h)
  BY Zenon, StrayRefused
<1>4. /\ m \in MState /\ c.state # "CLOSED" /\ Len(m.body) = c.msg_len
      /\ Carries(c.msg_buf, 0, m.body) /\ c.close_code = 0 /\ m.life = "open"
  BY Zenon, <1>2 DEF Tracks, Assembles, ws_lc_active
<1>5. m.body \in Seq(Byte) /\ m.events \in Seq(Told)
  BY Zenon, <1>4 DEF MState
<1>6. PICK g : g = begin_data(c, h)
  BY Zenon
<1>7. PICK kind : kind = IF f.op = WS_OP_CONT THEN m.kind ELSE f.op
  BY Zenon
<1>8. PICK frag \in {"TEXT", "BIN"} : g = [c EXCEPT !.frag = frag] /\ KindOf(frag) = kind
  <2>1. Joins(c, g, IF f.op = WS_OP_CONT THEN m.kind ELSE f.op)
    BY Zenon, <1>1, <1>2, <1>6, Belongs
  <2>2. QED
    BY Zenon, <1>7, <2>1 DEF Joins
<1>9. /\ g \in Conn /\ g.frag = frag /\ g.msg_len = c.msg_len /\ g.rx_len = c.rx_len
      /\ g.msg_buf = c.msg_buf /\ ~g.failed /\ g.state = c.state /\ g.role = c.role
      /\ g.sent_close = c.sent_close /\ g.rcvd_close = c.rcvd_close
      /\ g.close_code = c.close_code
  <2>1. frag \in Frag
    BY Zenon, <1>8 DEF Frag
  <2>2. QED
    BY Zenon, <1>1, <1>8, <2>1 DEF Conn
<1>10. frag # "NONE" /\ (frag = "TEXT" <=> kind = WS_OP_TEXT)
       /\ kind = IF frag = "BIN" THEN WS_OP_BIN ELSE WS_OP_TEXT
  BY Zenon, <1>8, OpcodesDiffer DEF KindOf
<1>11. ConnInv(g)
  BY Zenon, <1>1, <1>2, <1>9, <1>10 DEF ConnInv, ws_lc_active
<1>12. AtFront(g, h, hdr, b)
  BY Zenon, <1>2, <1>9, <1>11 DEF AtFront, Ready, ws_lc_active
<1>13. PICK d, w : d = accumulate(g, h, hdr) /\ w = m.body \o b
  BY Zenon
<1>14. /\ d \in Conn /\ Carries(d.msg_buf, 0, w) /\ d.msg_len = Len(w)
       /\ d.rx_len = g.rx_len - (hdr + Len(b)) /\ w \in Seq(Byte)
       /\ d.frag = g.frag /\ d.state = g.state /\ d.failed = g.failed /\ d.role = g.role
       /\ d.close_code = g.close_code
  <2>1. /\ g.frag # "NONE" /\ Carries(g.msg_buf, g.msg_len + hdr, b)
        /\ Len(m.body) = g.msg_len /\ Carries(g.msg_buf, 0, m.body)
    BY Zenon, <1>4, <1>9, <1>10
  <2>2. QED
    <3>1. Grown(g, accumulate(g, h, hdr), m.body \o b, hdr + Len(b))
      BY Zenon, <1>5, <1>12, <2>1, Accumulates
    <3>2. QED
      BY Zenon, <1>13, <3>1 DEF Grown
<1>15. /\ d.rx_len = c.rx_len - (hdr + Len(b)) /\ d.frag = frag /\ d.state = c.state /\ ~d.failed
       /\ d.role = c.role /\ d.close_code = 0
  BY Zenon, <1>4, <1>9, <1>14
<1>16. CASE ~f.fin
  <2>1. PICK n : n = [m EXCEPT !.kind = kind, !.body = w]
    BY Zenon
  <2>2. n = TakesData(m, f)
    BY Zenon, <1>7, <1>13, <1>16, <2>1 DEF TakesData
  <2>3. /\ n \in MState /\ n.events = m.events /\ n.kind = kind /\ n.body = w
        /\ n.life = "open"
    <3>1. kind \in {-1, WS_OP_TEXT, WS_OP_BIN}
      BY Zenon, <1>10
    <3>2. QED
      BY Zenon, <1>4, <1>14, <2>1, <3>1 DEF MState
  <2>4. r.conn = d /\ r.ev.type = "NONE"
    BY Zenon, <1>3, <1>6, <1>13, <1>16 DEF on_data, Result, Event
  <2>5. Tracks(d, n)
    BY Zenon, <1>4, <1>8, <1>14, <1>15, <2>3 DEF Tracks, Assembles
  <2>6. QED
    BY Zenon, <1>15, <2>2, <2>3, <2>4, <2>5 DEF Follows, Says1
<1>17. CASE f.fin
  <2>1. r = finish_message(d)
    BY Zenon, <1>3, <1>6, <1>13, <1>17 DEF on_data
  <2>2. ws_lc_active(d)
    BY Zenon, <1>2, <1>15 DEF ws_lc_active
  <2>3. IF d.frag = "TEXT" /\ ~IsUtf8(w) THEN Refuses(d, r)
        ELSE Reports(d, r, IF d.frag = "BIN" THEN WS_OP_BIN ELSE WS_OP_TEXT, w)
    BY Zenon, <1>10, <1>14, <1>15, <2>1, <2>2, Finishes
  <2>4. CASE d.frag = "TEXT" /\ ~IsUtf8(w)
    <3>1. TakesData(m, f) = Dies(m)
      BY Zenon, <1>7, <1>10, <1>13, <1>15, <1>17, <2>4 DEF TakesData
    <3>2. Refuses(c, r)
      BY Zenon, <1>15, <2>3, <2>4 DEF Refuses
    <3>3. Follows(c, m, r, Dies(m), hdr + Len(b))
      BY Zenon, <1>4, <3>2, RefusalTold
    <3>4. QED
      BY Zenon, <1>17, <3>1, <3>2, <3>3 DEF Refuses
  <2>5. CASE ~(d.frag = "TEXT" /\ ~IsUtf8(w))
    <3>1. Reports(d, r, kind, w)
      BY Zenon, <1>10, <1>15, <2>3, <2>5
    <3>2. PICK e : e = Says("MESSAGE", kind, w, 0)
      BY Zenon
    <3>3. Is(e, "MESSAGE", kind, w, 0)
      <4>1. "MESSAGE" \in EventType /\ kind \in {WS_OP_TEXT, WS_OP_BIN}
        BY Zenon, <1>10 DEF EventType
      <4>2. 0 \in UInt16
        BY SMT DEF UInt16
      <4>3. QED
        BY Zenon, <1>14, <3>2, <4>1, <4>2, SaysType
    <3>4. Tells(r, e) /\ e.type # "NONE" /\ e \in Told
      BY Zenon, <3>1, <3>3 DEF Tells, Is, Reports
    <3>5. PICK es : es = Append(m.events, e) /\ es \in Seq(Told)
      BY Zenon, <1>5, <3>4, Appended
    <3>6. PICK n : n = [m EXCEPT !.events = es, !.kind = -1, !.body = << >>]
      BY Zenon
    <3>7. << >> \in Seq(Byte) /\ Len(<< >>) = 0 /\ ~\E i : i \in 1..0
      BY SMT
    <3>8. /\ n \in MState /\ n.events = es /\ n.life = "open" /\ n.kind = -1
          /\ n.body = << >>
      BY Zenon, <1>4, <3>5, <3>6, <3>7 DEF MState
    <3>9. n = TakesData(m, f)
      <4>1. ~(kind = WS_OP_TEXT /\ ~IsUtf8(w)) /\ w = m.body \o f.payload
        BY Zenon, <1>10, <1>13, <1>15, <2>5
      <4>2. es = Append(m.events, Says("MESSAGE", kind, w, 0))
        BY Zenon, <3>2, <3>5
      <4>3. QED
        BY Zenon, <1>7, <1>17, <3>6, <4>1, <4>2 DEF TakesData
    <3>10. Says1(m, r, n)
      BY Zenon, <3>4, <3>5, <3>8 DEF Says1
    <3>11. Carries(r.conn.msg_buf, 0, << >>)
      BY Zenon, <3>7 DEF Carries
    <3>12. Tracks(r.conn, n)
      BY Zenon, <1>4, <1>15, <3>1, <3>7, <3>8, <3>11 DEF Tracks, Assembles, Reports, KindOf
    <3>13. /\ r.conn.role = c.role /\ ~r.conn.failed /\ r.ev.type = "MESSAGE"
           /\ r.conn.rx_len = c.rx_len - (hdr + Len(b))
      BY Zenon, <1>15, <3>1 DEF Reports
    <3>14. QED
      BY Zenon, <1>17, <3>8, <3>9, <3>10, <3>12, <3>13 DEF Follows
  <2>6. QED
    BY Zenon, <2>4, <2>5
<1>18. QED
  BY Zenon, <1>16, <1>17

-----------------------------------------------------------------------------
(* A poll takes the frame in front.                                         *)

\* A message or a close ends with a frame that is final and not a ping or pong.
Paced(r, f) == r.ev.type \in {"MESSAGE", "CLOSE"} => f.fin /\ f.op \notin {WS_OP_PING, WS_OP_PONG}

LEMMA RefusalTaken ==
    ASSUME NEW role, NEW m \in MState, m.life # "dead", NEW f, Unlawful(role, m, f),
           NEW c, NEW r, Refuses(c, r), NEW take
    PROVE  Follows(c, m, r, Takes(role, m, f), take) /\ Paced(r, f)
<1>1. Takes(role, m, f) = Dies(m)
  BY Zenon DEF Takes
<1>2. Follows(c, m, r, Dies(m), take)
  BY Zenon, RefusalTold
<1>3. QED
  BY Zenon, <1>1, <1>2 DEF Paced, Refuses

\* A client takes a frame as if it were not masked.
AsTaken(role, f) == IF role = "CLIENT" THEN [f EXCEPT !.key = << >>] ELSE f

LEMMA AsTakenType ==
    ASSUME NEW role, NEW f \in Frames
    PROVE  /\ AsTaken(role, f) \in Frames
           /\ role # "CLIENT" \/ f.key = << >> => AsTaken(role, f) = f
<1>1. /\ f \in [fin : BOOLEAN, rsv : 0..7, op : 0..15, key : {<< >>} \union [1..4 -> Byte],
                payload : Seq(Byte)]
      /\ Len(f.payload) <= 125
  BY Zenon DEF Frames
<1>2. PICK g : g = [f EXCEPT !.key = << >>]
  BY Zenon
<1>3. /\ g \in [fin : BOOLEAN, rsv : 0..7, op : 0..15, key : {<< >>} \union [1..4 -> Byte],
                payload : Seq(Byte)]
      /\ g.payload = f.payload
  BY Zenon, <1>1, <1>2
<1>4. f.key = << >> => g = f
  BY SMT, <1>1, <1>2
<1>5. QED
  BY Zenon, <1>1, <1>2, <1>3, <1>4 DEF AsTaken, Frames

\* What a frame does depends on its mask through its side alone.
LEMMA SideOnly ==
    ASSUME NEW role \in Role, NEW side, NEW m, NEW f \in Frames, ~WrongSide(side, f),
           ~WrongSide(role, AsTaken(role, f))
    PROVE  Takes(role, m, AsTaken(role, f)) = Takes(side, m, f)
<1>1. PICK g : g = AsTaken(role, f)
  BY Zenon
<1>2. g.fin = f.fin /\ g.rsv = f.rsv /\ g.op = f.op /\ g.payload = f.payload
  BY Zenon, <1>1 DEF AsTaken, Frames
<1>3. Malformed(g) <=> Malformed(f)
  BY Zenon, <1>2 DEF Malformed
<1>4. Unlawful(role, m, g) <=> Unlawful(side, m, f)
  BY Zenon, <1>1, <1>2, <1>3 DEF Unlawful
<1>5. TakesControl(m, g) = TakesControl(m, f)
  BY Zenon, <1>2 DEF TakesControl
<1>6. TakesData(m, g) = TakesData(m, f)
  BY Zenon, <1>2 DEF TakesData
<1>7. QED
  BY Zenon, <1>1, <1>2, <1>4, <1>5, <1>6 DEF Takes

LEMMA RouteTaken ==
    ASSUME NEW c, NEW f \in Frames, Proper(f), AtFront(c, HeaderOf(f), HeadLen(f), f.payload),
           Carries(c.msg_buf, c.msg_len + HeadLen(f), f.payload), NEW m, Tracks(c, m),
           NEW side, ~WrongSide(side, f),
           NEW r, r = route(c, HeaderOf(f), HeadLen(f))
    PROVE  Follows(c, m, r, Takes(side, m, f), FrameLen(f)) /\ Paced(r, f)
<1>1. PICK h, hdr, b : h = HeaderOf(f) /\ hdr = HeadLen(f) /\ b = f.payload
  BY Zenon
<1>2. /\ h.opcode = f.op /\ h.fin = f.fin /\ AtFront(c, h, hdr, b) /\ r = route(c, h, hdr)
      /\ Carries(c.msg_buf, c.msg_len + hdr, b) /\ FrameLen(f) = hdr + Len(b)
  BY Zenon, <1>1 DEF HeaderOf, FrameLen
<1>3. f.op \in 0..15 /\ c \in Conn /\ m \in MState /\ m.life = "open"
  <2>1. ws_lc_active(c)
    BY Zenon, <1>2 DEF AtFront
  <2>2. QED
    BY Zenon, <1>2, <2>1, FrameType, FrontSizes DEF Tracks, ws_lc_active
<1>4. ASSUME Unlawful(side, m, f), r = fail(c)
      PROVE  Follows(c, m, r, Takes(side, m, f), FrameLen(f)) /\ Paced(r, f)
  <2>1. Refuses(c, r) /\ m.life # "dead"
    BY Zenon, <1>3, <1>4, FailRefuses
  <2>2. QED
    BY Zenon, <1>3, <1>4, <2>1, RefusalTaken
<1>5. CASE f.op \in {WS_OP_PING, WS_OP_PONG}
  <2>1. r = on_control(c, h, hdr) /\ ~Malformed(f) /\ f.op >= 8 /\ f.op # WS_OP_CLOSE
        /\ f.op \notin {WS_OP_CONT, WS_OP_TEXT, WS_OP_BIN}
    BY Zenon, <1>2, <1>3, <1>5, OpcodeKinds, OpcodesDiffer, OnlyTheOpcode DEF route
  <2>2. Takes(side, m, f) = TakesControl(m, f)
    BY Zenon, <1>3, <2>1 DEF Takes, Unlawful
  <2>3. Follows(c, m, r, TakesControl(m, f), hdr + Len(b)) /\ r.ev.type \in {"PING", "PONG"}
    BY Zenon, <1>1, <1>2, <1>5, <2>1, ControlTaken
  <2>4. QED
    BY Zenon, <1>2, <2>2, <2>3 DEF Paced
<1>6. CASE f.op = WS_OP_CLOSE
  <2>1. r = on_close(c, h, hdr) /\ ~Malformed(f) /\ f.op >= 8 /\ f.fin
        /\ f.op \notin {WS_OP_CONT, WS_OP_TEXT, WS_OP_BIN} /\ f.op \notin {WS_OP_PING, WS_OP_PONG}
    BY Zenon, <1>2, <1>3, <1>6, OpcodeKinds, OpcodesDiffer, OnlyTheOpcode
       DEF route, on_control, Proper
  <2>2. CASE CloseBodyAllowed(b)
    <3>1. Takes(side, m, f) = TakesControl(m, f)
      BY Zenon, <1>1, <1>3, <2>1, <2>2 DEF Takes, Unlawful
    <3>2. Follows(c, m, r, TakesControl(m, f), hdr + Len(b))
      BY Zenon, <1>1, <1>2, <1>6, <2>1, <2>2, CloseTaken
    <3>3. QED
      BY Zenon, <1>2, <2>1, <3>1, <3>2 DEF Paced
  <2>3. CASE ~CloseBodyAllowed(b)
    <3>1. ~close_body_ok(c, h, hdr)
      BY Zenon, <1>2, <2>3, BodiesAgree
    <3>2. r = fail(c)
      BY Zenon, <2>1, <3>1 DEF on_close
    <3>3. Unlawful(side, m, f)
      BY Zenon, <1>1, <1>6, <2>3 DEF Unlawful
    <3>4. QED
      BY Zenon, <1>4, <3>2, <3>3
  <2>4. QED
    BY Zenon, <2>2, <2>3
<1>7. CASE f.op \in {WS_OP_CONT, WS_OP_TEXT, WS_OP_BIN}
  <2>1. r = on_data(c, h, hdr) /\ ~Malformed(f) /\ ~(f.op >= 8) /\ f.op # WS_OP_CLOSE
        /\ f.op \notin {WS_OP_PING, WS_OP_PONG}
    BY Zenon, <1>2, <1>3, <1>7, OpcodeKinds, OnlyTheOpcode DEF route
  <2>2. CASE Stray(m, f)
    <3>1. data_illegal(c, h)
      BY Zenon, <1>2, <1>7, <2>2, StrayRefused
    <3>2. r = fail(c)
      BY Zenon, <2>1, <3>1 DEF on_data
    <3>3. Unlawful(side, m, f)
      BY Zenon, <2>2 DEF Unlawful, Stray
    <3>4. QED
      BY Zenon, <1>4, <3>2, <3>3
  <2>3. CASE ~Stray(m, f)
    <3>1. Takes(side, m, f) = TakesData(m, f)
      BY Zenon, <1>3, <2>1, <2>3 DEF Takes, Unlawful, Stray
    <3>2. /\ Follows(c, m, r, TakesData(m, f), hdr + Len(b))
          /\ r.ev.type # "CLOSE"
          /\ r.ev.type = "MESSAGE" => f.fin
      BY Zenon, <1>1, <1>2, <1>7, <2>1, <2>3, DataTaken
    <3>3. QED
      BY Zenon, <1>2, <2>1, <3>1, <3>2 DEF Paced
  <2>4. QED
    BY Zenon, <2>2, <2>3
<1>8. CASE f.op \notin {WS_OP_CONT, WS_OP_TEXT, WS_OP_BIN, WS_OP_CLOSE, WS_OP_PING, WS_OP_PONG}
  <2>1. r = fail(c)
    BY Zenon, <1>2, <1>3, <1>8, OpcodeKinds DEF route
  <2>2. Unlawful(side, m, f)
    BY Zenon, <1>8, OnlyTheOpcode DEF Unlawful
  <2>3. QED
    BY Zenon, <1>4, <2>1, <2>2
<1>9. QED
  BY Zenon, <1>5, <1>6, <1>7, <1>8

\* A byte of the payload on the wire is what unmasking starts from.
LEMMA WireByteIs ==
    ASSUME NEW f \in Frames, NEW i \in 1..Len(f.payload)
    PROVE  WireByte(f, i) = OnWire(HeaderOf(f), f.payload, i)
<1>1. (HeaderOf(f).masked <=> f.key # << >>) /\ HeaderOf(f).mask_key = WireKey(f)
  BY Zenon DEF HeaderOf
<1>2. CASE f.key = << >>
  BY Zenon, <1>1, <1>2 DEF WireByte, OnWire
<1>3. CASE f.key # << >>
  <2>1. PICK j : j = (i - 1) % 4
    BY Zenon
  <2>2. j \in 0..3
    BY SMT, <2>1, FrameType
  <2>3. WireKey(f)[j] = f.key[j + 1]
    BY Zenon, <1>3, <2>2 DEF WireKey
  <2>4. QED
    BY Zenon, <1>1, <1>3, <2>1, <2>3 DEF WireByte, OnWire
<1>4. QED
  BY Zenon, <1>2, <1>3

\* The payload of the frame in front, as it came.
LEMMA FrontArrives ==
    ASSUME NEW c, ConnInv(c), NEW f \in Frames, FrontIs(raw(c), c.rx_len, f),
           FrameLen(f) <= c.rx_len
    PROVE  Arrived(c.msg_buf, c.msg_len + HeadLen(f), HeaderOf(f), f.payload)
<1>1. PICK rx \in Nat, ml \in Nat : rx = c.rx_len /\ ml = c.msg_len
  <2>1. c.msg_len \in 0..Cap /\ c.rx_len \in 0..Cap
    BY Zenon DEF ConnInv, Conn
  <2>2. QED
    BY SMT, <2>1, CapAssumption
<1>2. PICK hl \in Nat, n \in Nat : hl = HeadLen(f) /\ n = Len(f.payload)
  BY Zenon, LengthsOf
<1>3. FrameLen(f) = hl + n /\ hl + n <= rx
  BY Zenon, <1>1, <1>2 DEF FrameLen
<1>4. EncodedAs(f, Encode(f))
  BY Zenon, EncodeShape
<1>5. ASSUME NEW i \in 1..n
      PROVE  c.msg_buf[(ml + hl) + (i - 1)] = OnWire(HeaderOf(f), f.payload, i)
  <2>1. PICK j : j = hl + i
    BY Zenon
  <2>2. /\ j \in 1..(hl + n) /\ j <= rx /\ j - 1 \in 0..(rx - 1)
        /\ ml + (j - 1) = (ml + hl) + (i - 1)
    BY SMT, <1>3, <2>1
  <2>3. raw(c)[j - 1] = Encode(f)[j]
    BY Zenon, <1>1, <1>3, <2>2 DEF FrontIs
  <2>4. Encode(f)[j] = WireByte(f, i)
    BY Zenon, <1>2, <1>4, <2>1 DEF EncodedAs
  <2>5. raw(c)[j - 1] = c.msg_buf[ml + (j - 1)]
    BY Zenon, <1>1, <2>2 DEF raw
  <2>6. WireByte(f, i) = OnWire(HeaderOf(f), f.payload, i)
    BY Zenon, <1>2, WireByteIs
  <2>7. QED
    BY Zenon, <2>2, <2>3, <2>4, <2>5, <2>6
<1>6. QED
  BY Zenon, <1>1, <1>2, <1>5 DEF Arrived

\* A poll that finds the frame f in front takes it as it is meant
\* or, sent masked to a client, as if it were not.
LEMMA PollTaken ==
    ASSUME NEW c, ConnInv(c), ~c.failed, c.state # "CONNECTING", frame_ready(c),
           NEW f \in Frames, FrontIs(raw(c), c.rx_len, f), NEW m, Tracks(c, m),
           NEW r, r = ws_conn_poll(c)
    PROVE  /\ Follows(c, m, r, Takes(c.role, m, AsTaken(c.role, f)), FrameLen(f))
           /\ Paced(r, f)
<1>1. PICK p : p = ws_parse_header(raw(c), c.rx_len)
  BY Zenon
<1>2. c.rx_len \in Nat /\ raw(c) \in [0..(c.rx_len - 1) -> Byte] /\ c \in Conn
  BY Zenon, RawType DEF ConnInv
<1>3. p.rc > 0
  BY Zenon, <1>1 DEF frame_ready
<1>4. p = Parsed(HeadLen(f), HeaderOf(f)) /\ Proper(f)
  BY Zenon, <1>1, <1>2, <1>3, EncodeParses
<1>5. PICK h, hdr : h = HeaderOf(f) /\ hdr = HeadLen(f)
  BY Zenon
<1>6. p.rc = hdr /\ p.h = h
  BY Zenon, <1>4, <1>5 DEF Parsed
<1>7. h \in Header /\ hdr \in 2..14 /\ hdr + h.payload_len <= c.rx_len
  BY Zenon, <1>1, <1>6, ReadyFrame
<1>8. h.payload_len = Len(f.payload) /\ (h.masked <=> f.key # << >>) /\ f.payload \in Seq(Byte)
  BY Zenon, <1>5, FrameType DEF HeaderOf
<1>9. r = dispatch(c, h, hdr)
  BY Zenon, <1>1, <1>6 DEF ws_conn_poll
<1>10. m \in MState /\ m.life # "dead"
  BY Zenon DEF Tracks
<1>11. PICK g : g = AsTaken(c.role, f)
  BY Zenon
<1>12. CASE ~ws_lc_active(c)
  <2>1. m.life = "closed"
    BY Zenon, <1>2, <1>12 DEF Tracks, ws_lc_active, Conn, State
  <2>2. Unlawful(c.role, m, g)
    BY Zenon, <2>1 DEF Unlawful
  <2>3. Refuses(c, r)
    BY Zenon, <1>2, <1>9, <1>12, FailRefuses DEF dispatch
  <2>4. QED
    BY Zenon, <1>10, <1>11, <2>2, <2>3, RefusalTaken DEF Paced, Refuses
<1>13. CASE ~mask_ok(c, h)
  <2>1. c.role = "SERVER" /\ f.key = << >> /\ g = f
    BY Zenon, <1>8, <1>11, <1>13 DEF mask_ok, AsTaken
  <2>2. Unlawful(c.role, m, g)
    BY Zenon, <2>1 DEF Unlawful, WrongSide
  <2>3. Refuses(c, r)
    BY Zenon, <1>2, <1>9, <1>13, FailRefuses DEF dispatch
  <2>4. QED
    BY Zenon, <1>10, <1>11, <2>2, <2>3, RefusalTaken DEF Paced, Refuses
<1>14. CASE ws_lc_active(c) /\ mask_ok(c, h)
  <2>1. PICK u : u = unmask_payload(c, h, hdr)
    BY Zenon
  <2>2. AtFront(c, h, hdr, f.payload)
    BY Zenon, <1>7, <1>8, <1>14 DEF AtFront, Ready
  <2>3. Arrived(c.msg_buf, c.msg_len + hdr, h, f.payload)
    <3>1. FrameLen(f) <= c.rx_len
      BY Zenon, <1>5, <1>7, <1>8 DEF FrameLen
    <3>2. QED
      BY Zenon, <1>5, <3>1, FrontArrives
  <2>4. /\ AtFront(u, h, hdr, f.payload) /\ Carries(u.msg_buf, u.msg_len + hdr, f.payload)
        /\ SameMessage(c, u) /\ u.rx_len = c.rx_len
    <3>1. PICK b : b = f.payload
      BY Zenon
    <3>2. AtFront(c, h, hdr, b) /\ Arrived(c.msg_buf, c.msg_len + hdr, h, b)
      BY Zenon, <2>2, <2>3, <3>1
    <3>3. /\ AtFront(u, h, hdr, b) /\ Carries(u.msg_buf, u.msg_len + hdr, b)
          /\ SameMessage(c, u) /\ u.rx_len = c.rx_len
      BY SMTT(30), <2>1, <3>2, UnmasksAt
    <3>4. QED
      BY Zenon, <3>1, <3>3
  <2>5. Tracks(u, m)
    BY Zenon, <1>2, <2>4, SameTracks
  <2>6. u.role = c.role
    BY Zenon, <2>4 DEF SameMessage
  <2>7. r = route(u, h, hdr)
    BY Zenon, <1>9, <1>14, <2>1 DEF dispatch
  <2>8. PICK side : ~WrongSide(side, f)
    <3>1. CASE f.key = << >>
      BY Zenon, <3>1 DEF WrongSide
    <3>2. CASE f.key # << >>
      BY Zenon, <3>2 DEF WrongSide
    <3>3. QED
      BY Zenon, <3>1, <3>2
  <2>9. ~WrongSide(c.role, g)
    <3>1. c.role \in {"SERVER", "CLIENT"}
      BY Zenon, <1>2 DEF Conn, Role
    <3>2. c.role = "SERVER" => f.key # << >>
      BY Zenon, <1>8, <1>14 DEF mask_ok
    <3>3. c.role = "CLIENT" => g.key = << >>
      BY Zenon, <1>11 DEF AsTaken, Frames
    <3>4. c.role = "SERVER" => g = f
      BY Zenon, <1>11 DEF AsTaken
    <3>5. QED
      BY Zenon, <3>1, <3>2, <3>3, <3>4 DEF WrongSide
  <2>10. Takes(c.role, m, g) = Takes(side, m, f)
    <3>1. c.role \in Role
      BY Zenon, <1>2 DEF Conn
    <3>2. QED
      BY Zenon, <1>11, <2>8, <2>9, <3>1, SideOnly
  <2>11. Follows(u, m, r, Takes(side, m, f), FrameLen(f)) /\ Paced(r, f)
    BY Zenon, <1>4, <1>5, <2>4, <2>5, <2>7, <2>8, RouteTaken
  <2>12. QED
    BY Zenon, <1>11, <2>4, <2>6, <2>10, <2>11 DEF Follows
<1>15. QED
  BY Zenon, <1>12, <1>13, <1>14
=============================================================================
