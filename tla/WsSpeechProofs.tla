--------------------------- MODULE WsSpeechProofs ---------------------------
(***************************************************************************)
(* What is said to one driver and heard by another, for every speech, key  *)
(* and buffer size: the frame that says it, how the builders build it, and *)
(* that a poll waits for all of it and then tells what was said, or the    *)
(* error if it was a misuse (PollTells).                                   *)
(***************************************************************************)
EXTENDS WsPair, WsCodecProofs

-----------------------------------------------------------------------------
(* The frame that says s.                                                   *)

OpOf(s) == CASE s.type = "CLOSE" -> WS_OP_CLOSE
             [] s.type = "PONG" -> WS_OP_PONG
             [] s.type = "PING" -> WS_OP_PING
             [] OTHER -> s.op

CodeBody(code) == << code \div 256, code % 256 >>

BodyOf(s) == IF s.type = "CLOSE" THEN CodeBody(s.close_code) ELSE s.data

HeaderOf(e, s) ==
    [fin |-> TRUE, rsv |-> 0, opcode |-> OpOf(s), masked |-> e = "CLIENT",
     payload_len |-> Len(BodyOf(s)), mask_key |-> IF e = "CLIENT" THEN Key ELSE NoKey]

KeyByte(i) == Key[(i - 1) % 4]
Masked(e, b) == [i \in 1..Len(b) |-> IF e = "CLIENT" THEN Xor(b[i], KeyByte(i)) ELSE b[i]]

FrameOf(e, s) == HeaderBytes(HeaderOf(e, s)) \o Masked(e, BodyOf(s))

\* It was built in a buffer of OutCap bytes.
Sized(s) == Len(BodyOf(s)) <= OutCap

\* What may be said.
LEMMA SpeechIs ==
    ASSUME NEW s \in Speech
    PROVE  /\ s = Says(s.type, s.op, s.data, s.close_code)
           /\ s.type \in {"MESSAGE", "PING", "PONG", "CLOSE"}
           /\ s.op = WS_OP_TEXT \/ (s.type = "MESSAGE" /\ s.op = WS_OP_BIN)
           /\ s.data \in Seq(Byte) /\ (s.type = "CLOSE" => s.data = << >>)
           /\ s.close_code \in UInt16 /\ (s.type # "CLOSE" => s.close_code = 0)
BY Zenon, SpeechAssumption

\* A code in two bytes.
LEMMA CodeBytes ==
    ASSUME NEW code \in UInt16
    PROVE  /\ code \div 256 \in Byte /\ code % 256 \in Byte
           /\ (code \div 256) * 256 + (code % 256) = code
BY SMT DEF UInt16, Byte

LEMMA CodeBodyIs ==
    ASSUME NEW code \in UInt16
    PROVE  CodeBody(code) \in Seq(Byte) /\ Len(CodeBody(code)) = 2
<1>1. PICK a \in Byte, b \in Byte : a = code \div 256 /\ b = code % 256
  BY SMT, CodeBytes
<1>2. << a, b >> \in Seq(Byte) /\ Len(<< a, b >>) = 2
  BY SMT
<1>3. QED
  BY Zenon, <1>1, <1>2 DEF CodeBody

LEMMA BodyIs ==
    ASSUME NEW s \in Speech PROVE BodyOf(s) \in Seq(Byte) /\ Len(BodyOf(s)) \in Nat
<1>1. BodyOf(s) \in Seq(Byte)
  BY Zenon, SpeechIs, CodeBodyIs DEF BodyOf
<1>2. QED
  BY SMT, <1>1

LEMMA OpIs ==
    ASSUME NEW s \in Speech
    PROVE  /\ s.type = "CLOSE" => OpOf(s) = WS_OP_CLOSE
           /\ s.type = "PING" => OpOf(s) = WS_OP_PING
           /\ s.type = "PONG" => OpOf(s) = WS_OP_PONG
           /\ s.type = "MESSAGE" => OpOf(s) = s.op /\ s.op \in {WS_OP_TEXT, WS_OP_BIN}
           /\ OpOf(s) \in 0..15
<1>1. /\ s.type \in {"MESSAGE", "PING", "PONG", "CLOSE"}
      /\ s.op \in {WS_OP_TEXT, WS_OP_BIN}
  BY Zenon, SpeechIs
<1>2. QED
  BY SMT, <1>1 DEF OpOf, WS_OP_TEXT, WS_OP_BIN, WS_OP_CLOSE, WS_OP_PING, WS_OP_PONG

LEMMA NoKeyIs == NoKey \in [0..3 -> Byte]
BY SMT DEF NoKey, Byte

IsHeaderOf(h, e, s) ==
    /\ h \in Header /\ h.rsv = 0 /\ h.fin /\ h.opcode = OpOf(s)
    /\ h.payload_len = Len(BodyOf(s))
    /\ h.masked <=> e = "CLIENT"
    /\ h.mask_key = IF e = "CLIENT" THEN Key ELSE NoKey

LEMMA HeaderOfIs ==
    ASSUME NEW e \in Role, NEW s \in Speech, NEW h, h = HeaderOf(e, s)
    PROVE  IsHeaderOf(h, e, s)
<1>1. PICK key \in [0..3 -> Byte] : key = IF e = "CLIENT" THEN Key ELSE NoKey
  BY Zenon, NoKeyIs, PairAssumption
<1>2. PICK op \in 0..15, n \in Nat : op = OpOf(s) /\ n = Len(BodyOf(s))
  BY Zenon, OpIs, BodyIs
<1>3. PICK m \in BOOLEAN : m <=> e = "CLIENT"
  BY Zenon
<1>4. 0 \in 0..7
  BY SMT
<1>5. h = [fin |-> TRUE, rsv |-> 0, opcode |-> op, masked |-> m, payload_len |-> n,
           mask_key |-> key]
  BY Zenon, <1>1, <1>2, <1>3 DEF HeaderOf
<1>6. h \in Header
  BY SMT, <1>4, <1>5 DEF Header
<1>7. /\ h.rsv = 0 /\ h.fin /\ h.opcode = op /\ h.payload_len = n /\ (h.masked <=> m)
      /\ h.mask_key = key
  BY SMT, <1>5
<1>8. QED
  BY Zenon, <1>1, <1>2, <1>3, <1>6, <1>7 DEF IsHeaderOf

\* One sequence after another.
IsBoth(c, a, b) ==
    /\ Len(c) = Len(a) + Len(b)
    /\ \A i \in 1..Len(a) : c[i] = a[i]
    /\ \A i \in 1..Len(b) : c[Len(a) + i] = b[i]

LEMMA Behind ==
    ASSUME NEW S, NEW a \in Seq(S), NEW b \in Seq(S)
    PROVE  a \o b \in Seq(S) /\ IsBoth(a \o b, a, b)
BY SMT DEF IsBoth

LEMMA KeyByteIs == ASSUME NEW i \in Int PROVE KeyByte(i) \in Byte
<1>1. (i - 1) % 4 \in 0..3
  BY SMT
<1>2. QED
  BY Zenon, <1>1, PairAssumption DEF KeyByte

IsMasked(m, e, b) ==
    \A i \in 1..Len(b) : m[i] = IF e = "CLIENT" THEN Xor(b[i], KeyByte(i)) ELSE b[i]

LEMMA MaskedIs ==
    ASSUME NEW e, NEW b \in Seq(Byte), NEW m, m = Masked(e, b)
    PROVE  m \in Seq(Byte) /\ Len(m) = Len(b) /\ IsMasked(m, e, b)
<1>1. PICK n \in Nat : n = Len(b) /\ b \in [1..n -> Byte]
  BY SMT
<1>2. ASSUME NEW i \in 1..n
      PROVE  (IF e = "CLIENT" THEN Xor(b[i], KeyByte(i)) ELSE b[i]) \in Byte
  <2>1. i \in Int
    BY SMT
  <2>2. b[i] \in Byte /\ KeyByte(i) \in Byte
    BY Zenon, <1>1, <2>1, KeyByteIs
  <2>3. QED
    BY Zenon, <2>2, XorByte
<1>3. m \in [1..n -> Byte]
  BY Zenon, <1>1, <1>2 DEF Masked
<1>4. m \in Seq(Byte) /\ Len(m) = n
  BY SMT, <1>3
<1>5. QED
  BY Zenon, <1>1, <1>4 DEF Masked, IsMasked

\* f is the frame with the header h of k bytes and the payload b.
IsFrame(f, h, k, b) ==
    /\ h \in Header /\ k \in 2..14 /\ b \in Seq(Byte) /\ f \in Seq(Byte)
    /\ k = Len(HeaderBytes(h)) /\ Len(b) = h.payload_len /\ Len(f) = k + Len(b)
    /\ \A i \in 1..k : f[i] = HeaderBytes(h)[i]
    /\ \A i \in 1..Len(b) : f[k + i] = OnWire(h, b, i)

LEMMA FrameIs ==
    ASSUME NEW e \in Role, NEW s \in Speech, NEW h, h = HeaderOf(e, s), NEW k,
           k = Len(HeaderBytes(h))
    PROVE  IsFrame(FrameOf(e, s), h, k, BodyOf(s))
<1>1. PICK b, f, m : b = BodyOf(s) /\ f = FrameOf(e, s) /\ m = Masked(e, b)
  BY Zenon
<1>2. /\ h \in Header /\ h.payload_len = Len(b) /\ (h.masked <=> e = "CLIENT")
      /\ h.mask_key = IF e = "CLIENT" THEN Key ELSE NoKey
  BY Zenon, <1>1, HeaderOfIs DEF IsHeaderOf
<1>3. b \in Seq(Byte)
  BY Zenon, <1>1, BodyIs
<1>4. HeaderBytes(h) \in Seq(Byte) /\ k \in 2..14
  BY Zenon, <1>2, HeaderLength
<1>5. m \in Seq(Byte) /\ Len(m) = Len(b) /\ IsMasked(m, e, b)
  BY Zenon, <1>1, <1>3, MaskedIs
<1>6. f = HeaderBytes(h) \o m
  BY Zenon, <1>1 DEF FrameOf
<1>7. f \in Seq(Byte) /\ IsBoth(f, HeaderBytes(h), m)
  BY Zenon, <1>4, <1>5, <1>6, Behind
<1>8. Len(f) = k + Len(b) /\ \A i \in 1..k : f[i] = HeaderBytes(h)[i]
  BY Zenon, <1>5, <1>7 DEF IsBoth
<1>9. ASSUME NEW i \in 1..Len(b) PROVE f[k + i] = OnWire(h, b, i)
  <2>1. f[k + i] = m[i]
    BY Zenon, <1>5, <1>7 DEF IsBoth
  <2>2. m[i] = OnWire(h, b, i)
    BY Zenon, <1>2, <1>5 DEF OnWire, IsMasked, KeyByte
  <2>3. QED
    BY Zenon, <2>1, <2>2
<1>10. QED
  BY Zenon, <1>1, <1>2, <1>3, <1>4, <1>7, <1>8, <1>9 DEF IsFrame

-----------------------------------------------------------------------------
(* Building it.                                                             *)

\* What build_frame makes, when it makes something.
LEMMA FrameBuilt ==
    ASSUME NEW c, NEW s \in Speech, NEW e, e = c.role, NEW out,
           out = build_frame(c, OpOf(s), BodyOf(s), Key, OutCap), out # << >>
    PROVE  out = FrameOf(e, s) /\ Sized(s)
<1>1. PICK h, b : h = HeaderOf(e, s) /\ b = BodyOf(s)
  BY Zenon
<1>2. PICK d : d = ws_build_header(h, OutCap)
  BY Zenon
<1>3. ~(d.rc < 0 \/ OutCap - d.rc < Len(b)) /\ out = d.bytes \o Masked(e, b)
  BY Zenon, <1>1, <1>2 DEF build_frame, HeaderOf, Masked, KeyByte
<1>4. d.bytes = HeaderBytes(h) /\ d.rc = hdr_len(h.payload_len) + (IF h.masked THEN 4 ELSE 0)
  <2>1. \/ d = [rc |-> WS_ERR_TOO_SMALL, bytes |-> << >>]
        \/ d = [rc |-> hdr_len(h.payload_len) + (IF h.masked THEN 4 ELSE 0),
                bytes |-> HeaderBytes(h)]
    BY Zenon, <1>2 DEF ws_build_header
  <2>2. CASE d = [rc |-> WS_ERR_TOO_SMALL, bytes |-> << >>]
    BY SMT, <1>3, <2>2 DEF WS_ERR_TOO_SMALL
  <2>3. QED
    BY SMT, <2>1, <2>2
<1>5. d.rc \in Nat
  BY SMT, <1>4 DEF hdr_len
<1>6. Len(b) <= OutCap
  <2>1. Len(b) \in Nat
    BY Zenon, <1>1, BodyIs
  <2>2. OutCap \in Nat
    BY SMT, OutCapAssumption
  <2>3. QED
    BY SMT, <1>3, <1>5, <2>1, <2>2
<1>7. QED
  BY Zenon, <1>1, <1>3, <1>4, <1>6 DEF FrameOf, Sized

\* What saying s does to the speaker.
Speaks(c, d, s) ==
    /\ ConnInv(d) /\ SameBuffers(c, d) /\ d.role = c.role /\ ws_lc_active(c)
    /\ IF s.type = "CLOSE" THEN c.state = "OPEN" /\ d.state = "CLOSING" ELSE d = c

LEMMA SendCloseIs ==
    ASSUME NEW c, NEW code, NEW out, out = build_frame(c, WS_OP_CLOSE, CodeBody(code), Key, OutCap)
    PROVE  ws_send_close(c, code, Key, OutCap) =
               IF c.state = "OPEN" /\ out # << >>
               THEN [conn |-> ws_lc_send_close(c), out |-> out]
               ELSE [conn |-> c, out |-> << >>]
BY SMT DEF ws_send_close, CodeBody

LEMMA BuiltIs ==
    ASSUME NEW c, ConnInv(c), NEW s \in Speech, NEW b, b = Built(c, s), b.out # << >>,
           NEW e, e = c.role
    PROVE  b.out = FrameOf(e, s) /\ Sized(s) /\ Speaks(c, b.conn, s)
<1>1. c \in Conn
  BY Zenon DEF ConnInv
<1>2. PICK out : out = build_frame(c, OpOf(s), BodyOf(s), Key, OutCap)
  BY Zenon
<1>3. /\ s.type = "CLOSE" => OpOf(s) = WS_OP_CLOSE
      /\ s.type = "PING" => OpOf(s) = WS_OP_PING
      /\ s.type = "PONG" => OpOf(s) = WS_OP_PONG
      /\ s.type = "MESSAGE" => OpOf(s) = s.op
      /\ s.type \in {"MESSAGE", "PING", "PONG", "CLOSE"}
  BY Zenon, OpIs, SpeechIs
<1>4. CASE s.type = "CLOSE"
  <2>1. PICK g : g = ws_send_close(c, s.close_code, Key, OutCap)
    BY Zenon
  <2>2. b = g /\ BodyOf(s) = CodeBody(s.close_code)
    BY Zenon, <1>4, <2>1 DEF Built, BodyOf
  <2>3. \/ c.state = "OPEN" /\ out # << >> /\ g = [conn |-> ws_lc_send_close(c), out |-> out]
        \/ g = [conn |-> c, out |-> << >>]
    BY Zenon, <1>2, <1>3, <1>4, <2>1, <2>2, SendCloseIs
  <2>4. /\ c.state = "OPEN" /\ out # << >> /\ g.out = out /\ g.conn = ws_lc_send_close(c)
    BY SMT, <2>2, <2>3
  <2>5. ConnInv(g.conn) /\ SameBuffers(c, g.conn)
    BY Zenon, <2>1, SendCloseOK
  <2>6. g.conn.state = "CLOSING"
    BY Zenon, <1>1, <2>4 DEF ws_lc_send_close, Conn
  <2>7. g.conn.role = c.role
    BY Zenon, <1>1, <2>4, RoleKept
  <2>8. b.out = FrameOf(e, s) /\ Sized(s)
    BY Zenon, <1>2, <2>2, <2>4, FrameBuilt
  <2>9. QED
    BY Zenon, <1>4, <2>2, <2>4, <2>5, <2>6, <2>7, <2>8 DEF Speaks, ws_lc_active
<1>5. CASE s.type # "CLOSE"
  <2>1. b = [conn |-> c, out |-> IF ws_lc_active(c) THEN out ELSE << >>]
    <3>1. BodyOf(s) = s.data
      BY Zenon, <1>5 DEF BodyOf
    <3>2. CASE s.type = "PONG"
      BY SMTT(30), <1>2, <1>3, <3>1, <3>2 DEF Built, ws_send_pong
    <3>3. CASE s.type = "PING"
      BY SMTT(30), <1>2, <1>3, <3>1, <3>3 DEF Built, ws_send_message
    <3>4. CASE s.type = "MESSAGE"
      BY SMTT(30), <1>2, <1>3, <3>1, <3>4 DEF Built, ws_send_message
    <3>5. QED
      BY Zenon, <1>3, <1>5, <3>2, <3>3, <3>4
  <2>2. ws_lc_active(c) /\ b.out = out /\ b.conn = c
    BY SMT, <2>1
  <2>3. b.out = FrameOf(e, s) /\ Sized(s)
    BY Zenon, <1>2, <2>2, FrameBuilt
  <2>4. SameBuffers(c, c)
    BY Zenon DEF SameBuffers
  <2>5. QED
    BY Zenon, <1>5, <2>2, <2>3, <2>4 DEF Speaks
<1>6. QED
  BY Zenon, <1>4, <1>5

-----------------------------------------------------------------------------
(* Receiving it.                                                            *)

LEMMA HighGrows ==
    ASSUME NEW a \in Nat, NEW b \in Nat, a <= b
    PROVE  High2(a) \in Nat /\ High2(b) \in Nat /\ High2(a) <= High2(b)
BY SMT DEF High2

LEMMA SizedIs ==
    ASSUME NEW n \in Nat, n <= OutCap PROVE Below63(n)
<1>1. OutCap \in Nat /\ Below63(OutCap)
  BY SMT, OutCapAssumption DEF Below63, High2
<1>2. PICK a \in Nat, b \in Nat : a = High2(n) /\ b = High2(OutCap) /\ a <= b
  BY Zenon, <1>1, HighGrows
<1>3. PICK c \in Nat, d \in Nat : c = High2(a) /\ d = High2(b) /\ c <= d
  BY Zenon, <1>2, HighGrows
<1>4. High2(c) \in Nat /\ High2(d) \in Nat /\ High2(c) <= High2(d)
  BY Zenon, <1>3, HighGrows
<1>5. High2(d) < 32768
  BY SMTT(30), <1>1, <1>2, <1>3 DEF Below63
<1>6. High2(c) < 32768
  BY SMT, <1>4, <1>5
<1>7. QED
  BY SMTT(30), <1>2, <1>3, <1>6 DEF Below63

\* Some of f is buffered and the rest is on its way.
Holding(c, w, f) ==
    /\ c.rx_len + Len(w) = Len(f)
    /\ \A i \in 1..c.rx_len : c.msg_buf[i - 1] = f[i]
    /\ \A i \in 1..Len(w) : w[i] = f[c.rx_len + i]

\* A frame whose length is below 2^63, as build_frame makes it.
IsSent(f, h, k, b) ==
    IsFrame(f, h, k, b) /\ h.rsv = 0 /\ Below63(h.payload_len) /\ (h.masked \/ h.mask_key = NoKey)

\* The parser stops at nothing but the header that was built.
LEMMA SentParses ==
    ASSUME NEW f, NEW h, NEW k, NEW b, IsSent(f, h, k, b)
    PROVE  /\ header_well_formed(h) => ws_parse_header(Buf(f), Len(f)) = Parsed(k, h)
           /\ ~header_well_formed(h) => ws_parse_header(Buf(f), Len(f)).rc = WS_ERR_PROTOCOL
<1>1. /\ h \in Header /\ k \in 2..14 /\ b \in Seq(Byte) /\ f \in Seq(Byte)
      /\ k = Len(HeaderBytes(h)) /\ Len(f) = k + Len(b) /\ h.rsv = 0 /\ Below63(h.payload_len)
      /\ \A i \in 1..k : f[i] = HeaderBytes(h)[i]
  BY Zenon DEF IsSent, IsFrame
<1>2. Len(f) \in Nat /\ Len(f) >= k
  BY SMT, <1>1
<1>3. StartsWith(Buf(f), HeaderBytes(h), k)
  <2>1. ASSUME NEW i \in 1..k PROVE Buf(f)[i - 1] = HeaderBytes(h)[i]
    <3>1. i - 1 \in 0..(Len(f) - 1) /\ i - 1 + 1 = i
      BY SMT, <1>1, <1>2
    <3>2. QED
      BY Zenon, <1>1, <3>1 DEF Buf
  <2>2. QED
    BY Zenon, <2>1 DEF StartsWith
<1>4. header_well_formed(h) => ws_parse_header(Buf(f), Len(f)) = Parsed(k, h)
  <2>1. header_well_formed(h) => WellFormed(h)
    BY Zenon, <1>1 DEF WellFormed, IsSent
  <2>2. QED
    BY Zenon, <1>1, <1>2, <1>3, <2>1, BuiltParses
<1>5. ~header_well_formed(h) => ws_parse_header(Buf(f), Len(f)).rc = WS_ERR_PROTOCOL
  BY Zenon, <1>1, <1>2, <1>3, BuiltRefused
<1>6. QED
  BY Zenon, <1>4, <1>5

\* What is held of it, until it is whole, and a header that is refused, are nothing ready.
LEMMA Waits ==
    ASSUME NEW c, ConnInv(c), c.msg_len = 0, NEW w \in Seq(Byte), NEW f, NEW h, NEW k, NEW b,
           IsSent(f, h, k, b), Holding(c, w, f), c.rx_len < Len(f) \/ ~header_well_formed(h)
    PROVE  ~frame_ready(c)
<1>1. PICK n \in Nat, m \in Nat : n = c.rx_len /\ m = Len(f) /\ n <= m
  <2>1. c.rx_len \in Nat
    BY Zenon, RawType
  <2>2. Len(w) \in Nat
    BY SMT
  <2>3. c.rx_len + Len(w) = Len(f)
    BY Zenon DEF Holding
  <2>4. Len(f) \in Nat /\ c.rx_len <= Len(f)
    BY SMTT(30), <2>1, <2>2, <2>3
  <2>5. QED
    BY Zenon, <2>1, <2>4
<1>2. PICK p : p = ws_parse_header(raw(c), n)
  BY Zenon
<1>3. ASSUME frame_ready(c) PROVE FALSE
  <2>1. p.rc > 0 /\ c.rx_len >= p.rc + p.h.payload_len
    BY Zenon, <1>1, <1>2, <1>3 DEF frame_ready
  <2>2. p.rc \in Nat
    BY Zenon, <1>1, <1>2, <1>3, ReadyFrame
  <2>3. p.rc # WS_ERR_NEED_MORE /\ p.rc # WS_ERR_PROTOCOL
    BY SMT, <2>1, <2>2 DEF WS_ERR_NEED_MORE, WS_ERR_PROTOCOL
  <2>4. Agree(raw(c), Buf(f), n)
    <3>1. ASSUME NEW i \in 0..(n - 1) PROVE Buf(f)[i] = raw(c)[i]
      <4>1. i \in 0..(m - 1) /\ i + 1 \in 1..n /\ c.msg_len + i = (i + 1) - 1
        BY SMT, <1>1
      <4>2. raw(c)[i] = f[i + 1]
        BY Zenon, <1>1, <4>1 DEF raw, Holding
      <4>3. Buf(f)[i] = f[i + 1]
        BY Zenon, <1>1, <4>1 DEF Buf
      <4>4. QED
        BY Zenon, <4>2, <4>3
    <3>2. QED
      BY Zenon, <3>1 DEF Agree
  <2>5. ws_parse_header(Buf(f), m) = p
    <3>1. n <= m
      BY Zenon, <1>1
    <3>2. QED
      BY SMTT(30), <1>2, <2>3, <2>4, <3>1, PrefixParses
  <2>6. header_well_formed(h)
    BY Zenon, <1>1, <2>3, <2>5, SentParses
  <2>7. p = Parsed(k, h)
    BY Zenon, <1>1, <2>5, <2>6, SentParses
  <2>8. p.rc = k /\ p.h = h
    BY SMT, <2>7 DEF Parsed
  <2>9. Len(f) = k + h.payload_len /\ k \in Nat /\ h.payload_len \in Nat
    <3>1. k \in 2..14 /\ Len(f) = k + Len(b) /\ Len(b) = h.payload_len /\ h \in Header
      BY Zenon DEF IsSent, IsFrame
    <3>2. k \in Nat
      BY SMT, <3>1
    <3>3. QED
      BY Zenon, <3>1, <3>2 DEF Header
  <2>10. n >= m
    BY SMTT(30), <1>1, <2>1, <2>8, <2>9
  <2>11. ~(n < m)
    BY SMT, <1>1, <2>10
  <2>12. QED
    BY Zenon, <1>1, <2>6, <2>11
<1>4. QED
  BY Zenon, <1>3

\* Whole, it is read as it was built.
LEMMA Whole ==
    ASSUME NEW c, ConnInv(c), c.msg_len = 0, NEW w \in Seq(Byte), NEW f, NEW h, NEW k, NEW b,
           IsSent(f, h, k, b), Holding(c, w, f), c.rx_len = Len(f), header_well_formed(h)
    PROVE  /\ ws_parse_header(raw(c), c.rx_len) = Parsed(k, h)
           /\ c.rx_len = k + h.payload_len /\ Arrived(c.msg_buf, k, h, b) /\ w = << >>
<1>1. /\ h \in Header /\ k \in 2..14 /\ k \in Nat /\ b \in Seq(Byte) /\ Len(b) \in Nat
      /\ Len(b) = h.payload_len /\ Len(f) = k + Len(b) /\ k = Len(HeaderBytes(h))
      /\ \A i \in 1..k : f[i] = HeaderBytes(h)[i]
      /\ \A i \in 1..Len(b) : f[k + i] = OnWire(h, b, i)
  <2>1. k \in 2..14 /\ b \in Seq(Byte)
    BY Zenon DEF IsSent, IsFrame
  <2>2. k \in Nat /\ Len(b) \in Nat
    BY SMT, <2>1
  <2>3. QED
    BY Zenon, <2>2 DEF IsSent, IsFrame
<1>2. PICK n \in Nat : n = c.rx_len /\ n = k + Len(b) /\ n >= k
  <2>1. k + Len(b) \in Nat /\ k + Len(b) >= k
    BY SMT, <1>1
  <2>2. QED
    BY Zenon, <1>1, <2>1
<1>3. \A i \in 1..n : c.msg_buf[i - 1] = f[i]
  BY Zenon, <1>2 DEF Holding
<1>4. ASSUME NEW i \in 1..k PROVE raw(c)[i - 1] = HeaderBytes(h)[i]
  <2>1. i \in 1..n /\ i - 1 \in 0..(n - 1) /\ c.msg_len + (i - 1) = i - 1
    BY SMT, <1>1, <1>2
  <2>2. QED
    BY Zenon, <1>1, <1>2, <1>3, <2>1 DEF raw
<1>5. ASSUME NEW i \in 1..Len(b) PROVE c.msg_buf[k + (i - 1)] = OnWire(h, b, i)
  <2>1. PICK j \in 1..n : j = k + i /\ j - 1 = k + (i - 1)
    BY SMT, <1>1, <1>2
  <2>2. c.msg_buf[j - 1] = f[j]
    BY Zenon, <1>3
  <2>3. f[j] = OnWire(h, b, i)
    BY Zenon, <1>1, <2>1
  <2>4. QED
    BY Zenon, <2>1, <2>2, <2>3
<1>6. ws_parse_header(raw(c), n) = Parsed(k, h)
  <2>1. StartsWith(raw(c), HeaderBytes(h), k)
    BY Zenon, <1>4 DEF StartsWith
  <2>2. WellFormed(h)
    BY Zenon, <1>1 DEF WellFormed, IsSent
  <2>3. QED
    BY Zenon, <1>1, <1>2, <2>1, <2>2, BuiltParses
<1>7. w = << >>
  <2>1. c.rx_len + Len(w) = Len(f)
    BY Zenon DEF Holding
  <2>2. QED
    BY SMT, <1>2, <2>1
<1>8. QED
  BY Zenon, <1>1, <1>2, <1>5, <1>6, <1>7 DEF Arrived

\* Nothing is UTF-8.
LEMMA NothingValid == NothingIsValid
<1>1. ASSUME NEW buf, NEW at \in Nat PROVE ws_utf8_valid(buf, at, 0)
  <2>1. 0 \in Nat /\ at \in at..at
    BY SMT
  <2>2. PICK v, n : n = at + 0 /\ IsLoop(v, buf, at, n) /\ ws_utf8_valid(buf, at, 0) = v[at]
    BY Zenon, <2>1, ValidLoop
  <2>3. n = at
    BY SMT, <2>2
  <2>4. v[at] = Step(v, buf, at, at)
    BY Zenon, <2>1, <2>2, <2>3 DEF IsLoop
  <2>5. Step(v, buf, at, at)
    BY ZenonT(60), StepEnds
  <2>6. QED
    BY Zenon, <2>2, <2>4, <2>5
<1>2. QED
  BY Zenon, <1>1 DEF NothingIsValid

\* The codes the peer lets through are those that may be sent.
LEMMA CodesAgree ==
    ASSUME NEW code \in UInt16 PROVE ws_close_code_sendable(code) <=> CodeAllowed(code)
BY SMT DEF ws_close_code_sendable, CodeAllowed, UInt16

LEMMA CodeAgain ==
    ASSUME NEW code \in UInt16 PROVE CodeIn(CodeBody(code)) = code
<1>1. PICK a \in Byte, b \in Byte : a = code \div 256 /\ b = code % 256
  BY SMT, CodeBytes
<1>2. << a, b >>[1] * 256 + << a, b >>[2] = a * 256 + b
  BY SMT
<1>3. a * 256 + b = code
  BY SMT, <1>1, CodeBytes
<1>4. QED
  BY SMTT(30), <1>1, <1>2, <1>3 DEF CodeIn, CodeBody

\* What the peer takes for an error whenever it is said.
Wrong(s) ==
    \/ s.type = "CLOSE" /\ ~CodeAllowed(s.close_code)
    \/ s.type \in {"PING", "PONG"} /\ Len(s.data) > 125
    \/ s.type = "MESSAGE" /\ s.op = WS_OP_TEXT /\ ~IsUtf8(s.data)

\* The parser refuses a control frame that is too long, and nothing else.
LEMMA WellFormedIs ==
    ASSUME NEW e \in Role, NEW s \in Speech, NEW h, h = HeaderOf(e, s)
    PROVE  header_well_formed(h) <=> ~(s.type \in {"PING", "PONG"} /\ Len(s.data) > 125)
<1>1. h.rsv = 0 /\ h.fin /\ h.opcode = OpOf(s) /\ h.payload_len = Len(BodyOf(s))
  BY Zenon, HeaderOfIs DEF IsHeaderOf
<1>2. s.type \in {"MESSAGE", "PING", "PONG", "CLOSE"} /\ s.close_code \in UInt16
  BY Zenon, SpeechIs
<1>3. header_well_formed(h)
          <=> (ws_classify_opcode(OpOf(s)) = "CONTROL" => Len(BodyOf(s)) <= 125)
  BY Zenon, <1>1 DEF header_well_formed
<1>4. CASE s.type = "MESSAGE"
  <2>1. OpOf(s) \in {WS_OP_TEXT, WS_OP_BIN}
    BY Zenon, <1>4, OpIs
  <2>2. ws_classify_opcode(OpOf(s)) # "CONTROL"
    BY SMT, <2>1 DEF ws_classify_opcode, WS_OP_CONT, WS_OP_TEXT, WS_OP_BIN, WS_OP_CLOSE,
                     WS_OP_PING, WS_OP_PONG
  <2>3. QED
    BY Zenon, <1>3, <1>4, <2>2
<1>5. CASE s.type = "CLOSE"
  <2>1. Len(BodyOf(s)) = 2
    BY Zenon, <1>2, <1>5, CodeBodyIs DEF BodyOf
  <2>2. Len(BodyOf(s)) <= 125
    BY SMT, <2>1
  <2>3. QED
    BY Zenon, <1>3, <1>5, <2>2
<1>6. CASE s.type \in {"PING", "PONG"}
  <2>1. OpOf(s) \in {WS_OP_PING, WS_OP_PONG} /\ BodyOf(s) = s.data
    BY Zenon, <1>6, OpIs DEF BodyOf
  <2>2. ws_classify_opcode(OpOf(s)) = "CONTROL"
    BY SMT, <2>1 DEF ws_classify_opcode, WS_OP_CONT, WS_OP_TEXT, WS_OP_BIN, WS_OP_CLOSE,
                     WS_OP_PING, WS_OP_PONG
  <2>3. Len(s.data) \in Nat
    BY Zenon, <2>1, BodyIs
  <2>4. Len(s.data) <= 125 <=> ~(Len(s.data) > 125)
    BY SMT, <2>3
  <2>5. QED
    BY Zenon, <1>3, <1>6, <2>1, <2>2, <2>4
<1>7. QED
  BY Zenon, <1>2, <1>4, <1>5, <1>6

\* What the application is told.
Told(r) == Says(r.ev.type, r.ev.op, EventData(r), r.ev.close_code)

\* One thing more is told, and all that arrived is consumed or an error is latched.
Tells(c, r, s) ==
    /\ Told(r) = s /\ r.ev.type = s.type /\ r.ev.type # "NONE"
    /\ r.conn.msg_len = 0 /\ r.conn.frag = "NONE" /\ r.conn.role = c.role
    /\ IF s = Failure THEN r.conn.failed ELSE ~r.conn.failed /\ r.conn.rx_len = 0

LEMMA FailureIs == Failure.type = "ERROR"
BY SMT DEF Failure, Says

LEMMA TellsHeard ==
    ASSUME NEW c, NEW r, NEW type \in {"MESSAGE", "PING", "PONG", "CLOSE"}, NEW op, NEW b, NEW code,
           Hears(c, r, type, op, b, code), NEW s, s = Says(type, op, b, code)
    PROVE  Tells(c, r, s)
<1>1. s.type = type
  BY SMT DEF Says
<1>2. s # Failure /\ type # "NONE"
  BY SMT, <1>1, FailureIs
<1>3. QED
  BY Zenon, <1>1, <1>2 DEF Tells, Told, Hears

LEMMA TellsRefused ==
    ASSUME NEW c, NEW r, Refuses(c, r) PROVE Tells(c, r, Failure)
BY Zenon, FailureIs DEF Tells, Told, Failure, Refuses

LEMMA BytesAre == \A x \in Byte : IsByte(x)
BY SMT DEF Byte, IsByte

\* Poll on the whole frame of s tells s, or an error.
LEMMA AnswerTells ==
    ASSUME NEW c, NEW r, NEW s \in Speech, Answers(c, r, OpOf(s), BodyOf(s)),
           ~(s.type \in {"PING", "PONG"} /\ Len(s.data) > 125)
    PROVE  Tells(c, r, IF Wrong(s) THEN Failure ELSE s)
<1>1. /\ s = Says(s.type, s.op, s.data, s.close_code)
      /\ s.type \in {"MESSAGE", "PING", "PONG", "CLOSE"}
      /\ s.op = WS_OP_TEXT \/ (s.type = "MESSAGE" /\ s.op = WS_OP_BIN)
      /\ s.data \in Seq(Byte) /\ (s.type = "CLOSE" => s.data = << >>)
      /\ s.close_code \in UInt16 /\ (s.type # "CLOSE" => s.close_code = 0)
  BY Zenon, SpeechIs
<1>2. CASE s.type = "CLOSE"
  <2>1. CodeIn(BodyOf(s)) = s.close_code
    BY Zenon, <1>1, <1>2, CodeAgain DEF BodyOf
  <2>2. ws_close_code_sendable(s.close_code) <=> ~Wrong(s)
    BY Zenon, <1>1, <1>2, CodesAgree DEF Wrong
  <2>3. OpOf(s) = WS_OP_CLOSE
    BY Zenon, <1>2, OpIs
  <2>4. IF Wrong(s) THEN Refuses(c, r) ELSE Hears(c, r, "CLOSE", WS_OP_TEXT, << >>, s.close_code)
    BY Zenon, <2>1, <2>2, <2>3 DEF Answers
  <2>5. s = Says("CLOSE", WS_OP_TEXT, << >>, s.close_code)
    BY Zenon, <1>1, <1>2
  <2>6. QED
    BY Zenon, <2>4, <2>5, TellsHeard, TellsRefused
<1>3. CASE s.type \in {"PING", "PONG"}
  <2>1. ~Wrong(s) /\ BodyOf(s) = s.data
    BY Zenon, <1>3 DEF Wrong, BodyOf
  <2>2. Hears(c, r, s.type, WS_OP_TEXT, s.data, 0)
    BY Zenon, <1>3, <2>1, OpIs DEF Answers
  <2>3. s = Says(s.type, WS_OP_TEXT, s.data, 0)
    BY Zenon, <1>1, <1>3
  <2>4. QED
    BY Zenon, <1>1, <2>1, <2>2, <2>3, TellsHeard
<1>4. CASE s.type = "MESSAGE"
  <2>1. OpOf(s) = s.op /\ s.op \in {WS_OP_TEXT, WS_OP_BIN} /\ BodyOf(s) = s.data
    BY Zenon, <1>4, OpIs DEF BodyOf
  <2>2. PICK buf : /\ Carries(buf, 0, s.data)
                   /\ IF s.op = WS_OP_TEXT /\ ~ws_utf8_valid(buf, 0, Len(s.data)) THEN Refuses(c, r)
                      ELSE Hears(c, r, "MESSAGE", s.op, s.data, 0)
    BY Zenon, <2>1 DEF Answers, Message
  <2>3. ws_utf8_valid(buf, 0, Len(s.data)) <=> IsUtf8(s.data)
    <3>1. PICK t \in Seq(Byte), n \in Nat : t = s.data /\ n = Len(t)
      <4>1. Len(s.data) \in Nat
        BY Zenon, <2>1, BodyIs
      <4>2. QED
        BY Zenon, <1>1, <4>1
    <3>2. ASSUME NEW k \in 1..n PROVE t[k] = buf[0 + (k - 1)] /\ IsByte(t[k])
      <4>1. t[k] = buf[0 + (k - 1)]
        BY Zenon, <2>2, <3>1 DEF Carries
      <4>2. t[k] \in Byte
        BY Zenon, <3>1, SeqItem
      <4>3. IsByte(t[k])
        BY Zenon, <4>2, BytesAre
      <4>4. QED
        BY Zenon, <4>1, <4>3
    <3>3. TextAt(buf, 0, t, n)
      BY Zenon, <3>2 DEF TextAt
    <3>4. 0 \in Nat
      BY SMT
    <3>5. ws_utf8_valid(buf, 0, n) <=> IsUtf8(t)
      BY Zenon, <3>1, <3>3, <3>4, ValidIsUtf8
    <3>6. QED
      BY Zenon, <3>1, <3>5
  <2>4. IF Wrong(s) THEN Refuses(c, r) ELSE Hears(c, r, "MESSAGE", s.op, s.data, 0)
    BY Zenon, <1>4, <2>2, <2>3 DEF Wrong
  <2>5. s = Says("MESSAGE", s.op, s.data, 0)
    BY Zenon, <1>1, <1>4
  <2>6. QED
    BY Zenon, <2>4, <2>5, TellsHeard, TellsRefused
<1>5. QED
  BY Zenon, <1>1, <1>2, <1>3, <1>4

\* The whole frame of s, and nothing else, is buffered: it is told, if the connection
\* still takes frames.
LEMMA PollTells ==
    ASSUME NEW e \in Role, NEW o \in Role, o # e, NEW s \in Speech, Sized(s), NEW c, ConnInv(c),
           c.role = e, c.msg_len = 0, c.frag = "NONE", ~c.failed, NEW w \in Seq(Byte),
           Holding(c, w, FrameOf(o, s)), frame_ready(c), NEW r, r = ws_conn_poll(c)
    PROVE  w = << >> /\ Tells(c, r, IF ws_lc_active(c) /\ ~Wrong(s) THEN s ELSE Failure)
<1>1. PICK f, h, k, b : /\ f = FrameOf(o, s) /\ h = HeaderOf(o, s)
                        /\ k = Len(HeaderBytes(h)) /\ b = BodyOf(s)
  BY Zenon
<1>2. /\ h \in Header /\ h.rsv = 0 /\ h.fin /\ h.opcode = OpOf(s) /\ h.payload_len = Len(b)
      /\ (h.masked <=> o = "CLIENT") /\ h.mask_key = IF o = "CLIENT" THEN Key ELSE NoKey
  <2>1. IsHeaderOf(h, o, s)
    BY Zenon, <1>1, HeaderOfIs
  <2>2. QED
    BY Zenon, <1>1, <2>1 DEF IsHeaderOf
<1>3. IsSent(f, h, k, b)
  <2>1. IsFrame(f, h, k, b)
    BY Zenon, <1>1, FrameIs
  <2>2. Len(b) \in Nat /\ Len(b) <= OutCap
    BY Zenon, <1>1, BodyIs DEF Sized
  <2>3. Below63(h.payload_len)
    BY Zenon, <1>2, <2>2, SizedIs
  <2>4. QED
    BY Zenon, <1>2, <2>1, <2>3 DEF IsSent
<1>4. Holding(c, w, f)
  BY Zenon, <1>1
<1>5. ~(c.rx_len < Len(f)) /\ header_well_formed(h)
  BY Zenon, <1>3, <1>4, Waits
<1>6. c.rx_len = Len(f)
  <2>1. c.rx_len \in Nat
    BY Zenon, RawType
  <2>2. c.rx_len + Len(w) = Len(f)
    BY Zenon, <1>4 DEF Holding
  <2>3. QED
    BY SMTT(30), <1>5, <2>1, <2>2
<1>7. /\ ws_parse_header(raw(c), c.rx_len) = Parsed(k, h)
      /\ c.rx_len = k + h.payload_len /\ Arrived(c.msg_buf, k, h, b) /\ w = << >>
  BY Zenon, <1>3, <1>4, <1>5, <1>6, Whole
<1>8. ~(s.type \in {"PING", "PONG"} /\ Len(s.data) > 125)
  BY Zenon, <1>1, <1>5, WellFormedIs
<1>9. mask_ok(c, h)
  BY Zenon, <1>2 DEF mask_ok, Role
<1>10. /\ h.opcode \in {WS_OP_TEXT, WS_OP_BIN, WS_OP_CLOSE, WS_OP_PING, WS_OP_PONG}
       /\ h.opcode = WS_OP_CLOSE => h.payload_len = 2
  <2>1. s.type \in {"MESSAGE", "PING", "PONG", "CLOSE"} /\ s.close_code \in UInt16
    BY Zenon, SpeechIs
  <2>2. WS_OP_CLOSE \notin {WS_OP_TEXT, WS_OP_BIN, WS_OP_PING, WS_OP_PONG}
    BY SMT DEF WS_OP_TEXT, WS_OP_BIN, WS_OP_CLOSE, WS_OP_PING, WS_OP_PONG
  <2>3. s.type = "CLOSE" => Len(b) = 2
    BY Zenon, <1>1, <2>1, CodeBodyIs DEF BodyOf
  <2>4. QED
    BY Zenon, <1>2, <2>1, <2>2, <2>3, OpIs
<1>11. k \in 2..14 /\ b \in Seq(Byte) /\ Len(b) = h.payload_len
  BY Zenon, <1>3 DEF IsSent, IsFrame
<1>12. IF ws_lc_active(c) THEN Answers(c, r, h.opcode, b) ELSE Refuses(c, r)
  <2>1. WholeFrame(c, h, k, b)
    BY Zenon, <1>2, <1>7, <1>9, <1>10, <1>11 DEF WholeFrame
  <2>2. QED
    BY Zenon, <2>1, NothingValid, PollHears
<1>13. CASE ws_lc_active(c)
  BY Zenon, <1>1, <1>2, <1>7, <1>8, <1>12, <1>13, AnswerTells
<1>14. CASE ~ws_lc_active(c)
  BY Zenon, <1>7, <1>12, <1>14, TellsRefused
<1>15. QED
  BY Zenon, <1>13, <1>14

-----------------------------------------------------------------------------
(* What was said and what was heard.                                        *)

\* The first n items of a are those of b.
Alike(a, b, n) == \A i \in 1..n : a[i] = b[i]

LEMMA Appended ==
    ASSUME NEW S, NEW q \in Seq(S), NEW x \in S
    PROVE  /\ Append(q, x) \in Seq(S) /\ Len(Append(q, x)) = Len(q) + 1 /\ Len(q) \in Nat
           /\ Append(q, x)[Len(q) + 1] = x /\ Alike(Append(q, x), q, Len(q))
BY SMT DEF Alike

LEMMA Started ==
    ASSUME NEW S, NEW q \in Seq(S), NEW n \in 0..Len(q)
    PROVE  /\ SubSeq(q, 1, n) \in Seq(S) /\ Len(SubSeq(q, 1, n)) = n
           /\ Alike(SubSeq(q, 1, n), q, n)
BY SMT DEF Alike

LEMMA SameItems ==
    ASSUME NEW S, NEW a \in Seq(S), NEW b \in Seq(S), Len(a) = Len(b), Alike(a, b, Len(a))
    PROVE  a = b
BY SMT DEF Alike

\* All of a sequence.
LEMMA WholeStart ==
    ASSUME NEW S, NEW q \in Seq(S) PROVE SubSeq(q, 1, Len(q)) = q
<1>1. Len(q) \in 0..Len(q)
  BY SMT
<1>2. QED
  BY SMTT(30), <1>1, Started, SameItems

\* What one more item leaves alone.
LEMMA StartKept ==
    ASSUME NEW S, NEW q \in Seq(S), NEW x \in S, NEW n \in 0..Len(q)
    PROVE  SubSeq(Append(q, x), 1, n) = SubSeq(q, 1, n)
<1>1. PICK t \in Seq(S) : t = Append(q, x) /\ Len(t) = Len(q) + 1 /\ Alike(t, q, Len(q))
  BY Zenon, Appended
<1>2. n \in 0..Len(t)
  BY SMT, <1>1
<1>3. PICK a \in Seq(S) : a = SubSeq(t, 1, n) /\ Len(a) = n /\ Alike(a, t, n)
  BY Zenon, <1>2, Started
<1>4. PICK b \in Seq(S) : b = SubSeq(q, 1, n) /\ Len(b) = n /\ Alike(b, q, n)
  BY Zenon, Started
<1>5. Alike(a, b, n)
  BY SMTT(30), <1>1, <1>3, <1>4 DEF Alike
<1>6. a = b
  BY Zenon, <1>3, <1>4, <1>5, SameItems
<1>7. QED
  BY Zenon, <1>1, <1>3, <1>4, <1>6

\* All but the last.
Before(q) == SubSeq(q, 1, Len(q) - 1)

LEMMA LastApart ==
    ASSUME NEW S, NEW q \in Seq(S), q # << >>
    PROVE  /\ Len(q) \in Nat \ {0} /\ Before(q) \in Seq(S) /\ Len(Before(q)) = Len(q) - 1
           /\ q[Len(q)] \in S /\ Alike(Before(q), q, Len(q) - 1)
           /\ Append(Before(q), q[Len(q)]) = q
<1>1. Len(q) \in Nat \ {0} /\ q[Len(q)] \in S /\ Len(q) - 1 \in 0..Len(q)
  BY SMT
<1>2. PICK a \in Seq(S), n \in Nat : /\ a = Before(q) /\ n = Len(q) - 1 /\ Len(a) = n
                                     /\ Alike(a, q, n)
  <2>1. Len(q) - 1 \in Nat
    BY SMT, <1>1
  <2>2. QED
    BY Zenon, <1>1, <2>1, Started DEF Before
<1>3. PICK x \in S : x = q[Len(q)]
  BY Zenon, <1>1
<1>4. PICK t \in Seq(S) : /\ t = Append(a, x) /\ Len(t) = Len(a) + 1 /\ t[Len(a) + 1] = x
                          /\ Alike(t, a, Len(a))
  BY Zenon, Appended
<1>5. n + 1 = Len(q) /\ Len(t) = Len(q)
  BY SMTT(30), <1>1, <1>2, <1>4
<1>6. Alike(t, q, Len(t))
  BY SMTT(30), <1>2, <1>3, <1>4, <1>5 DEF Alike
<1>7. t = q
  BY Zenon, <1>4, <1>5, <1>6, SameItems
<1>8. QED
  BY Zenon, <1>1, <1>2, <1>3, <1>4, <1>7

LEMMA BeforeAppended ==
    ASSUME NEW S, NEW q \in Seq(S), NEW x \in S PROVE Before(Append(q, x)) = q
<1>1. PICK t \in Seq(S) : t = Append(q, x) /\ Len(t) = Len(q) + 1
  BY Zenon, Appended
<1>2. Len(t) - 1 = Len(q) /\ Len(q) \in 0..Len(q)
  BY SMT, <1>1
<1>3. Before(t) = SubSeq(t, 1, Len(q))
  BY Zenon, <1>2 DEF Before
<1>4. SubSeq(t, 1, Len(q)) = SubSeq(q, 1, Len(q))
  BY Zenon, <1>1, <1>2, StartKept
<1>5. QED
  BY Zenon, <1>1, <1>3, <1>4, WholeStart

\* A Close is among what was said or heard.
SaysClose(q) == \E i \in 1..Len(q) : q[i].type = "CLOSE"

LEMMA CloseAppended ==
    ASSUME NEW S, NEW q \in Seq(S), NEW x \in S
    PROVE  SaysClose(Append(q, x)) <=> SaysClose(q) \/ x.type = "CLOSE"
<1>1. PICK t : t = Append(q, x)
  BY Zenon
<1>2. Len(t) = Len(q) + 1 /\ Len(q) \in Nat /\ t[Len(q) + 1] = x /\ Alike(t, q, Len(q))
  BY Zenon, <1>1, Appended
<1>3. 1..Len(t) = 1..Len(q) \cup {Len(q) + 1}
  BY SMT, <1>2
<1>4. QED
  BY Zenon, <1>1, <1>2, <1>3 DEF SaysClose, Alike

\* The first n items are no misuse.
LawfulTo(q, n) == \A i \in 1..n : ~Misused(q, i)

\* Misuse depends on what was said before.
LEMMA MisusedIs ==
    ASSUME NEW q, NEW i
    PROVE  Misused(q, i) <=> Wrong(q[i]) \/ \E j \in 1..(i - 1) : q[j].type = "CLOSE"
BY Zenon DEF Misused, Wrong

LEMMA MisusedAlike ==
    ASSUME NEW a, NEW b, NEW n \in Nat, Alike(a, b, n), NEW i \in 1..n
    PROVE  Misused(a, i) <=> Misused(b, i)
<1>1. a[i] = b[i]
  BY Zenon DEF Alike
<1>2. 1..(i - 1) \subseteq 1..n
  BY SMT
<1>3. \A j \in 1..(i - 1) : a[j] = b[j]
  BY Zenon, <1>2 DEF Alike
<1>4. QED
  BY Zenon, <1>1, <1>3, MisusedIs

LEMMA LawfulAlike ==
    ASSUME NEW a, NEW b, NEW n \in Nat, Alike(a, b, n) PROVE LawfulTo(a, n) <=> LawfulTo(b, n)
BY Zenon, MisusedAlike DEF LawfulTo

\* The last item is a misuse by itself, or a Close was said before it.
LEMMA LastMisused ==
    ASSUME NEW S, NEW q \in Seq(S), q # << >>
    PROVE  Misused(q, Len(q)) <=> Wrong(q[Len(q)]) \/ SaysClose(Before(q))
<1>1. Len(Before(q)) = Len(q) - 1 /\ Alike(Before(q), q, Len(q) - 1)
  BY Zenon, LastApart
<1>2. SaysClose(Before(q)) <=> \E j \in 1..(Len(q) - 1) : q[j].type = "CLOSE"
  BY Zenon, <1>1 DEF SaysClose, Alike
<1>3. QED
  BY Zenon, <1>2, MisusedIs

\* How much of q is lawful.
LawfulPart(q, k) == /\ \A i \in 1..k : ~Misused(q, i)
                    /\ k < Len(q) => Misused(q, k + 1)

LEMMA LawfulIs ==
    ASSUME NEW S, NEW q \in Seq(S), NEW n \in 0..Len(q), LawfulPart(q, n)
    PROVE  Lawful(q) = SubSeq(q, 1, n)
<1>1. PICK m \in 0..Len(q) : m = CHOOSE k \in 0..Len(q) : LawfulPart(q, k)
  BY Zenon
<1>2. LawfulPart(q, m)
  BY Zenon, <1>1
<1>3. Lawful(q) = SubSeq(q, 1, m)
  BY Zenon, <1>1 DEF Lawful, LawfulPart
<1>4. Len(q) \in Nat
  BY SMT
<1>5. ~(m < n)
  <2>1. SUFFICES ASSUME m < n PROVE FALSE
    BY Zenon
  <2>2. m < Len(q) /\ m + 1 \in 1..n
    BY SMTT(30), <1>4, <2>1
  <2>3. QED
    BY Zenon, <1>2, <2>2 DEF LawfulPart
<1>6. ~(n < m)
  <2>1. SUFFICES ASSUME n < m PROVE FALSE
    BY Zenon
  <2>2. n < Len(q) /\ n + 1 \in 1..m
    BY SMTT(30), <1>4, <2>1
  <2>3. QED
    BY Zenon, <1>2, <2>2 DEF LawfulPart
<1>7. m = n
  BY SMTT(30), <1>4, <1>5, <1>6
<1>8. QED
  BY Zenon, <1>3, <1>7
=============================================================================
