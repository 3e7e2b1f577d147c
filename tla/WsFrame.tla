------------------------------ MODULE WsFrame ------------------------------
(***************************************************************************)
(* The byte core of libws: frame header parser and builder, opcode classes,*)
(* close codes (src/framing/frame.c) and masking (src/util/mask.c).        *)
(* C buffers are functions on 0..n-1; bytes on their way out are sequences.*)
(* C's 64-bit lengths stay below 2^63: the parser rejects the rest on the  *)
(* top bit, which is tested on the byte that holds it.                     *)
(***************************************************************************)
EXTENDS Integers, Sequences

Byte == 0..255
UInt16 == {n \in Nat : n < 65536}

WS_ERR_NEED_MORE == -1
WS_ERR_PROTOCOL == -2
WS_ERR_TOO_SMALL == -3

WS_OP_CONT == 0
WS_OP_TEXT == 1
WS_OP_BIN == 2
WS_OP_CLOSE == 8
WS_OP_PING == 9
WS_OP_PONG == 10

\* ws_frame_header: mask_key is all zero in a header that carries none.
Header == [fin : BOOLEAN, rsv : 0..7, opcode : 0..15, masked : BOOLEAN,
           payload_len : Nat, mask_key : [0..3 -> Byte]]

NoKey == [i \in 0..3 |-> 0]

ws_close_code_sendable(code) ==
    \/ code \in 1000..1011 /\ code \notin {1004, 1005, 1006}
    \/ code \in 3000..4999

ws_classify_opcode(opcode) ==
    CASE opcode % 16 \in {WS_OP_CONT, WS_OP_TEXT, WS_OP_BIN} -> "DATA"
      [] opcode % 16 \in {WS_OP_CLOSE, WS_OP_PING, WS_OP_PONG} -> "CONTROL"
      [] OTHER -> "RESERVED"

-----------------------------------------------------------------------------
(* Masking: the exclusive or of two bytes, bit by bit, and ws_mask over the *)
(* len bytes of a buffer that start at offset at.                           *)

Xor(a, b) ==
    LET bit(w) == IF (a \div w) % 2 = (b \div w) % 2 THEN 0 ELSE w
    IN  bit(1) + bit(2) + bit(4) + bit(8) + bit(16) + bit(32) + bit(64) + bit(128)

\* Slip: the key is cycled by buffer offset instead of payload offset.
ws_mask_byOffset(buf, at, len, key) ==
    [i \in DOMAIN buf |-> IF i \in at..(at + len - 1) THEN Xor(buf[i], key[i % 4]) ELSE buf[i]]

ws_mask(buf, at, len, key) ==
    [i \in DOMAIN buf |-> IF i \in at..(at + len - 1)
                          THEN Xor(buf[i], key[(i - at) % 4])
                          ELSE buf[i]]

-----------------------------------------------------------------------------
(* Parsing. read_be is unrolled for the two widths the parser reads.        *)

read_be(buf, n) ==
    LET be2(i) == buf[i] * 256 + buf[i + 1]
        be4(i) == be2(i) * 65536 + be2(i + 2)
    IN  IF n = 2 THEN be2(2) ELSE be4(2) * 65536 * 65536 + be4(6)

ext_bytes(l7) == CASE l7 = 126 -> 2 [] l7 = 127 -> 8 [] OTHER -> 0

raw_len(buf, ext) == IF ext = 0 THEN buf[1] % 128 ELSE read_be(buf, ext)

\* Slip: the shortest-form test of the 16-bit length is off by one.
len_ok_offByOne(buf, ext) ==
    \/ ext = 0
    \/ ext = 2 /\ raw_len(buf, ext) >= 125
    \/ ext = 8 /\ buf[2] < 128 /\ raw_len(buf, ext) > 65535

\* Shortest form only; the 64-bit form with its top bit clear.
len_ok(buf, ext) ==
    \/ ext = 0
    \/ ext = 2 /\ raw_len(buf, ext) >= 126
    \/ ext = 8 /\ buf[2] < 128 /\ raw_len(buf, ext) > 65535

fill_fields(buf, plen) ==
    [fin |-> buf[0] >= 128, rsv |-> (buf[0] \div 16) % 8, opcode |-> buf[0] % 16,
     masked |-> buf[1] >= 128, payload_len |-> plen, mask_key |-> NoKey]

header_well_formed(h) ==
    /\ h.rsv = 0
    /\ ws_classify_opcode(h.opcode) = "CONTROL" => h.payload_len <= 125 /\ h.fin

Parsed(rc, h) == [rc |-> rc, h |-> h]

\* Slip: a key that has not arrived is taken for a protocol error.
parse_mask_hasty(buf, len, hdr, h) ==
    IF ~h.masked THEN Parsed(hdr, h)
    ELSE IF len < hdr + 4 THEN Parsed(WS_ERR_PROTOCOL, h)
    ELSE Parsed(hdr + 4, [h EXCEPT !.mask_key = [i \in 0..3 |-> buf[hdr + i]]])

parse_mask(buf, len, hdr, h) ==
    IF ~h.masked THEN Parsed(hdr, h)
    ELSE IF len < hdr + 4 THEN Parsed(WS_ERR_NEED_MORE, h)
    ELSE Parsed(hdr + 4, [h EXCEPT !.mask_key = [i \in 0..3 |-> buf[hdr + i]]])

\* The result of a parse that fails before the header's fields are filled in.
Unparsed(rc) == Parsed(rc, fill_fields([i \in 0..1 |-> 0], 0))

\* rc is the header's byte count, or the negative status of a parse that stops.
ws_parse_header(buf, len) ==
    IF len < 2 THEN Unparsed(WS_ERR_NEED_MORE)
    ELSE LET ext == ext_bytes(buf[1] % 128)
             h == fill_fields(buf, raw_len(buf, ext))
         IN  IF len < 2 + ext THEN Unparsed(WS_ERR_NEED_MORE)
             ELSE IF ~len_ok(buf, ext) THEN Unparsed(WS_ERR_PROTOCOL)
             ELSE IF ~header_well_formed(h) THEN Parsed(WS_ERR_PROTOCOL, h)
             ELSE parse_mask(buf, len, 2 + ext, h)

-----------------------------------------------------------------------------
(* Building: the header's bytes, or WS_ERR_TOO_SMALL when they exceed cap.  *)

write_be(v, n) ==
    LET shifted[i \in 0..(n - 1)] == IF i = 0 THEN v ELSE shifted[i - 1] \div 256
    IN  [i \in 1..n |-> shifted[n - i] % 256]

\* Slip: 126 is written in the 7-bit form.
hdr_len_offByOne(plen) == IF plen <= 126 THEN 2 ELSE IF plen <= 65535 THEN 4 ELSE 10

hdr_len(plen) == IF plen < 126 THEN 2 ELSE IF plen <= 65535 THEN 4 ELSE 10

len_field(plen) == CASE hdr_len(plen) = 2 -> plen
                     [] hdr_len(plen) = 4 -> 126
                     [] OTHER -> 127

HighBit(flag) == IF flag THEN 128 ELSE 0

HeaderBytes(h) ==
    << HighBit(h.fin) + (h.opcode % 16), HighBit(h.masked) + len_field(h.payload_len) >>
    \o write_be(h.payload_len, hdr_len(h.payload_len) - 2)
    \o (IF h.masked THEN [i \in 1..4 |-> h.mask_key[i - 1]] ELSE << >>)

ws_build_header(h, cap) ==
    LET need == hdr_len(h.payload_len) + (IF h.masked THEN 4 ELSE 0)
    IN  IF cap < need THEN [rc |-> WS_ERR_TOO_SMALL, bytes |-> << >>]
        ELSE [rc |-> need, bytes |-> HeaderBytes(h)]
=============================================================================
