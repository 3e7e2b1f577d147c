------------------------------ MODULE WsAccept ------------------------------
(***************************************************************************)
(* The answer to a handshake key: SHA-1 (src/crypto/sha1.c), base64        *)
(* (src/crypto/base64.c) and ws_handshake_accept                           *)
(* (src/framing/handshake.c).                                              *)
(*                                                                         *)
(* A uint32_t is the set of the positions of its one bits, so the bitwise  *)
(* operators are the set operators.  A byte string is a sequence.          *)
(***************************************************************************)
EXTENDS Integers, Sequences, FiniteSetsExt

Bits == 0..31

\* Four bytes, most significant first, as a word; and byte j of a word.
Word(b) == {i \in Bits : (b[4 - (i \div 8)] \div 2^(i % 8)) % 2 = 1}
ByteOf(w, j) == MapThenSumSet(LAMBDA i : 2^(i % 8), {i \in w : i \div 8 = 3 - j})

Not(x) == Bits \ x
Xor(x, y) == (x \cup y) \ (x \cap y)

\* x + y modulo 2^32: the carries are added again until none is left.
RECURSIVE Plus(_, _)
Plus(x, y) ==
    IF y = {} THEN x ELSE Plus(Xor(x, y), {i + 1 : i \in x \cap y} \cap Bits)

rotl32(x, n) == {(i + n) % 32 : i \in x}

\* Slip: a digit of the second constant is wrong.
kK_typo == << Word(<< \h5A, \h82, \h79, \h99 >>), Word(<< \h6E, \hD9, \hEB, \hB1 >>),
              Word(<< \h8F, \h1B, \hBC, \hDC >>), Word(<< \hCA, \h62, \hC1, \hD6 >>) >>

kK == << Word(<< \h5A, \h82, \h79, \h99 >>), Word(<< \h6E, \hD9, \hEB, \hA1 >>),
         Word(<< \h8F, \h1B, \hBC, \hDC >>), Word(<< \hCA, \h62, \hC1, \hD6 >>) >>

H0 == << Word(<< \h67, \h45, \h23, \h01 >>), Word(<< \hEF, \hCD, \hAB, \h89 >>),
         Word(<< \h98, \hBA, \hDC, \hFE >>), Word(<< \h10, \h32, \h54, \h76 >>),
         Word(<< \hC3, \hD2, \hE1, \hF0 >>) >>

round_f(stage, b, c, d) ==
    CASE stage = 0 -> (b \cap c) \cup (Not(b) \cap d)
      [] stage = 2 -> (b \cap c) \cup (b \cap d) \cup (c \cap d)
      [] OTHER -> Xor(Xor(b, c), d)

\* The schedule; w[i] of the code is w[i + 1].
RECURSIVE expand_from(_)
expand_from(w) ==
    LET i == Len(w)
    IN  IF i = 80 THEN w
        ELSE expand_from(Append(w, rotl32(Xor(Xor(w[i - 2], w[i - 7]), Xor(w[i - 13], w[i - 15])), 1)))

expand(blk) == expand_from([i \in 1..16 |-> Word(SubSeq(blk, 4 * i - 3, 4 * i))])

\* The loop of compress from round r.i on.
RECURSIVE rounds(_, _)
rounds(r, w) ==
    LET stage == r.i \div 20
        t == Plus(Plus(Plus(rotl32(r.a, 5), round_f(stage, r.b, r.c, r.d)), r.e),
                  Plus(w[r.i + 1], kK[stage + 1]))
    IN  IF r.i = 80 THEN r
        ELSE rounds([i |-> r.i + 1, a |-> t, b |-> r.a, c |-> rotl32(r.b, 30), d |-> r.c, e |-> r.d], w)

compress(h, blk) ==
    LET r == rounds([i |-> 0, a |-> h[1], b |-> h[2], c |-> h[3], d |-> h[4], e |-> h[5]], expand(blk))
    IN  << Plus(h[1], r.a), Plus(h[2], r.b), Plus(h[3], r.c), Plus(h[4], r.d), Plus(h[5], r.e) >>

\* n consecutive blocks of buf.
RECURSIVE compress_n(_, _, _)
compress_n(h, buf, n) ==
    IF n = 0 THEN h
    ELSE compress_n(compress(h, SubSeq(buf, 1, 64)), SubSeq(buf, 65, Len(buf)), n - 1)

\* Slip: a tail of 56 bytes is thought to leave room for the length.
blocks_needed_late(rem) == IF rem > 56 THEN 2 ELSE 1

blocks_needed(rem) == IF rem >= 56 THEN 2 ELSE 1

\* The last block or two: the tail, 0x80, zeros and the length in bits, big-endian.
\* The array has 128 bytes whatever the number of blocks used.
finalize(tail, bits) ==
    LET rem == Len(tail)
        lenp == blocks_needed(rem) * 64 - 8
        shift(i) == IF i < 5 THEN 0 ELSE (bits \div 2^(56 - 8 * i)) % 256
    IN  [i \in 1..128 |-> CASE i \in (lenp + 1)..(lenp + 8) -> shift(i - lenp - 1)
                            [] i <= rem -> tail[i]
                            [] i = rem + 1 -> \h80
                            [] OTHER -> 0]

emit(h) == [i \in 1..20 |-> ByteOf(h[((i - 1) \div 4) + 1], (i - 1) % 4)]

ws_sha1(msg) ==
    LET full == Len(msg) \div 64
        tail == SubSeq(msg, full * 64 + 1, Len(msg))
        last == finalize(tail, Len(msg) * 8)
    IN  emit(compress_n(compress_n(H0, msg, full), last, blocks_needed(Len(tail))))

-----------------------------------------------------------------------------
(* base64.c: the alphabet as character codes; 61 is '='.                    *)

kB64(v) == CASE v < 26 -> 65 + v
             [] v \in 26..51 -> 71 + v
             [] v \in 52..61 -> v - 4
             [] v = 62 -> 43
             [] v = 63 -> 47

enc3(b) ==
    LET v == b[1] * 65536 + b[2] * 256 + b[3]
    IN  [i \in 1..4 |-> kB64((v \div 2^(24 - 6 * i)) % 64)]

\* Slip: one '=' whatever is left over.
enc_tail_onePad(in) ==
    LET out == enc3([i \in 1..3 |-> IF i <= Len(in) THEN in[i] ELSE 0])
    IN  [out EXCEPT ![4] = 61]

enc_tail(in) ==
    LET out == enc3([i \in 1..3 |-> IF i <= Len(in) THEN in[i] ELSE 0])
    IN  [out EXCEPT ![4] = 61, ![3] = IF Len(in) = 1 THEN 61 ELSE @]

RECURSIVE ws_base64(_)
ws_base64(in) ==
    CASE Len(in) >= 3 -> enc3(in) \o ws_base64(SubSeq(in, 4, Len(in)))
      [] Len(in) = 0 -> << >>
      [] OTHER -> enc_tail(in)

-----------------------------------------------------------------------------
(* handshake.c: a key too long for the fixed buffer is refused, here << >>. *)

kGuid == << 50, 53, 56, 69, 65, 70, 65, 53, 45, 69, 57, 49, 52, 45, 52, 55, 68, 65, 45,
            57, 53, 67, 65, 45, 67, 53, 65, 66, 48, 68, 67, 56, 53, 66, 49, 49 >>

WS_KEY_MAX == 64

\* Slip: a key that just fills the buffer is refused.
ws_handshake_accept_less(key) ==
    IF Len(key) >= WS_KEY_MAX THEN << >> ELSE ws_base64(ws_sha1(key \o kGuid))

ws_handshake_accept(key) ==
    IF Len(key) > WS_KEY_MAX THEN << >> ELSE ws_base64(ws_sha1(key \o kGuid))
=============================================================================
