----------------------------- MODULE AcceptRef -----------------------------
(***************************************************************************)
(* What WsAccept computes, from the standards: SHA-1 by the second method  *)
(* of RFC 3174 (6.2, a ring of sixteen words) over the padded message of   *)
(* its section 4, and base64 as RFC 4648 defines it, six bits at a time of *)
(* the input read as one string of bits.  The arithmetic of words is the   *)
(* one of WsAccept.                                                        *)
(***************************************************************************)
EXTENDS WsAccept

Zeros(n) == [i \in 1..n |-> 0]

\* The least number of zeros that makes whole blocks of the message, the byte 0x80
\* and the eight bytes of length.
Padded(msg) ==
    LET n == Len(msg)
        k == CHOOSE z \in 0..63 : (n + 1 + z + 8) % 64 = 0
    IN  msg \o << \h80 >> \o Zeros(k) \o Zeros(6) \o << (8 * n) \div 256, (8 * n) % 256 >>

RfcF(t, b, c, d) ==
    CASE t \in 0..19 -> {i \in Bits : IF i \in b THEN i \in c ELSE i \in d}
      [] t \in 40..59 -> {i \in Bits : Cardinality({<< 1, i \in b >>, << 2, i \in c >>, << 3, i \in d >>}
                                                       \cap ((1..3) \X {TRUE})) >= 2}
      [] OTHER -> {i \in Bits : (i \in b) # ((i \in c) # (i \in d))}

\* Step r.t of 6.2 and those after it: v is the words A to E, w the ring.
RECURSIVE Ring(_)
Ring(r) ==
    LET s == r.t % 16
        at(k) == r.w[((s + k) % 16) + 1]
        ws == IF r.t < 16 THEN at(0) ELSE rotl32(Xor(Xor(at(13), at(8)), Xor(at(2), at(0))), 1)
        temp == Plus(Plus(Plus(rotl32(r.v[1], 5), RfcF(r.t, r.v[2], r.v[3], r.v[4])),
                          Plus(r.v[5], ws)), kK[(r.t \div 20) + 1])
    IN  IF r.t = 80 THEN r.v
        ELSE Ring([t |-> r.t + 1, v |-> << temp, r.v[1], rotl32(r.v[2], 30), r.v[3], r.v[4] >>,
                   w |-> [r.w EXCEPT ![s + 1] = ws]])

RECURSIVE Digest(_, _)
Digest(h, padded) ==
    LET block == [i \in 1..16 |-> Word(SubSeq(padded, 4 * i - 3, 4 * i))]
        v == Ring([t |-> 0, v |-> h, w |-> block])
    IN  IF padded = << >> THEN h
        ELSE Digest([i \in 1..5 |-> Plus(h[i], v[i])], SubSeq(padded, 65, Len(padded)))

Sha1Ref(msg) ==
    LET h == Digest(H0, Padded(msg))
    IN  [i \in 1..20 |-> ByteOf(h[((i - 1) \div 4) + 1], (i - 1) % 4)]

\* Bit k, from 0, of the input read as one string of bits with zeros after it.
BitAt(in, k) ==
    IF k \div 8 < Len(in) THEN (in[(k \div 8) + 1] \div 2^(7 - (k % 8))) % 2 ELSE 0

Base64Ref(in) ==
    LET digits == (8 * Len(in) + 5) \div 6
        digit(j) == MapThenSumSet(LAMBDA k : BitAt(in, 6 * j + k) * 2^(5 - k), 0..5)
    IN  [j \in 1..(4 * ((Len(in) + 2) \div 3)) |-> IF j <= digits THEN kB64(digit(j - 1)) ELSE 61]
=============================================================================
