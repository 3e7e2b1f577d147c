------------------------------- MODULE WsUtf8 -------------------------------
(***************************************************************************)
(* UTF-8 validation as src/framing/utf8.c does it: classify the lead byte, *)
(* check the first continuation byte against a guarded range and the rest  *)
(* against the plain one, and step over the sequence.  Every operator reads*)
(* the len bytes of the buffer data that start at offset at.               *)
(***************************************************************************)
EXTENDS Integers

\* kContCount: continuation bytes that follow a lead byte, 255 when none may.
kContCount(b) ==
    CASE b \in 0..127 -> 0
      [] b \in 194..223 -> 1
      [] b \in 224..239 -> 2
      [] b \in 240..244 -> 3
      [] OTHER -> 255

\* Slip: the overlong three-byte forms are let through.
first_lo_overlong(b0) == IF b0 = 240 THEN 144 ELSE 128

\* Bounds on the first continuation byte: no overlong form, no surrogate,
\* nothing above U+10FFFF.
first_lo(b0) == CASE b0 = 224 -> 160 [] b0 = 240 -> 144 [] OTHER -> 128
first_hi(b0) == CASE b0 = 237 -> 159 [] b0 = 244 -> 143 [] OTHER -> 191

tail_ok(data, i, cont) ==
    /\ data[i + 1] \in first_lo(data[i])..first_hi(data[i])
    /\ \A k \in 2..cont : data[i + k] \in 128..191

decode_step(data, end, i) ==
    LET cont == kContCount(data[i])
    IN  /\ cont # 255
        /\ i + 1 + cont <= end
        /\ cont = 0 \/ tail_ok(data, i, cont)

ws_utf8_valid(data, at, len) ==
    LET end == at + len
        valid_from[i \in at..end] ==
            \/ i = end
            \/ decode_step(data, end, i) /\ valid_from[i + 1 + kContCount(data[i])]
    IN  valid_from[at]
=============================================================================
