------------------------------ MODULE WsCodec ------------------------------
(***************************************************************************)
(* The header parser on a byte stream: bytes arrive one at a time and      *)
(* ws_parse_header is applied to whatever is there, as frame_ready does on *)
(* every poll.  Bytes(got) is the set of bytes that may come next.         *)
(***************************************************************************)
EXTENDS WsFrame

CONSTANTS Bytes(_), \* the bytes that may follow those already received
          MaxBytes, \* the longest prefix explored
          Lengths   \* payload lengths a sender may use

ASSUME LengthsAssumption == Lengths \subseteq Nat

VARIABLE got \* the bytes received so far

CodecInit == got = << >>

Arrive ==
    /\ Len(got) < MaxBytes
    /\ \E b \in Bytes(got) \intersect Byte : got' = Append(got, b)

\* The stream of a frame header is finite: a full prefix stays as it is.
Done == Len(got) = MaxBytes /\ UNCHANGED got

CodecNext == Arrive \/ Done

CodecSpec == CodecInit /\ [][CodecNext]_got

-----------------------------------------------------------------------------
Buf(s) == [i \in 0..(Len(s) - 1) |-> s[i + 1]]
Parse(s) == ws_parse_header(Buf(s), Len(s))

\* The header a sender of s meant, if s carries a payload of n bytes.
Sent(s, n) ==
    [fin |-> s[1] >= 128, rsv |-> 0, opcode |-> s[1] % 16, masked |-> s[2] >= 128,
     payload_len |-> n,
     mask_key |-> [i \in 0..3 |-> IF s[2] >= 128 /\ Len(s) > 5 THEN s[Len(s) - 3 + i] ELSE 0]]

\* The frames of RFC 6455 5.2 and 5.5, whose lengths have 63 bits.
Allowed(h) ==
    /\ ((h.payload_len \div 65536) \div 65536) \div 65536 < 32768
    /\ \/ h.opcode \in {0, 1, 2}
       \/ h.opcode \in {8, 9, 10} /\ h.fin /\ h.payload_len <= 125

(* The verdict of ws_parse_header depends on the header's bytes alone: once  *)
(* a prefix is accepted or refused, no later byte changes the verdict, the   *)
(* byte count or a field.  A poll after more bytes never sees a different    *)
(* frame at the same place.                                                  *)
VerdictIsStable ==
    [][Parse(got).rc # WS_ERR_NEED_MORE => Parse(got') = Parse(got)]_got

(* The parser accepts canonical encodings only: building the parsed header   *)
(* with ws_build_header gives back exactly the bytes that were parsed, so    *)
(* both sides agree on every length form, flag and key.  The header is that  *)
(* of a frame RFC 6455 allows, or has a reserved opcode, which               *)
(* ws_parse_header leaves to route to refuse.                                *)
AcceptedIsCanonical ==
    LET p == Parse(got)
    IN  p.rc > 0 =>
            /\ ws_build_header(p.h, p.rc) = [rc |-> p.rc, bytes |-> SubSeq(got, 1, p.rc)]
            /\ Allowed(p.h) \/ ws_classify_opcode(p.h.opcode) = "RESERVED"

(* Whatever ws_build_header writes for a frame RFC 6455 allows, the parser   *)
(* reads back as the same header, at every length form boundary: no legal    *)
(* frame is refused, and none is taken for a shorter or longer one.          *)
BuiltIsAccepted ==
    \A n \in IF Len(got) < 2 THEN {} ELSE Lengths :
        LET h == Sent(got, n)
        IN  (Allowed(h) /\ ws_build_header(h, 14).bytes = got)
                => Parse(got) = [rc |-> Len(got), h |-> h]
=============================================================================
