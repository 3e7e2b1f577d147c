--------------------------- MODULE WsAcceptCheck ---------------------------
(***************************************************************************)
(* What the server computes from a text before it serves: the answer to a  *)
(* key, against the standards, and its port.  Every prefix of some texts   *)
(* is a message to digest, bytes to encode, the key in a request to        *)
(* compute_accept (src/io/io_posix.c) and the argument of the echo server. *)
(***************************************************************************)
EXTENDS AcceptRef, EchoArgs

CONSTANTS Texts,   \* the texts whose prefixes are tried
          Digests, \* known answers of SHA-1: << message, digest >> pairs
          Accepts  \* known answers of the handshake: << key, accept >> pairs

ASSUME TextsAssumption == Texts \subseteq Seq(0..255)

INSTANCE WsUpgrade WITH KeyCap <- 64, Accept <- ws_handshake_accept

\* What compute_accept leaves in accept[28], << >> when it fails.
compute_accept(req) ==
    LET key == extract_key(req) IN IF key = << >> THEN << >> ELSE ws_handshake_accept(key)

VARIABLES whole, text

vars == << whole, text >>

Init == whole \in Texts /\ text = << >>

Extend ==
    /\ Len(text) < Len(whole)
    /\ text' = SubSeq(whole, 1, Len(text) + 1)
    /\ UNCHANGED whole

Full == text = whole /\ UNCHANGED vars

Next == Extend \/ Full

Spec == Init /\ [][Next]_vars

(* ws_sha1 is SHA-1 on every length, those around 55, 56, 63 and 64 bytes   *)
(* past a block included: finalize takes a second block exactly when the    *)
(* marker and the length no longer fit, and reads no byte of the first one. *)
Sha1Exact == ws_sha1(text) = Sha1Ref(text)

(* ws_base64 is base64 for every remainder, its padding included.           *)
Base64Exact == ws_base64(text) = Base64Ref(text)

(* A request with a key gets the answer of RFC 6455 4.2.2, always 28 bytes   *)
(* as send_accept assumes: the 64 bytes extract_key keeps of a long value    *)
(* are never too many for the buffer of ws_handshake_accept.  The value may  *)
(* end the request or be followed by another header.                         *)
AcceptExact ==
    text # << >> /\ (\A i \in DOMAIN text : ~is_eol(text[i]) /\ ~is_space(text[i])) =>
        LET want == Base64Ref(Sha1Ref(SubSeq(text, 1, Min({64, Len(text)})) \o kGuid))
        IN  /\ Len(want) = 28
            /\ compute_accept(<< KEY_HEADER >> \o text) = want
            /\ compute_accept(<< CR, LF, KEY_HEADER, 9, 32 >> \o text \o << CR, LF, 88 >>) = want

\* The decimal number s, when it has at most five digits after its zeros.
Place(s, i) == Len(s) - i
Short(s) == \A i \in DOMAIN s : s[i] \in 48..57 /\ (Place(s, i) > 4 => s[i] = 48)
Decimal(s) ==
    MapThenSumSet(LAMBDA i : (s[i] - 48) * 10^Place(s, i), {i \in DOMAIN s : Place(s, i) <= 4})

(* The port is the argument read as a decimal number if that is a port, and  *)
(* the default otherwise; a long argument does not wrap round to a port.     *)
PortExact ==
    port_from_stack(<< text >>) =
        IF Short(text) /\ Decimal(text) \in 1..65535 THEN Decimal(text) ELSE DEFAULT_PORT

(* The worked examples: RFC 6455 1.3 (test/cases/handshake.c) and the       *)
(* vectors of test/cases/sha1.c, one of which needs a second padding block. *)
KnownAnswers ==
    /\ \A a \in Digests : a[1] = text => ws_sha1(text) = a[2]
    /\ \A a \in Accepts : a[1] = text => ws_handshake_accept(text) = a[2]
=============================================================================
