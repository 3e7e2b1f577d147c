----------------------------- MODULE WsUpgrade -----------------------------
(***************************************************************************)
(* The HTTP upgrade of io_posix.c: finding the blank line and the key in   *)
(* the request, and the 101 response.  A byte stands for itself, but the   *)
(* header name "Sec-WebSocket-Key:" is one symbol, written as the byte 0,  *)
(* which no header line contains, and so is the fixed head of the          *)
(* response.  Offsets count from 0, as in the code.                        *)
(***************************************************************************)
EXTENDS Integers, Sequences

CONSTANTS KeyCap,   \* room for the key, 64 in compute_accept
          Accept(_) \* ws_handshake_accept: the answer to a key

CR == 13
LF == 10
KEY_HEADER == 0
SWITCHING == 256

BlankLine == << CR, LF, CR, LF >>

is_space(c) == c \in {32, 9}
is_eol(c) == c \in {CR, LF}

\* Where needle first occurs, or -1.
find_sub(buf, needle) ==
    LET hits == {i \in 0..(Len(buf) - Len(needle)) : SubSeq(buf, i + 1, i + Len(needle)) = needle}
    IN  IF hits = {} THEN -1 ELSE CHOOSE i \in hits : \A j \in hits : i <= j

skip_spaces(buf, i) ==
    CHOOSE j \in i..Len(buf) :
        /\ \A k \in i..(j - 1) : is_space(buf[k + 1])
        /\ j < Len(buf) => ~is_space(buf[j + 1])

copy_value(buf, i, limit) ==
    LET eol == CHOOSE j \in i..limit :
                   /\ \A k \in i..(j - 1) : ~is_eol(buf[k + 1])
                   /\ j < limit => is_eol(buf[j + 1])
    IN  SubSeq(buf, i + 1, eol)

\* A missing key and an empty one are both << >>: the caller refuses either.
extract_key(buf) ==
    LET at == find_sub(buf, << KEY_HEADER >>)
        i == skip_spaces(buf, at + 1)
        limit == IF Len(buf) < i + KeyCap THEN Len(buf) ELSE i + KeyCap
    IN  IF at < 0 THEN << >> ELSE copy_value(buf, i, limit)

\* What send_accept writes.
send_accept(key) == << SWITCHING >> \o Accept(key) \o BlankLine
=============================================================================
