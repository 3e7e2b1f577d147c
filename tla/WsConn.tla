------------------------------- MODULE WsConn -------------------------------
(***************************************************************************)
(* One WebSocket connection: the struct ws_conn and the operations on it,  *)
(* from src/session/stream.c (the driver) and src/session/lifecycle.c (the *)
(* close handshake and fragment steps it calls).  An operation takes the   *)
(* connection record and returns the record after it; poll also returns    *)
(* the event, whose data is a pointer: an offset into msg_buf.             *)
(*                                                                         *)
(* The buffer layout is the one stream.c states: [0, msg_len) holds the    *)
(* message assembled so far, [msg_len, msg_len + rx_len) the raw bytes.    *)
(***************************************************************************)
EXTENDS WsFrame, WsUtf8

CONSTANT Cap \* msg_cap, the size of msg_buf

ASSUME CapAssumption == Cap \in Nat

Role == {"SERVER", "CLIENT"}
State == {"CONNECTING", "OPEN", "CLOSING", "CLOSED"}
Frag == {"NONE", "TEXT", "BIN"}

Conn == [state : State, frag : Frag, role : Role,
         sent_close : BOOLEAN, rcvd_close : BOOLEAN,
         msg_buf : [0..(Cap - 1) -> Byte], msg_len : 0..Cap, rx_len : 0..Cap,
         close_code : UInt16, failed : BOOLEAN]

\* The caller's buffer starts out zeroed (the pool of io_posix.c is static).
ws_conn_init(role) ==
    [state |-> "CONNECTING", frag |-> "NONE", role |-> role,
     sent_close |-> FALSE, rcvd_close |-> FALSE,
     msg_buf |-> [i \in 0..(Cap - 1) |-> 0], msg_len |-> 0, rx_len |-> 0,
     close_code |-> 0, failed |-> FALSE]

-----------------------------------------------------------------------------
(* lifecycle.c: an illegal step returns WS_ERR_ILLEGAL_STATE, which every   *)
(* caller ignores, and changes nothing.                                     *)

ws_lc_active(c) == c.state \in {"OPEN", "CLOSING"}

ws_lc_handshake(c) ==
    IF c.state = "CONNECTING" THEN [c EXCEPT !.state = "OPEN"] ELSE c

\* Slip: sending a Close also gives up the message in progress.
ws_lc_send_close_drops(c) ==
    IF c.state = "OPEN"
    THEN [c EXCEPT !.sent_close = TRUE, !.state = "CLOSING", !.frag = "NONE", !.msg_len = 0]
    ELSE c

ws_lc_send_close(c) ==
    IF c.state = "OPEN" THEN [c EXCEPT !.sent_close = TRUE, !.state = "CLOSING"] ELSE c

\* Slip: our half of the handshake is left unset.
ws_lc_recv_close_half(c) ==
    IF ws_lc_active(c)
    THEN [c EXCEPT !.rcvd_close = TRUE, !.state = "CLOSED", !.frag = "NONE", !.msg_len = 0]
    ELSE c

\* Slip: a Close that crosses ours is ignored.
ws_lc_recv_close_openOnly(c) ==
    IF c.state = "OPEN"
    THEN [c EXCEPT !.rcvd_close = TRUE, !.sent_close = TRUE, !.state = "CLOSED",
                   !.frag = "NONE", !.msg_len = 0]
    ELSE c

ws_lc_recv_close(c) ==
    IF ws_lc_active(c)
    THEN [c EXCEPT !.rcvd_close = TRUE, !.sent_close = TRUE, !.state = "CLOSED",
                   !.frag = "NONE", !.msg_len = 0]
    ELSE c

ws_lc_start_frag(c, type) ==
    IF ws_lc_active(c) /\ c.frag = "NONE" THEN [c EXCEPT !.frag = type] ELSE c

ws_lc_finish_frag(c) ==
    IF ws_lc_active(c) /\ c.frag # "NONE" THEN [c EXCEPT !.frag = "NONE"] ELSE c

-----------------------------------------------------------------------------
(* Receiving bytes (a sequence), all of them or none.                       *)

ws_conn_open(c) == ws_lc_handshake(c)

\* Slip: the assembled message is left out of the bound.
recv_fits_rawOnly(c, bytes) == c.rx_len + Len(bytes) <= Cap

recv_fits(c, bytes) == c.msg_len + c.rx_len + Len(bytes) <= Cap

ws_conn_recv(c, bytes) ==
    LET at == c.msg_len + c.rx_len
    IN  IF ~recv_fits(c, bytes) THEN c
        ELSE [c EXCEPT !.msg_buf = [i \in 0..(Cap - 1) |->
                                        IF i \in at..(at + Len(bytes) - 1)
                                        THEN bytes[i - at + 1] ELSE @[i]],
                       !.rx_len = @ + Len(bytes)]

-----------------------------------------------------------------------------
(* The buffer.  fwd_copy copies upwards byte by byte; dst < src at every    *)
(* call, so each byte is read before it is overwritten.                     *)

fwd_copy(buf, dst, src, n) ==
    [i \in DOMAIN buf |-> IF i \in dst..(dst + n - 1) THEN buf[src + i - dst] ELSE buf[i]]

raw(c) == [i \in 0..(c.rx_len - 1) |-> c.msg_buf[c.msg_len + i]]

\* Slip: the tail is not moved to the front of the raw region.
raw_consume_still(c, take) == [c EXCEPT !.rx_len = @ - take]

raw_consume(c, take) ==
    [c EXCEPT !.msg_buf = fwd_copy(@, c.msg_len, c.msg_len + take, c.rx_len - take),
              !.rx_len = @ - take]

unmask_payload(c, h, hdr) ==
    IF h.masked
    THEN [c EXCEPT !.msg_buf = ws_mask(@, c.msg_len + hdr, h.payload_len, h.mask_key)]
    ELSE c

\* Slip: the header's bytes stay counted.
accumulate_noHeader(c, h, hdr) ==
    LET plen == h.payload_len
        down == fwd_copy(c.msg_buf, c.msg_len, c.msg_len + hdr, plen)
    IN  [c EXCEPT !.msg_buf = fwd_copy(down, c.msg_len + plen, c.msg_len + hdr + plen,
                                       c.rx_len - hdr - plen),
                  !.rx_len = @ - plen,
                  !.msg_len = @ + plen]

\* The payload moves down over the header into the message, the raw tail after it.
accumulate(c, h, hdr) ==
    LET plen == h.payload_len
        down == fwd_copy(c.msg_buf, c.msg_len, c.msg_len + hdr, plen)
    IN  [c EXCEPT !.msg_buf = fwd_copy(down, c.msg_len + plen, c.msg_len + hdr + plen,
                                       c.rx_len - hdr - plen),
                  !.rx_len = @ - hdr - plen,
                  !.msg_len = @ + plen]

-----------------------------------------------------------------------------
(* Events, as clear_event leaves them and each handler fills them in.       *)

EventType == {"NONE", "MESSAGE", "PING", "PONG", "CLOSE", "ERROR"}

EventRecord == [type : EventType, op : {WS_OP_TEXT, WS_OP_BIN}, data : 0..Cap,
                len : 0..Cap, close_code : UInt16]

Event(type) == [type |-> type, op |-> WS_OP_TEXT, data |-> 0, len |-> 0, close_code |-> 0]

Result(c, ev) == [conn |-> c, ev |-> ev]

\* Slip: the message in progress survives the error.
fail_keepsFrag(c) ==
    Result([c EXCEPT !.failed = TRUE, !.msg_len = 0], Event("ERROR"))

\* Slip: the error is reported and not latched.
fail_unlatched(c) ==
    Result([c EXCEPT !.frag = "NONE", !.msg_len = 0], Event("ERROR"))

fail(c) ==
    Result([c EXCEPT !.failed = TRUE, !.frag = "NONE", !.msg_len = 0], Event("ERROR"))

\* What the caller reads through ev.data once poll has returned.
EventData(r) == [i \in 1..r.ev.len |-> r.conn.msg_buf[r.ev.data + i - 1]]

-----------------------------------------------------------------------------
(* Data frames.                                                             *)

message_utf8_ok(c) == c.frag = "TEXT" => ws_utf8_valid(c.msg_buf, 0, c.msg_len)

finish_message(c) ==
    IF ~message_utf8_ok(c) THEN fail(c)
    ELSE Result([ws_lc_finish_frag(c) EXCEPT !.msg_len = 0],
                [Event("MESSAGE") EXCEPT !.op = IF c.frag = "BIN" THEN WS_OP_BIN ELSE WS_OP_TEXT,
                                         !.len = c.msg_len])

is_interleave(c, h) == h.opcode # WS_OP_CONT /\ c.frag # "NONE"
is_stray_cont(c, h) == h.opcode = WS_OP_CONT /\ c.frag = "NONE"

\* Slip: the raw bytes are counted against the message's room.
too_big_countsRaw(c, h) == c.msg_len + c.rx_len + h.payload_len > Cap

too_big(c, h) == c.msg_len + h.payload_len > Cap

\* Slip: a new message may start inside another.
data_illegal_interleaved(c, h) == is_stray_cont(c, h) \/ too_big(c, h)

data_illegal(c, h) == is_stray_cont(c, h) \/ is_interleave(c, h) \/ too_big(c, h)

begin_data(c, h) ==
    IF h.opcode = WS_OP_CONT THEN c
    ELSE ws_lc_start_frag(c, IF h.opcode = WS_OP_BIN THEN "BIN" ELSE "TEXT")

on_data(c, h, hdr) ==
    LET d == accumulate(begin_data(c, h), h, hdr)
    IN  IF data_illegal(c, h) THEN fail(c)
        ELSE IF ~h.fin THEN Result(d, Event("NONE"))
        ELSE finish_message(d)

-----------------------------------------------------------------------------
(* Control frames.                                                          *)

CloseCode(c, hdr) == c.msg_buf[c.msg_len + hdr] * 256 + c.msg_buf[c.msg_len + hdr + 1]

close_body_ok(c, h, hdr) ==
    \/ h.payload_len = 0
    \/ /\ h.payload_len >= 2
       /\ ws_close_code_sendable(CloseCode(c, hdr))
       /\ ws_utf8_valid(c.msg_buf, c.msg_len + hdr + 2, h.payload_len - 2)

\* recv_close zeroes msg_len before raw_consume locates the raw region by it.
on_close(c, h, hdr) ==
    LET coded == [c EXCEPT !.close_code = IF h.payload_len >= 2 THEN CloseCode(c, hdr) ELSE @]
    IN  IF ~close_body_ok(c, h, hdr) THEN fail(c)
        ELSE Result(raw_consume(ws_lc_recv_close(coded), hdr + h.payload_len),
                    [Event("CLOSE") EXCEPT !.close_code = coded.close_code])

on_control(c, h, hdr) ==
    IF h.opcode = WS_OP_CLOSE THEN on_close(c, h, hdr)
    ELSE Result(raw_consume(c, hdr + h.payload_len),
                [Event(IF h.opcode = WS_OP_PING THEN "PING" ELSE "PONG")
                    EXCEPT !.data = c.msg_len + hdr, !.len = h.payload_len])

-----------------------------------------------------------------------------
(* ws_conn_poll.                                                            *)

route(c, h, hdr) ==
    CASE ws_classify_opcode(h.opcode) = "CONTROL" -> on_control(c, h, hdr)
      [] ws_classify_opcode(h.opcode) = "DATA" -> on_data(c, h, hdr)
      [] OTHER -> fail(c)

\* A server takes masked frames only; a client takes either.
mask_ok(c, h) == c.role = "SERVER" => h.masked

\* Slip: frames are still taken once the connection is closed.
dispatch_closed(c, h, hdr) ==
    IF c.state = "CONNECTING" \/ ~mask_ok(c, h) THEN fail(c)
    ELSE route(unmask_payload(c, h, hdr), h, hdr)

dispatch(c, h, hdr) ==
    IF ~ws_lc_active(c) \/ ~mask_ok(c, h) THEN fail(c)
    ELSE route(unmask_payload(c, h, hdr), h, hdr)

\* Slip: a frame counts as ready only once a byte follows it.
frame_ready_strict(c) ==
    LET p == ws_parse_header(raw(c), c.rx_len)
    IN  p.rc > 0 /\ c.rx_len > p.rc + p.h.payload_len

\* A malformed header counts as not ready.
frame_ready(c) ==
    LET p == ws_parse_header(raw(c), c.rx_len)
    IN  p.rc > 0 /\ c.rx_len >= p.rc + p.h.payload_len

ws_conn_poll(c) ==
    LET p == ws_parse_header(raw(c), c.rx_len)
    IN  IF c.failed THEN Result(c, Event("ERROR"))
        ELSE IF ~frame_ready(c) THEN Result(c, Event("NONE"))
        ELSE dispatch(c, p.h, p.rc)

\* Poll r of c: the assembled message is dropped or delivered with raw bytes behind it.
Slips(c, r) ==
    /\ r.conn.rx_len > 0
    /\ \/ r.ev.type = "MESSAGE" /\ r.ev.len > 0
       \/ r.ev.type = "CLOSE" /\ c.msg_len > 0

-----------------------------------------------------------------------------
(* Outbound frames: the bytes written to out (none on failure), in a buffer *)
(* of cap bytes.  key is ws_client_mask_key when the frame is built.        *)

\* Slip: the mask starts at the second byte of the key.
build_frame_rekeyed(c, op, payload, key, cap) ==
    LET masked == c.role = "CLIENT"
        h == [fin |-> TRUE, rsv |-> 0, opcode |-> op, masked |-> masked,
              payload_len |-> Len(payload), mask_key |-> IF masked THEN key ELSE NoKey]
        b == ws_build_header(h, cap)
    IN  IF b.rc < 0 \/ cap - b.rc < Len(payload) THEN << >>
        ELSE b.bytes \o [i \in 1..Len(payload) |->
                             IF masked THEN Xor(payload[i], key[i % 4]) ELSE payload[i]]

build_frame(c, op, payload, key, cap) ==
    LET masked == c.role = "CLIENT"
        h == [fin |-> TRUE, rsv |-> 0, opcode |-> op, masked |-> masked,
              payload_len |-> Len(payload), mask_key |-> IF masked THEN key ELSE NoKey]
        b == ws_build_header(h, cap)
    IN  IF b.rc < 0 \/ cap - b.rc < Len(payload) THEN << >>
        ELSE b.bytes \o [i \in 1..Len(payload) |->
                             IF masked THEN Xor(payload[i], key[(i - 1) % 4]) ELSE payload[i]]

\* Slip: messages are built in every state.
ws_send_message_always(c, op, payload, key, cap) == build_frame(c, op, payload, key, cap)

ws_send_message(c, op, payload, key, cap) ==
    IF ws_lc_active(c) THEN build_frame(c, op, payload, key, cap) ELSE << >>

ws_send_pong(c, payload, key, cap) ==
    IF ws_lc_active(c) THEN build_frame(c, WS_OP_PONG, payload, key, cap) ELSE << >>

\* Slip: a second Close may follow the first.
ws_send_close_again(c, code, key, cap) ==
    LET out == build_frame(c, WS_OP_CLOSE, << code \div 256, code % 256 >>, key, cap)
    IN  IF ws_lc_active(c) /\ out # << >>
        THEN [conn |-> ws_lc_send_close(c), out |-> out]
        ELSE [conn |-> c, out |-> << >>]

\* Slip: the Close goes out and the life cycle is not told.
ws_send_close_untold(c, code, key, cap) ==
    LET out == build_frame(c, WS_OP_CLOSE, << code \div 256, code % 256 >>, key, cap)
    IN  [conn |-> c, out |-> IF c.state = "OPEN" THEN out ELSE << >>]

\* code goes out as given: only the peer's codes are checked.
ws_send_close(c, code, key, cap) ==
    LET out == build_frame(c, WS_OP_CLOSE, << code \div 256, code % 256 >>, key, cap)
    IN  IF c.state = "OPEN" /\ out # << >>
        THEN [conn |-> ws_lc_send_close(c), out |-> out]
        ELSE [conn |-> c, out |-> << >>]
=============================================================================
