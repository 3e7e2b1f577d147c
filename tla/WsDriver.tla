------------------------------ MODULE WsDriver ------------------------------
(***************************************************************************)
(* The sans-I/O driver at work: one connection, the peer's byte stream cut *)
(* into chunks in every way, and a caller that opens the connection, feeds *)
(* it, polls it and sends on it in any order.                              *)
(*                                                                         *)
(* A stream is the peer's bytes and the offsets at which the peer pauses   *)
(* until everything it has sent is consumed.  Without stops the peer       *)
(* pipelines freely.                                                       *)
(***************************************************************************)
EXTENDS WsConn

CONSTANTS Roles,     \* roles the connection may be initialised with
          Streams,   \* what the peer may send
          Chunks,    \* sizes of the chunks the caller may feed
          PollEarly, \* whether the caller may poll before it opens
          Sends,     \* what the application may send: <<opcode, payload>> pairs
          CloseWith, \* close codes the application may use
          OutCaps,   \* sizes of the caller's output buffer
          Key,       \* ws_client_mask_key
          MaxOut     \* bound on the frames sent

ASSUME DriverAssumption ==
    /\ Roles \subseteq Role
    /\ \A s \in Streams : s.bytes \in Seq(Byte) /\ s.stops \subseteq Nat
    /\ Chunks \subseteq Nat \ {0}

\* The application sends payloads with ws_send_message, and Close frames with
\* ws_send_close only, as ws.h has it.
ASSUME SendAssumption ==
    \A s \in Sends : s[1] \in (0..15) \ {WS_OP_CLOSE} /\ s[2] \in Seq(Byte)

VARIABLES conn,    \* the ws_conn
          stream,  \* the peer's stream, fixed
          fed,     \* bytes of it that ws_conn_recv has accepted
          ev,      \* the event the last poll returned
          log,     \* history: the events reported, latched repeats left out
          out,     \* history: the frames built, oldest first
          aligned  \* history: no message ended with bytes buffered behind it

vars == << conn, stream, fed, ev, log, out, aligned >>

Init ==
    /\ \E role \in Roles : conn = ws_conn_init(role)
    /\ stream \in Streams
    /\ fed = 0
    /\ ev = Event("NONE")
    /\ log = << >>
    /\ out = << >>
    /\ aligned = TRUE

Open ==
    /\ conn' = ws_conn_open(conn)
    /\ UNCHANGED << stream, fed, ev, log, out, aligned >>

\* The peer is past stop s only once all it sent before s is consumed.
PeerSends(n) ==
    /\ fed + n <= Len(stream.bytes)
    /\ \A s \in stream.stops : fed < s => fed + n <= s
    /\ fed \in stream.stops => conn.rx_len = 0

\* A chunk that does not fit is refused whole and may be offered again.
Recv(n) ==
    LET bytes == SubSeq(stream.bytes, fed + 1, fed + n)
    IN  /\ PeerSends(n)
        /\ conn' = ws_conn_recv(conn, bytes)
        /\ fed' = IF recv_fits(conn, bytes) THEN fed + n ELSE fed
        /\ UNCHANGED << stream, ev, log, out, aligned >>

Reported(r) == [type |-> r.ev.type, op |-> r.ev.op, data |-> EventData(r),
                close_code |-> r.ev.close_code]

Poll ==
    LET r == ws_conn_poll(conn)
    IN  /\ PollEarly \/ conn.state # "CONNECTING"
        /\ conn' = r.conn
        /\ ev' = r.ev
        /\ log' = IF r.ev.type = "NONE" \/ conn.failed THEN log ELSE Append(log, Reported(r))
        /\ aligned' = (aligned /\ ~Slips(conn, r))
        /\ UNCHANGED << stream, fed, out >>

\* The caller passes what was built to its socket; nothing built, nothing sent.
Emit(bytes) ==
    /\ Len(out) < MaxOut
    /\ out' = IF bytes = << >> THEN out ELSE Append(out, bytes)
    /\ UNCHANGED << stream, fed, ev, log, aligned >>

SendMessage(op, payload, cap) ==
    /\ Emit(ws_send_message(conn, op, payload, Key, cap))
    /\ UNCHANGED conn

SendPong(payload, cap) ==
    /\ Emit(ws_send_pong(conn, payload, Key, cap))
    /\ UNCHANGED conn

SendClose(code, cap) ==
    LET r == ws_send_close(conn, code, Key, cap)
    IN  /\ Emit(r.out)
        /\ conn' = r.conn

Receive == \E n \in Chunks : Recv(n)

Send ==
    \E cap \in OutCaps :
        \/ \E s \in Sends : SendMessage(s[1], s[2], cap)
        \/ \E s \in Sends : SendPong(s[2], cap)
        \/ \E code \in CloseWith : SendClose(code, cap)

Next == Open \/ Receive \/ Poll \/ Send

Spec == Init /\ [][Next]_vars

\* A caller that opens the connection, keeps reading and keeps polling: the last
\* conjunct is weak fairness of Poll, its enabling condition written out.
PollChanges ==
    /\ PollEarly \/ conn.state # "CONNECTING"
    /\ ws_conn_poll(conn) # Result(conn, ev)

FairSpec ==
    /\ Spec
    /\ WF_vars(Open)
    /\ WF_vars(Receive)
    /\ []<>~PollChanges \/ []<><< Poll >>_vars

-----------------------------------------------------------------------------
LogRecord == [type : EventType, op : {WS_OP_TEXT, WS_OP_BIN}, data : Seq(Byte),
              close_code : UInt16]

\* The connection, the event and the log have their types, the two regions of
\* msg_buf fit in it (SINV1), and an event's data points into it.
TypeOK ==
    /\ conn \in Conn
    /\ conn.msg_len + conn.rx_len <= Cap
    /\ stream \in Streams
    /\ fed \in 0..Len(stream.bytes)
    /\ ev \in EventRecord
    /\ ev.data + ev.len <= Cap
    /\ log \in Seq(LogRecord)
    /\ aligned \in BOOLEAN

(* The close bits and the state tell the same story (INV1, INV5, INV6): no   *)
(* interleaving of ws_send_close, a peer Close, errors and ws_conn_open can  *)
(* leave a half-closed connection that is not CLOSING, or a CLOSED one with  *)
(* half a handshake; the peer's half is never set without ours.              *)
CloseBitsMatchState ==
    /\ conn.state = "CLOSED" <=> conn.sent_close /\ conn.rcvd_close
    /\ conn.state = "CLOSING" <=> conn.sent_close /\ ~conn.rcvd_close
    /\ conn.rcvd_close => conn.sent_close

(* A message is in progress only on a live connection, bytes are assembled   *)
(* only for a message in progress, and an error or a Close leaves neither    *)
(* behind (INV2, INV3, SINV4, SINV8 and one half of SINV2).                  *)
AssemblyDiscipline ==
    /\ conn.frag # "NONE" => ws_lc_active(conn) /\ ~conn.failed
    /\ conn.msg_len > 0 => conn.frag # "NONE"

(* ERROR is reported iff it is latched: the last poll said ERROR exactly     *)
(* when failed is set (SINV3, SINV7), through any later recv, send and open. *)
ErrorIffFailed == ev.type = "ERROR" <=> conn.failed

(* data_illegal's size test never fires: a frame is only routed once it is   *)
(* buffered whole behind the message, so the message it extends fits.        *)
(* test/cases/driver.c:134 says "poll's defensive S9 is unreachable".        *)
TooBigUnreachable ==
    frame_ready(conn) => ~too_big(conn, ws_parse_header(raw(conn), conn.rx_len).h)

\* The last rx_len bytes fed are the ones behind the message.
RawIsUnparsedStream ==
    \A i \in 0..(conn.rx_len - 1) :
        conn.msg_buf[conn.msg_len + i] = stream.bytes[fed - conn.rx_len + i + 1]

(* The buffer layout of stream.c:6: the raw region holds the peer's bytes    *)
(* that were fed and not yet consumed, in order, whatever the chunking and   *)
(* the interleaving of polls, until a message ends with bytes behind it.     *)
LayoutHolds == aligned /\ ~conn.failed => RawIsUnparsedStream

(* After the peer's Close nothing but ERROR is reported, and no frame at all *)
(* after an error: every earlier event precedes both (S13, S14, R6).         *)
NothingAfterTheEnd ==
    \A i, j \in 1..Len(log) :
        i < j => /\ log[i].type # "ERROR"
                 /\ log[i].type = "CLOSE" => log[j].type = "ERROR"

(* A closed connection is final: it neither builds a frame nor leaves        *)
(* CLOSED; our half of the close and an error once set stay set (R6, INV4).  *)
ClosedIsFinal ==
    [][/\ conn.state = "CLOSED" => conn'.state = "CLOSED" /\ out' = out
       /\ conn.sent_close => conn'.sent_close
       /\ conn.failed => conn'.failed]_vars

OpcodeOf(frame) == frame[1] % 16

(* One Close frame at most leaves this side, and sent_close is set before    *)
(* the peer's Close only if it did.                                          *)
OneCloseFrame ==
    LET closes == {i \in 1..Len(out) : OpcodeOf(out[i]) = WS_OP_CLOSE}
    IN  /\ \A i, j \in closes : i = j
        /\ conn.state = "CLOSING" => closes # {}
        /\ closes # {} => conn.sent_close

(* stream.c:6 states the layout with no exception: "[msg_len, msg_len+rx_len)*)
(* = unparsed raw receive bytes".                                            *)
LayoutAsStated == ~conn.failed => RawIsUnparsedStream

(* include/ws/ws.h:86 on WS_EV_CLOSE: "peer close (close_code set); reply    *)
(* with ws_send_close".  The reply is possible unless ours was sent before.  *)
CloseCanBeAnswered ==
    (ev.type = "CLOSE" /\ \A i \in 1..Len(out) : OpcodeOf(out[i]) # WS_OP_CLOSE)
        => \E code \in CloseWith : ws_send_close(conn, code, Key, 32).out # << >>

(* The driver implements the life cycle of lifecycle.c: every poll, recv,    *)
(* send and open is one of its steps or leaves its state alone.              *)
LC == INSTANCE Lifecycle WITH state <- conn.state, frag <- conn.frag,
                              sent_close <- conn.sent_close, rcvd_close <- conn.rcvd_close
ImplementsLifecycle == LC!Spec
=============================================================================
