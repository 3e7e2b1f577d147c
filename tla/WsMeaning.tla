----------------------------- MODULE WsMeaning -----------------------------
(***************************************************************************)
(* What RFC 6455 says a sequence of frames means, with no buffer and no    *)
(* chunks: the reference the driver and the server are compared with.  A   *)
(* script is the sequence of frames a peer sends.                          *)
(***************************************************************************)
EXTENDS WsFrame, WsEvents, Utf8Ref

\* A frame as its sender means it; key is << >> when the frame is not masked.
\* Payloads are short enough for the 7-bit length.
Frames ==
    {f \in [fin : BOOLEAN, rsv : 0..7, op : 0..15, key : {<< >>} \union [1..4 -> Byte],
            payload : Seq(Byte)] : Len(f.payload) <= 125}

Encode(f) ==
    << (IF f.fin THEN 128 ELSE 0) + 16 * f.rsv + f.op,
       (IF f.key = << >> THEN 0 ELSE 128) + Len(f.payload) >>
    \o f.key
    \o [i \in 1..Len(f.payload) |->
            IF f.key = << >> THEN f.payload[i] ELSE Xor(f.payload[i], f.key[((i - 1) % 4) + 1])]

\* The bytes of the first k frames, for each k.
Encoding(script) ==
    LET upto[k \in 0..Len(script)] == IF k = 0 THEN << >> ELSE upto[k - 1] \o Encode(script[k])
    IN  upto

EncodeAll(script) == Encoding(script)[Len(script)]

EndOf(script, k) == Len(Encoding(script)[k])

-----------------------------------------------------------------------------
(* The meaning of a script, frame by frame.  The state is the events so far,*)
(* the message in progress (its opcode, -1 when there is none, and its      *)
(* bytes) and whether the connection is open, closed or dead.               *)

Malformed(f) ==
    \/ f.rsv # 0
    \/ f.op >= 8 /\ ~f.fin
    \/ f.op \notin {0, 1, 2, 8, 9, 10}

\* The first two bytes of a Close body, most significant first.
Code(body) == body[1] * 256 + body[2]

CloseBodyAllowed(body) ==
    \/ body = << >>
    \/ Len(body) >= 2 /\ CodeAllowed(Code(body)) /\ IsUtf8(SubSeq(body, 3, Len(body)))

Dies(m) == [m EXCEPT !.events = Append(@, Says("ERROR", WS_OP_TEXT, << >>, 0)), !.life = "dead"]

TakesControl(m, f) ==
    IF f.op = WS_OP_CLOSE
    THEN [m EXCEPT !.events = Append(@, Says("CLOSE", WS_OP_TEXT, << >>,
                                             IF f.payload = << >> THEN 0 ELSE Code(f.payload))),
                   !.life = "closed"]
    ELSE [m EXCEPT !.events = Append(@, Says(IF f.op = WS_OP_PING THEN "PING" ELSE "PONG",
                                             WS_OP_TEXT, f.payload, 0))]

TakesData(m, f) ==
    LET kind == IF f.op = WS_OP_CONT THEN m.kind ELSE f.op
        body == m.body \o f.payload
    IN  IF ~f.fin THEN [m EXCEPT !.kind = kind, !.body = body]
        ELSE IF kind = WS_OP_TEXT /\ ~IsUtf8(body) THEN Dies(m)
        ELSE [m EXCEPT !.events = Append(@, Says("MESSAGE", kind, body, 0)),
                       !.kind = -1, !.body = << >>]

\* A server must be sent masked frames, a client unmasked ones (RFC 6455 5.1).
WrongSide(role, f) == f.key = << >> <=> role = "SERVER"

Unlawful(role, m, f) ==
    \/ m.life = "closed"
    \/ Malformed(f)
    \/ WrongSide(role, f)
    \/ f.op = WS_OP_CLOSE /\ ~CloseBodyAllowed(f.payload)
    \/ f.op = WS_OP_CONT /\ m.kind = -1
    \/ f.op \in {WS_OP_TEXT, WS_OP_BIN} /\ m.kind # -1

Takes(role, m, f) ==
    IF m.life = "dead" THEN m
    ELSE IF Unlawful(role, m, f) THEN Dies(m)
    ELSE IF f.op >= 8 THEN TakesControl(m, f) ELSE TakesData(m, f)

Fresh == [events |-> << >>, kind |-> -1, body |-> << >>, life |-> "open"]

\* What the first k frames mean, for each k.
Progress(role, script) ==
    LET after[k \in 0..Len(script)] ==
            IF k = 0 THEN Fresh ELSE Takes(role, after[k - 1], script[k])
    IN  after

Meaning(role, script) == Progress(role, script)[Len(script)].events
=============================================================================
