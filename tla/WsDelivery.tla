----------------------------- MODULE WsDelivery -----------------------------
(***************************************************************************)
(* The driver against what RFC 6455 says a frame sequence means: the bytes *)
(* of a script are the stream, WsMeaning computes the events it stands for.*)
(***************************************************************************)
EXTENDS WsDriver, WsMeaning

\* A stream remembers its script and what it means to each role.
ASSUME StreamAssumption ==
    \A s \in Streams :
        /\ s.script \in Seq(Frames)
        /\ s.bytes = EncodeAll(s.script)
        /\ \A role \in Role : s.means[role] = Meaning(role, s.script)

\* The frame ends a message or the connection.
EndsMessage(f) == f.fin /\ f.op \notin {WS_OP_PING, WS_OP_PONG}

\* Where the peer waits: nowhere, after each frame, after each but pings and
\* pongs, or after each that ends a message or the connection.
Stops(script, pacing) ==
    {EndOf(script, i) : i \in {k \in 1..Len(script) :
        \/ pacing = "frame"
        \/ pacing = "data" /\ script[k].op \notin {WS_OP_PING, WS_OP_PONG}
        \/ pacing = "message" /\ EndsMessage(script[k])}}

StreamOf(script, pacing) ==
    [bytes |-> EncodeAll(script),
     stops |-> Stops(script, pacing),
     script |-> script,
     means |-> [role \in Role |-> Meaning(role, script)]]

-----------------------------------------------------------------------------
Means == stream.means[conn.role]

(* The events are the ones the peer's frames stand for, in order, none lost, *)
(* doubled, merged or altered, payload bytes included, however the stream is *)
(* cut into chunks and however polls fall between them.                      *)
DeliveredInOrder == StartOf(log, Means)

\* The peer waits after every frame.
PatientPeer == \A i \in 1..Len(stream.script) : EndOf(stream.script, i) \in stream.stops

\* The peer masks no frame it sends to a client.
BareToClient ==
    conn.role = "CLIENT" => \A i \in 1..Len(stream.script) : stream.script[i].key = << >>

(* A peer that waits after every frame gets exactly that, whatever it sends, *)
(* unless it sends a client a masked frame.                                  *)
DeliveredToPatient == PatientPeer /\ BareToClient => DeliveredInOrder

\* The peer waits after every message.
PolitePeer ==
    \A i \in 1..Len(stream.script) :
        EndsMessage(stream.script[i]) => EndOf(stream.script, i) \in stream.stops

\* Pings and pongs without their payload.
Outline(events) ==
    [i \in 1..Len(events) |->
        IF events[i].type \in {"PING", "PONG"} THEN [events[i] EXCEPT !.data = << >>] ELSE events[i]]

(* Any such peer gets the same guarantee until a message ends with bytes     *)
(* buffered behind it, except for the payload of a ping or pong that has     *)
(* frames behind it.                                                         *)
DeliveredInOutline == aligned /\ BareToClient => StartOf(Outline(log), Outline(Means))

(* A peer that waits after each message never makes one end with raw bytes   *)
(* behind it, whatever it pipelines within a message: for it the guarantee   *)
(* has no end.                                                               *)
AlwaysAligned == PolitePeer => aligned

(* include/ws/ws.h:87 on WS_EV_ERROR: "protocol violation; the connection    *)
(* must be closed".  A stream that violates the protocol is reported as an   *)
(* error in the end.                                                         *)
ViolationIsReported ==
    (Means # << >> /\ Means[Len(Means)].type = "ERROR") ~> ev.type = "ERROR"

(* stream.c:251: "A server must receive masked frames (RFC 5.1); a client    *)
(* receives unmasked"; stream.c:259: a frame is routed if "the mask side is  *)
(* correct for the role", else poll returns ERROR.  Nothing but errors is    *)
(* reported of a peer with every frame on the wrong side.                    *)
WrongSideIsRefused ==
    (\A i \in 1..Len(stream.script) : WrongSide(conn.role, stream.script[i]))
        => \A i \in 1..Len(log) : log[i].type = "ERROR"
=============================================================================
