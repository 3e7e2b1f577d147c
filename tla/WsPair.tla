------------------------------- MODULE WsPair -------------------------------
(***************************************************************************)
(* Two drivers talking to each other: a client's and a server's ws_conn,   *)
(* both OPEN, and the two byte streams between them.  What one end's       *)
(* application says is built by ws_send_message, ws_send_pong or           *)
(* ws_send_close of src/session/stream.c; what the other hears is what its *)
(* ws_conn_poll reports.  An application speaks when what it said before   *)
(* has been consumed, so that no frame is read with another behind it.     *)
(***************************************************************************)
EXTENDS WsConn, WsEvents, Utf8Ref

CONSTANTS Speech,  \* what an application may say, as the events the peer is to hear
          Delays,  \* how many of the bytes on their way a read may leave for the next one
          Key,     \* ws_client_mask_key
          OutCap,  \* size of the buffer a frame is built in
          MaxSaid  \* bound on what one end says

ASSUME PairAssumption ==
    /\ 0 \in Delays /\ Delays \subseteq Nat
    /\ Key \in [0..3 -> Byte]

\* A buffer has fewer than 2^63 bytes.
ASSUME OutCapAssumption ==
    OutCap \in Nat /\ ((OutCap \div 65536) \div 65536) \div 65536 < 32768

\* What is said has the shape of the event that reports it.
ASSUME SpeechAssumption ==
    \A s \in Speech :
        /\ s = Says(s.type, s.op, s.data, s.close_code)
        /\ s.type \in {"MESSAGE", "PING", "PONG", "CLOSE"}
        /\ s.op = WS_OP_TEXT \/ (s.type = "MESSAGE" /\ s.op = WS_OP_BIN)
        /\ s.data \in Seq(Byte) /\ (s.type = "CLOSE" => s.data = << >>)
        /\ s.close_code \in UInt16 /\ (s.type # "CLOSE" => s.close_code = 0)

VARIABLES conn,  \* the ws_conn of each role
          wire,  \* bytes on their way to each role
          said,  \* history: what each role's application said
          heard  \* history: what each role's polls reported, latched repeats left out

vars == << conn, wire, said, heard >>

Other(e) == IF e = "CLIENT" THEN "SERVER" ELSE "CLIENT"

Init ==
    /\ conn = [e \in Role |-> ws_conn_open(ws_conn_init(e))]
    /\ wire = [e \in Role |-> << >>]
    /\ said = [e \in Role |-> << >>]
    /\ heard = [e \in Role |-> << >>]

Consumed(e) == wire[Other(e)] = << >> /\ conn[Other(e)].rx_len = 0

\* A ping goes out through ws_send_message, with its opcode.
Built(c, s) ==
    CASE s.type = "CLOSE" -> ws_send_close(c, s.close_code, Key, OutCap)
      [] s.type = "PONG" -> [conn |-> c, out |-> ws_send_pong(c, s.data, Key, OutCap)]
      [] OTHER -> LET op == IF s.type = "PING" THEN WS_OP_PING ELSE s.op
                  IN  [conn |-> c, out |-> ws_send_message(c, op, s.data, Key, OutCap)]

\* Nothing built, nothing said.
Say(e, s) ==
    LET b == Built(conn[e], s)
    IN  /\ Len(said[e]) < MaxSaid
        /\ Consumed(e)
        /\ b.out # << >>
        /\ conn' = [conn EXCEPT ![e] = b.conn]
        /\ wire' = [wire EXCEPT ![Other(e)] = @ \o b.out]
        /\ said' = [said EXCEPT ![e] = Append(@, s)]
        /\ UNCHANGED heard

\* The next bytes of the stream, but for the last few, if they fit.
Read(e, late) ==
    LET k == Len(wire[e]) - late
        bytes == SubSeq(wire[e], 1, k)
    IN  /\ k > 0
        /\ recv_fits(conn[e], bytes)
        /\ conn' = [conn EXCEPT ![e] = ws_conn_recv(@, bytes)]
        /\ wire' = [wire EXCEPT ![e] = SubSeq(@, k + 1, Len(@))]
        /\ UNCHANGED << said, heard >>

Poll(e) ==
    LET r == ws_conn_poll(conn[e])
    IN  /\ conn' = [conn EXCEPT ![e] = r.conn]
        /\ heard' = [heard EXCEPT ![e] =
                         IF r.ev.type = "NONE" \/ conn[e].failed THEN @
                         ELSE Append(@, Says(r.ev.type, r.ev.op, EventData(r), r.ev.close_code))]
        /\ UNCHANGED << wire, said >>

Next ==
    \E e \in Role :
        \/ \E s \in Speech : Say(e, s)
        \/ \E late \in Delays : Read(e, late)
        \/ Poll(e)

Spec == Init /\ [][Next]_vars

\* Both ends keep reading and polling; a poll with nothing to do changes nothing.
\* (Weak fairness of Poll(e), its enabling condition written out.)
PollChanges(e) == ws_conn_poll(conn[e]).conn # conn[e]

FairSpec ==
    /\ Spec
    /\ \A e \in Role :
           /\ WF_vars(\E late \in Delays : Read(e, late))
           /\ []<>~PollChanges(e) \/ []<><< Poll(e) >>_vars

-----------------------------------------------------------------------------
\* What no builder refuses and no peer accepts: a Close with a code that may not be
\* sent, a control frame longer than 125 bytes, a text that is not UTF-8, and
\* anything after one's own Close.
Misused(speech, i) ==
    LET s == speech[i]
    IN  \/ s.type = "CLOSE" /\ ~CodeAllowed(s.close_code)
        \/ s.type \in {"PING", "PONG"} /\ Len(s.data) > 125
        \/ s.type = "MESSAGE" /\ s.op = WS_OP_TEXT /\ ~IsUtf8(s.data)
        \/ \E j \in 1..(i - 1) : speech[j].type = "CLOSE"

\* What is said before the first misuse.
Lawful(speech) ==
    SubSeq(speech, 1, CHOOSE k \in 0..Len(speech) :
                          /\ \A i \in 1..k : ~Misused(speech, i)
                          /\ k < Len(speech) => Misused(speech, k + 1))

Failure == Says("ERROR", WS_OP_TEXT, << >>, 0)

(* Each end hears exactly what the other said, in order, whole and unaltered, *)
(* through building, masking, chunking, unmasking and reassembly, while both  *)
(* talk and close at once; it hears an error only where the other misused the *)
(* builders, which check nothing (ws_send_close sends any code), and nothing  *)
(* after it.                                                                  *)
HeardAsSaid ==
    \A e \in Role :
        LET lawful == Lawful(said[Other(e)])
        IN  StartOf(heard[e], IF lawful = said[Other(e)] THEN lawful ELSE Append(lawful, Failure))

Closing(speech) == \E i \in DOMAIN Lawful(speech) : speech[i].type = "CLOSE"

(* An end is CLOSED only once the other has lawfully said Close, and an end   *)
(* that said it is past OPEN: neither takes its own Close for an answer.      *)
CloseNeedsBoth ==
    \A e \in Role : /\ conn[e].state = "CLOSED" => Closing(said[Other(e)])
                    /\ Closing(said[e]) => conn[e].state # "OPEN"

(* Everything lawful is heard in the end.                                     *)
EventuallyHeard ==
    []<>(\A e \in Role : StartOf(Lawful(said[Other(e)]), heard[e]))

(* Two Closes that cross complete the handshake on both sides, each being the *)
(* answer to the other.                                                       *)
CrossingCloses ==
    []<>((\A e \in Role : Closing(said[e])) => \A e \in Role : conn[e].state = "CLOSED")
=============================================================================
