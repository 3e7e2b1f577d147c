------------------------------- MODULE MCWsIo -------------------------------
(***************************************************************************)
(* Clients for the server: an upgrade cut inside the blank line with a     *)
(* frame in its tail, pings and messages, fragments, and one client for    *)
(* each way the server refuses.  What a client is due is computed by       *)
(* WsMeaning from the frames it sends.                                     *)
(***************************************************************************)
EXTENDS WsIo, WsMeaning, SequencesExt

CONSTANTS c1, c2, c3

MCClients == {c1, c2, c3}

\* Distinct keys have distinct answers.
MCAccept(key) == [i \in 1..Len(key) |-> 300 + key[i]]

Frame(fin, op, payload) ==
    [fin |-> fin, rsv |-> 0, op |-> op, key |-> << 3, 5, 9, 17 >>, payload |-> payload]

Request(key) == << 120, CR, LF, KEY_HEADER, 32 >> \o key \o BlankLine

Echo(e) ==
    CASE e.type = "MESSAGE" -> << 128 + e.op, Len(e.data) >> \o e.data
      [] e.type = "PING" -> << 128 + WS_OP_PONG, Len(e.data) >> \o e.data
      [] OTHER -> << >>

Due(key, frames) ==
    LET events == Meaning("SERVER", frames)
    IN  send_accept(key) \o FlattenSeq([i \in 1..Len(events) |-> Echo(events[i])])

Segment(bytes, await) == [bytes |-> bytes, await |-> await]

\* A client that sends the segments and is due the reply.
Client(segments, reply, ends) ==
    [segments |-> segments, reply |-> reply, ends |-> ends, whole |-> TRUE]

\* A client whose request the server refuses.
Refused(request) == Client(<< Segment(request, 0) >>, << >>, TRUE)

\* A client that upgrades with key, then sends its frames one by one, each when
\* it has all it is due for those before.
Upgrades(key, frames, ends) ==
    Client(<< Segment(Request(key), 0) >> \o
               [i \in 1..Len(frames) |->
                   Segment(Encode(frames[i]), Len(Due(key, SubSeq(frames, 1, i - 1))))],
           Due(key, frames), ends)

Text == Frame(TRUE, WS_OP_TEXT, << 97 >>)
Bin == Frame(TRUE, WS_OP_BIN, << 195 >>)
Ping == Frame(TRUE, WS_OP_PING, << 112 >>)
Close == Frame(TRUE, WS_OP_CLOSE, << 3, 232 >>)
Bare == [Text EXCEPT !.key = << >>]
Huge == Frame(TRUE, WS_OP_BIN, << 1, 2, 3, 4, 5 >>)

\* The request is cut inside the blank line, the frame inside its key.
Early ==
    LET head == Request(<< 65 >>)
        text == Encode(Text)
    IN  Client(<< Segment(SubSeq(head, 1, 8), 0),
                  Segment(SubSeq(head, 9, 10) \o SubSeq(text, 1, 3), 0),
                  Segment(SubSeq(text, 4, 7), 0),
                  Segment(Encode(Close), Len(Due(<< 65 >>, << Text >>))) >>,
               Due(<< 65 >>, << Text >>), TRUE)

Chat == Upgrades(<< 66 >>, << Ping, Bin >>, FALSE)
Unmasked == Upgrades(<< 67, 68 >>, << Bare >>, TRUE)
Quiet == Client(<< >>, << >>, FALSE)
Keyless == Refused(<< 120, CR, LF, CR, LF >>)
Endless == Refused([i \in 1..15 |-> 120])

\* The key is longer than the room for it: the answer is to its front.
LongKey ==
    Client(<< Segment(Request(<< 67, 68, 69 >>), 0),
              Segment(Encode(Close), Len(send_accept(<< 67, 68 >>))) >>,
           send_accept(<< 67, 68 >>), TRUE)

\* A frame that does not fit the message buffer.
TooLong ==
    Client(<< Segment(Request(<< 65 >>), 0), Segment(Encode(Huge), Len(send_accept(<< 65 >>))) >>,
           send_accept(<< 65 >>), TRUE)

\* A message in two fragments, sent without waiting.
Fragments ==
    LET frames == << Frame(FALSE, WS_OP_TEXT, << 97 >>), Frame(TRUE, WS_OP_CONT, << 98 >>) >>
    IN  [Client(<< Segment(Request(<< 65 >>), 0),
                   Segment(Encode(frames[1]), Len(send_accept(<< 65 >>))),
                   Segment(Encode(frames[2]), 0) >>,
                Due(<< 65 >>, frames), FALSE) EXCEPT !.whole = FALSE]

Cast(a, b, c) == c1 :> a @@ c2 :> b @@ c3 :> c

MCScripts == {Cast(Early, Quiet, Keyless), Cast(LongKey, Chat, Quiet),
              Cast(Unmasked, TooLong, Quiet), Cast(Fragments, Quiet, Endless),
              Cast(Chat, Keyless, Keyless)}

\* Only a client that fragments its message.
MCFragments == {Cast(Fragments, Quiet, Quiet)}
=============================================================================
