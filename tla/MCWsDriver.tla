----------------------------- MODULE MCWsDriver -----------------------------
(***************************************************************************)
(* Small frames for the driver: text and binary messages whole and in      *)
(* parts, a character split between two frames, empty fragments, control   *)
(* frames, and one frame of each kind the driver refuses.                  *)
(***************************************************************************)
EXTENDS WsDelivery

CONSTANT Pacings \* where the peer waits: "none", "frame", "data" or "message"

Frame(fin, op, payload) ==
    [fin |-> fin, rsv |-> 0, op |-> op, key |-> << 3, 5, 9, 17 >>, payload |-> payload]

Bare(f) == [f EXCEPT !.key = << >>]

\* 195 169 is one character of two bytes; 97 is the letter a.
Text == Frame(TRUE, WS_OP_TEXT, << 97 >>)
TextStart == Frame(FALSE, WS_OP_TEXT, << 97, 195 >>)
TextEnd == Frame(TRUE, WS_OP_CONT, << 169 >>)
EmptyStart == Frame(FALSE, WS_OP_TEXT, << >>)
Cont == Frame(FALSE, WS_OP_CONT, << 98 >>)
EmptyEnd == Frame(TRUE, WS_OP_CONT, << >>)
Bin == Frame(TRUE, WS_OP_BIN, << 195, 7 >>)
Ping == Frame(TRUE, WS_OP_PING, << 112 >>)
Pong == Frame(TRUE, WS_OP_PONG, << >>)
Close == Frame(TRUE, WS_OP_CLOSE, << 3, 232 >>)
CloseEmpty == Frame(TRUE, WS_OP_CLOSE, << >>)

CloseShort == Frame(TRUE, WS_OP_CLOSE, << 3 >>)
CloseReserved == Frame(TRUE, WS_OP_CLOSE, << 3, 237 >>)
BadText == Frame(TRUE, WS_OP_TEXT, << 195 >>)
Reserved == Frame(TRUE, 3, << >>)
Rsv == [Frame(TRUE, WS_OP_BIN, << >>) EXCEPT !.rsv = 4]
PartPing == Frame(FALSE, WS_OP_PING, << >>)

Legal == {Text, TextStart, TextEnd, EmptyStart, Cont, EmptyEnd, Bin, Ping, Pong, Close, CloseEmpty}
Illegal == {CloseShort, CloseReserved, BadText, Bare(Text), Reserved, Rsv, PartPing}

Scripts ==
    {<< f, g >> : f \in Legal \union Illegal, g \in Legal \union Illegal}
    \union {<< f, g, h >> : f \in {TextStart, EmptyStart, Bin, Ping},
                            g \in {Cont, Ping, TextEnd, Text},
                            h \in {TextEnd, EmptyEnd, Bin, Close, Pong}}

MCStreams == {StreamOf(s, p) : s \in Scripts, p \in Pacings}

\* The frames as a server sends them.
Bares(script) == [i \in 1..Len(script) |-> Bare(script[i])]

\* For the runs in which the application sends as well.  The stream of three
\* frames can fill the buffer behind a message in progress.
FewScripts ==
    {<< f, g >> : f \in {TextStart, Text, Ping, Close, Bare(BadText)},
                  g \in {Text, TextEnd, Close, CloseShort}}
    \union {<< TextStart, Ping, TextEnd >>}

MCFewStreams == {StreamOf(s, p) : s \in FewScripts, p \in Pacings}

\* One frame whose header the parser refuses.
MCRefusedStreams == {StreamOf(<< f >>, p) : f \in {Rsv, PartPing}, p \in Pacings}

\* One frame, masked or not.
MCSideStreams ==
    {StreamOf(s, p) : s \in {<< f >> : f \in {Text, Ping, Bare(Text), Bare(Ping)}}, p \in Pacings}

MCSends == {<< WS_OP_TEXT, << 104 >> >>}

MCKey == [i \in 0..3 |-> i + 1]
=============================================================================
