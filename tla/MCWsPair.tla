------------------------------ MODULE MCWsPair ------------------------------
(***************************************************************************)
(* A text, a binary message that needs the 16-bit length, a ping of the    *)
(* greatest length, a Close; and one misuse of each kind.                  *)
(***************************************************************************)
EXTENDS WsPair

Fill(n) == [i \in 1..n |-> (7 * i) % 256]

MCSpeech == {Says("MESSAGE", WS_OP_TEXT, << 195, 169 >>, 0),
             Says("MESSAGE", WS_OP_BIN, Fill(126), 0),
             Says("PING", WS_OP_TEXT, Fill(125), 0),
             Says("CLOSE", WS_OP_TEXT, << >>, 1000),
             Says("CLOSE", WS_OP_TEXT, << >>, 1005),
             Says("PONG", WS_OP_TEXT, Fill(126), 0),
             Says("MESSAGE", WS_OP_TEXT, << 195 >>, 0)}

MCKey == [i \in 0..3 |-> 3 * i + 1]
=============================================================================
