----------------------------- MODULE MCWsCodec -----------------------------
(***************************************************************************)
(* First bytes: every FIN and opcode, no RSV bit, the first or the last.   *)
(* Second bytes: the length field at its boundaries, masked and not.       *)
(* Extended lengths: around 125/126 for the 16-bit form; around            *)
(* 65535/65536 and the top bit for the 64-bit form.                        *)
(* TLC's integers have 32 bits, so the middle bytes of a 64-bit length are *)
(* zero, except in the lengths refused on the top bit alone.               *)
(* Texts: both ends of every row of kContCount and of every guarded range. *)
(***************************************************************************)
EXTENDS WsCodec, WsUtf8Check

FirstBytes == {fin + 16 * rsv + op : fin \in {0, 128}, rsv \in {0, 1, 4}, op \in 0..15}
SecondBytes == {l7 + m : l7 \in {0, 1, 125, 126, 127}, m \in {0, 128}}

\* The bytes at 0-based position pos of a 16-bit and of a 64-bit length.
Len16(pos) == IF pos = 2 THEN {0, 1, 255} ELSE {0, 125, 126, 127, 255}
Len64(pos) == CASE pos = 2 -> {0, 128}
                [] pos = 7 -> {0, 1}
                [] pos \in {8, 9} -> {0, 255}
                [] OTHER -> {0}

MCLengths == {0, 1, 125, 126, 127, 255, 381, 382, 511, 65407, 65535, 65536, 65791, 130816, 131071}

KeyBytes(pos) == {(17 * pos) % 256}

MCBytes(s) ==
    LET pos == Len(s)
        l7 == s[2] % 128
    IN  CASE pos = 0 -> FirstBytes
          [] pos = 1 -> SecondBytes
          [] pos >= 2 /\ l7 = 126 /\ pos < 4 -> Len16(pos)
          [] pos >= 2 /\ l7 = 127 /\ pos < 10 -> Len64(pos)
          [] OTHER -> KeyBytes(pos)

MCAlphabet == {0, 127, 128, 143, 144, 159, 160, 191, 192, 193, 194, 223,
               224, 225, 237, 238, 239, 240, 241, 244, 245, 255}

\* A header or a text: the two have nothing in common.
MCInit == CodecInit /\ TextInit

MCNext ==
    \/ CodecNext /\ text = << >> /\ UNCHANGED text
    \/ TextNext /\ got = << >> /\ UNCHANGED got

MCSpec == MCInit /\ [][MCNext]_<< got, text >>
=============================================================================
