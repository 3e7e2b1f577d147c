----------------------------- MODULE MCWsAccept -----------------------------
(***************************************************************************)
(* A text of digits past two blocks, whose lengths meet every case of the  *)
(* padding; a text of byte values spread over 0..255, past the longest     *)
(* key; the texts of the repository's tests; ports at both ends of their   *)
(* range, with leading zeros, past 16 bits and with a letter.              *)
(***************************************************************************)
EXTENDS WsAcceptCheck

RfcKey == << 100, 71, 104, 108, 73, 72, 78, 104, 98, 88, 66, 115, 90, 83, 66, 117, 98, 50,
             53, 106, 90, 81, 61, 61 >>
RfcAccept == << 115, 51, 112, 80, 76, 77, 66, 105, 84, 120, 97, 81, 57, 107, 89, 71, 122,
                122, 104, 90, 82, 98, 75, 43, 120, 79, 111, 61 >>

Abc == << 97, 98, 99 >>
Digits(n) == [i \in 1..n |-> 48 + ((i - 1) % 10)]
Spread(n) == [i \in 1..n |-> (67 * i + 14) % 256]

Ports == {<< 54, 53, 53, 51, 53 >>, << 54, 53, 53, 51, 54 >>, << 48, 48, 48, 48, 48, 56, 48 >>,
          << 54, 53, 54, 49, 54 >>, << 56, 48, 120 >>}

MCTexts == {Digits(121), Spread(66), RfcKey, Abc} \cup Ports

MCDigests ==
    {<< << >>, << \hda, \h39, \ha3, \hee, \h5e, \h6b, \h4b, \h0d, \h32, \h55,
                  \hbf, \hef, \h95, \h60, \h18, \h90, \haf, \hd8, \h07, \h09 >> >>,
     << Abc, << \ha9, \h99, \h3e, \h36, \h47, \h06, \h81, \h6a, \hba, \h3e,
                \h25, \h71, \h78, \h50, \hc2, \h6c, \h9c, \hd0, \hd8, \h9d >> >>,
     << Digits(56), << \h0a, \h40, \hb8, \hfb, \hda, \haf, \hb7, \hc2, \h96, \h51,
                       \h61, \h8a, \hc1, \h5d, \h27, \he7, \h72, \h28, \h71, \h30 >> >>}

MCAccepts == {<< RfcKey, RfcAccept >>}
=============================================================================
