---------------------------- MODULE WsUtf8Check ----------------------------
(***************************************************************************)
(* ws_utf8_valid against the reference definition, on every text of up to  *)
(* MaxLen bytes of Alphabet, built one byte at a time.                     *)
(***************************************************************************)
EXTENDS WsUtf8, Utf8Ref

CONSTANTS Alphabet, \* bytes a text is made of
          MaxLen    \* longest text

ASSUME AlphabetAssumption == Alphabet \subseteq 0..255

VARIABLE text

TextInit == text = << >>

Extend == Len(text) < MaxLen /\ \E b \in Alphabet : text' = Append(text, b)

Full == Len(text) = MaxLen /\ UNCHANGED text

TextNext == Extend \/ Full

TextSpec == TextInit /\ [][TextNext]_text

(* ws_utf8_valid accepts exactly the UTF-8 of RFC 3629: its table and its    *)
(* two guarded ranges exclude every overlong form, surrogate, truncated      *)
(* sequence and value above U+10FFFF, and nothing else.                      *)
Utf8Exact ==
    ws_utf8_valid([i \in 0..(Len(text) - 1) |-> text[i + 1]], 0, Len(text)) <=> IsUtf8(text)
=============================================================================
