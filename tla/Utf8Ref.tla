------------------------------ MODULE Utf8Ref ------------------------------
(***************************************************************************)
(* UTF-8 as RFC 3629 defines it, independently of the code: a byte string  *)
(* is valid iff it is a concatenation of shortest-form encodings of Unicode*)
(* scalar values.                                                          *)
(***************************************************************************)
EXTENDS Integers, Sequences

\* The number whose bits the n bytes of s from position i carry.
CodePoint(s, i, n) ==
    LET payload(k) == s[i + k] % 64
    IN  CASE n = 1 -> s[i]
          [] n = 2 -> (s[i] % 32) * 64 + payload(1)
          [] n = 3 -> (s[i] % 16) * 4096 + payload(1) * 64 + payload(2)
          [] OTHER -> (s[i] % 8) * 262144 + payload(1) * 4096 + payload(2) * 64 + payload(3)

\* The bit patterns of the first of n bytes.
Lead(n) == CASE n = 1 -> 0..127 [] n = 2 -> 192..223 [] n = 3 -> 224..239 [] OTHER -> 240..247

\* The bytes that may follow the first.
Continuation == 128..191

\* The scalar values that need n bytes.
IsScalar(cp, n) ==
    CASE n = 1 -> cp < 128
      [] n = 2 -> 128 <= cp /\ cp < 2048
      [] n = 3 -> 2048 <= cp /\ cp < 65536 /\ ~(55296 <= cp /\ cp <= 57343)
      [] OTHER -> 65536 <= cp /\ cp <= 1114111

Encodes(s, i, n) ==
    /\ s[i] \in Lead(n)
    /\ \A k \in 1..(n - 1) : s[i + k] \in Continuation
    /\ IsScalar(CodePoint(s, i, n), n)

IsUtf8(s) ==
    LET from[i \in 1..(Len(s) + 1)] ==
            \/ i = Len(s) + 1
            \/ \E n \in 1..4 : i + n - 1 <= Len(s) /\ Encodes(s, i, n) /\ from[i + n]
    IN  from[1]
=============================================================================
