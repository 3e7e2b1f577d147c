------------------------------ MODULE WsEvents ------------------------------
(***************************************************************************)
(* What an application is told, the bytes by value, and the close codes it *)
(* may be told of (RFC 6455, 7.4).                                         *)
(***************************************************************************)
EXTENDS Integers, Sequences

Says(type, op, data, code) == [type |-> type, op |-> op, data |-> data, close_code |-> code]

CodeAllowed(code) ==
    code \in (1000..1003) \union (1007..1011) \union (3000..4999)

\* s is what t starts with.
StartOf(s, t) == \E n \in 0..Len(t) : s = SubSeq(t, 1, n)
=============================================================================
