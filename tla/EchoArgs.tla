------------------------------ MODULE EchoArgs ------------------------------
(***************************************************************************)
(* How example/echo_server.c reads its port from argv[1], a sequence of    *)
(* character codes.                                                        *)
(***************************************************************************)
EXTENDS Integers, Sequences

DEFAULT_PORT == 8080

port_digit(acc, ch) == IF ch \notin 48..57 THEN 65536 ELSE acc * 10 + (ch - 48)

\* Slip: the value is tested once, after the last digit, as 16 bits.
parse_from_wraps(s, i, v) ==
    LET value[n \in 0..Len(s)] == IF n = 0 THEN 0 ELSE port_digit(value[n - 1], s[n]) % 65536
    IN  value[Len(s)]

\* parse_port's loop from character i on; a value out of range ends it.
RECURSIVE parse_from(_, _, _)
parse_from(s, i, v) ==
    IF v > 65535 THEN 0 ELSE IF i > Len(s) THEN v ELSE parse_from(s, i + 1, port_digit(v, s[i]))

parse_port(s) == parse_from(s, 1, 0)

\* args is argv without the program's name.
port_from_stack(args) ==
    LET p == IF args = << >> THEN 0 ELSE parse_port(args[1])
    IN  IF p # 0 THEN p ELSE DEFAULT_PORT
=============================================================================
