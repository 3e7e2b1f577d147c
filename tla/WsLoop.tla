------------------------------- MODULE WsLoop -------------------------------
(***************************************************************************)
(* The driver under the loop its callers run: after each read the          *)
(* connection is polled until the first NONE, CLOSE or ERROR, and then not *)
(* again before the next read (drain_events of io_posix.c; the loop of     *)
(* README.md stops at NONE).  The loop is what the caller must do; it may  *)
(* read, poll and send beyond that in any order.                           *)
(***************************************************************************)
EXTENDS WsDelivery

VARIABLE due \* the caller owes a poll

loopVars == << vars, due >>

LoopInit == Init /\ due = FALSE

Reads == Receive /\ due' = (due \/ fed' # fed)

Polls == Poll /\ due' = (ev'.type \notin {"NONE", "CLOSE", "ERROR"})

LoopNext ==
    \/ Reads
    \/ Polls
    \/ (Open \/ Send) /\ UNCHANGED due

LoopSpec == LoopInit /\ [][LoopNext]_loopVars

\* The caller opens the connection, reads what comes and finishes its loops: the
\* last conjunct is weak fairness of a poll that is due, its enabling condition
\* written out (the poll clears due if it changes nothing else).
LoopFairness ==
    /\ WF_vars(Open)
    /\ WF_vars(Receive)
    /\ \/ []<>~(due /\ (PollEarly \/ conn.state # "CONNECTING"))
       \/ []<><< Poll >>_loopVars

LoopFairSpec == LoopSpec /\ LoopFairness

-----------------------------------------------------------------------------
\* The parser accepts every header of the script.
Parseable == \A i \in 1..Len(stream.script) :
    LET f == stream.script[i] IN f.rsv = 0 /\ (f.op \in {8, 9, 10} => f.fin)

\* The peer waits after every frame but pings and pongs.
Unhurried ==
    \A i \in 1..Len(stream.script) :
        stream.script[i].op \notin {WS_OP_PING, WS_OP_PONG}
            => EndOf(stream.script, i) \in stream.stops

(* Every event of a parseable stream of such a peer is reported in the end,  *)
(* though the loop stops at the NONE of a fragment.                          *)
EventuallyDelivered ==
    Parseable /\ Unhurried /\ BareToClient ~> Outline(log) = Outline(Means)
=============================================================================
