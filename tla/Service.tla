------------------------------ MODULE Service ------------------------------
(***************************************************************************)
(* What the server promises its clients about connections, without         *)
(* descriptors, events or buffers: there is a fixed number of seats; the   *)
(* client at the head of the queue gets a free one, or is turned away when *)
(* there is none; a seat is upgraded at most once, and given up once.      *)
(***************************************************************************)
EXTENDS Naturals, Sequences

CONSTANTS Clients, Seats, NoClient

VARIABLES queue,    \* clients waiting to be let in
          holder,   \* the client in each seat
          upgraded, \* the seats that have completed the handshake
          past      \* clients that were turned away or have given up their seat

svars == << queue, holder, upgraded, past >>

Init ==
    /\ queue = << >>
    /\ holder = [s \in Seats |-> NoClient]
    /\ upgraded = {}
    /\ past = {}

Holding(c) == \E s \in Seats : holder[s] = c
Waiting(c) == \E i \in 1..Len(queue) : queue[i] = c

\* A client comes at most once.
Join(c) ==
    /\ ~Holding(c) /\ ~Waiting(c) /\ c \notin past
    /\ queue' = Append(queue, c)
    /\ UNCHANGED << holder, upgraded, past >>

Seat(s) ==
    /\ queue # << >>
    /\ holder[s] = NoClient
    /\ holder' = [holder EXCEPT ![s] = Head(queue)]
    /\ queue' = Tail(queue)
    /\ UNCHANGED << upgraded, past >>

TurnAway ==
    /\ queue # << >>
    /\ \A s \in Seats : holder[s] # NoClient
    /\ past' = past \union {Head(queue)}
    /\ queue' = Tail(queue)
    /\ UNCHANGED << holder, upgraded >>

Upgrade(s) ==
    /\ holder[s] # NoClient
    /\ s \notin upgraded
    /\ upgraded' = upgraded \union {s}
    /\ UNCHANGED << queue, holder, past >>

Release(s) ==
    /\ holder[s] # NoClient
    /\ past' = past \union {holder[s]}
    /\ holder' = [holder EXCEPT ![s] = NoClient]
    /\ upgraded' = upgraded \ {s}
    /\ UNCHANGED queue

Next ==
    \/ \E c \in Clients : Join(c)
    \/ \E s \in Seats : Seat(s) \/ Upgrade(s) \/ Release(s)
    \/ TurnAway

Spec == Init /\ [][Next]_svars
=============================================================================
