-------------------------------- MODULE WsIo --------------------------------
(***************************************************************************)
(* The epoll server of src/io/io_posix.c with the handler of               *)
(* example/echo_server.c: one thread that sets up its listener, waits for  *)
(* readable descriptors, accepts, upgrades, feeds each connection's driver *)
(* (WsConn) and writes the replies.  A step of the loop runs from one      *)
(* system call to the next; the clients and the kernel move in between.    *)
(*                                                                         *)
(* Each client connects at most once and follows a script: segments, each  *)
(* sent once the client has got the number of reply symbols it awaits.     *)
(* The kernel joins segments that are not read in time.                    *)
(***************************************************************************)
EXTENDS WsConn, WsUpgrade

CONSTANTS Clients,
          MaxConns, \* WS_IO_MAX_CONNS
          Fds,      \* descriptors accept may return
          HsCap,    \* size of hsbuf, 2048 in the code
          ChunkCap, \* size of chunk in on_client_data, 4096 in the code
          Backlog,  \* argument of listen, 16 in the code
          SendRoom, \* what the kernel buffers for a client that does not read
          MaxFaults,\* bound on the calls that fail
          Scripts,  \* what the clients may do: functions from clients to scripts
          Leavers,  \* clients that may leave
          NoClient

ASSUME IoAssumption ==
    /\ NoClient \notin Clients
    /\ Fds \subseteq Nat \ {0}
    /\ MaxConns \in Nat /\ MaxFaults \in Nat /\ HsCap \in Nat /\ ChunkCap \in Nat
    /\ \A play \in Scripts : \A c \in Clients :
           play[c].segments \in Seq([bytes : Seq(Byte), await : Nat])

LISTEN == 0
Slots == 1..MaxConns
NULL == 0

VARIABLES
    slots,    \* io.conns; hsbuf holds its hslen symbols
    pc,       \* where the thread is
    batch,    \* what epoll_wait returned and is not yet handled; "of" is history:
              \* the client behind the descriptor when the event was raised
    cur,      \* the slot being serviced
    todo,     \* what write_all still has to write
    after,    \* where the thread goes when it is written
    rc,       \* what ws_serve returned
    peer,     \* kernel: the client behind an open descriptor
    interest, \* kernel: the client descriptors registered with epoll
    backlog,  \* kernel: connections not yet accepted
    link,     \* kernel: what became of each client's connection
    rx,       \* kernel: sent by the client, not yet read
    tx,       \* kernel: written to the client, not yet read by it
    script,   \* the clients' scripts, fixed
    sent,     \* segments each client has sent
    got,      \* what each client has read
    gone,     \* the clients that have left
    faults    \* calls that have failed

loop == << pc, batch, cur, todo, after, rc >>
kernel == << peer, interest, backlog, link >>
net == << rx, tx, sent, got, gone >>
vars == << slots, loop, kernel, net, script, faults >>

NoSlot == [fd |-> LISTEN, used |-> FALSE, open |-> FALSE, conn |-> ws_conn_init("SERVER"),
           hsbuf |-> << >>]

Init ==
    /\ slots = [s \in Slots |-> NoSlot]
    /\ pc = "socket" /\ batch = {} /\ cur = NULL /\ todo = << >> /\ after = "loop" /\ rc = 0
    /\ peer = [fd \in Fds |-> NoClient] /\ interest = {} /\ backlog = << >>
    /\ link = [c \in Clients |-> "new"]
    /\ rx = [c \in Clients |-> << >>] /\ tx = [c \in Clients |-> << >>]
    /\ script \in Scripts
    /\ sent = [c \in Clients |-> 0] /\ got = [c \in Clients |-> << >>] /\ gone = {}
    /\ faults = 0

Fault ==
    /\ faults < MaxFaults
    /\ faults' = faults + 1

-----------------------------------------------------------------------------
(* The clients and the network.                                             *)

Listening == pc \notin {"socket", "bind", "listen", "returned", "killed"}
Connected(c) == link[c] \in {"queued", "accepted"}

Connect(c) ==
    /\ Listening
    /\ link[c] = "new"
    /\ Len(backlog) < Backlog
    /\ backlog' = Append(backlog, c)
    /\ link' = [link EXCEPT ![c] = "queued"]
    /\ UNCHANGED << slots, loop, peer, interest, net, script, faults >>

ClientSend(c) ==
    LET segment == script[c].segments[sent[c] + 1]
    IN  /\ Connected(c) /\ c \notin gone
        /\ sent[c] < Len(script[c].segments)
        /\ Len(got[c]) >= segment.await
        /\ rx' = [rx EXCEPT ![c] = @ \o segment.bytes]
        /\ sent' = [sent EXCEPT ![c] = @ + 1]
        /\ UNCHANGED << slots, loop, kernel, tx, got, gone, script, faults >>

ClientRead(c) ==
    /\ tx[c] # << >> /\ c \notin gone
    /\ got' = [got EXCEPT ![c] = @ \o tx[c]]
    /\ tx' = [tx EXCEPT ![c] = << >>]
    /\ UNCHANGED << slots, loop, kernel, rx, sent, gone, script, faults >>

\* The client closes its socket; a reset also discards what was not read.
Leave(c) ==
    /\ c \in Leavers \ gone /\ Connected(c)
    /\ gone' = gone \union {c}
    /\ tx' = [tx EXCEPT ![c] = << >>]
    /\ \E kept \in {rx[c], << >>} : rx' = [rx EXCEPT ![c] = kept]
    /\ UNCHANGED << slots, loop, kernel, sent, got, script, faults >>

-----------------------------------------------------------------------------
(* Setup: socket, bind, listen, epoll.  ws_serve returns the error of the   *)
(* step that fails and ws_main exits.                                       *)

SetupNext == [socket |-> "bind", bind |-> "listen", listen |-> "epoll", epoll |-> "loop"]
SetupError == [socket |-> -1, bind |-> -2, listen |-> -3, epoll |-> -4]

io_setup ==
    /\ pc \in DOMAIN SetupNext
    /\ \/ pc' = SetupNext[pc] /\ UNCHANGED << rc, faults >>
       \/ Fault /\ pc' = "returned" /\ rc' = SetupError[pc]
    /\ UNCHANGED << slots, batch, cur, todo, after, kernel, net, script >>

-----------------------------------------------------------------------------
(* epoll_wait reports every descriptor that is readable: a batch has room   *)
(* for all of them.                                                         *)

Readable(c) == rx[c] # << >> \/ c \in gone

ReadyEvents ==
    {[fd |-> fd, of |-> peer[fd]] : fd \in {f \in interest : Readable(peer[f])}}
    \union {e \in {[fd |-> LISTEN, of |-> NoClient]} : backlog # << >>}

epoll_wait ==
    /\ pc = "loop" /\ batch = {}
    /\ ReadyEvents # {}
    /\ batch' = ReadyEvents
    /\ UNCHANGED << slots, pc, cur, todo, after, rc, kernel, net, script, faults >>

-----------------------------------------------------------------------------
(* The accept path.                                                         *)

\* Slip: the last slot is never found.
alloc_slot_offByOne ==
    LET free == {s \in 1..(MaxConns - 1) : ~slots[s].used}
    IN  IF free = {} THEN NULL ELSE CHOOSE s \in free : \A t \in free : s <= t

alloc_slot ==
    LET free == {s \in Slots : ~slots[s].used}
    IN  IF free = {} THEN NULL ELSE CHOOSE s \in free : \A t \in free : s <= t

\* accept returns the lowest descriptor that is free.
Lowest(fds) == CHOOSE fd \in fds : \A g \in fds : fd <= g

NewSlot(fd) == [NoSlot EXCEPT !.fd = fd, !.used = TRUE]

\* The result is not looked at: a descriptor that is not registered stays so.
epoll_add(fd) ==
    \/ interest' = interest \union {fd} /\ UNCHANGED faults
    \/ Fault /\ UNCHANGED interest

\* Slip: the slot keeps the request and the state of its last connection.
Admit_dirty(fd) ==
    LET c == Head(backlog)
        s == alloc_slot
    IN  /\ backlog' = Tail(backlog)
        /\ IF s = NULL
           THEN /\ link' = [link EXCEPT ![c] = "refused"]
                /\ UNCHANGED << slots, peer, interest, faults >>
           ELSE /\ slots' = [slots EXCEPT ![s].fd = fd, ![s].used = TRUE]
                /\ peer' = [peer EXCEPT ![fd] = c]
                /\ link' = [link EXCEPT ![c] = "accepted"]
                /\ epoll_add(fd)

\* The connection at the head of the queue gets a slot, or is refused.
Admit(fd) ==
    LET c == Head(backlog)
        s == alloc_slot
    IN  /\ backlog' = Tail(backlog)
        /\ IF s = NULL
           THEN /\ link' = [link EXCEPT ![c] = "refused"]
                /\ UNCHANGED << slots, peer, interest, faults >>
           ELSE /\ slots' = [slots EXCEPT ![s] = NewSlot(fd)]
                /\ peer' = [peer EXCEPT ![fd] = c]
                /\ link' = [link EXCEPT ![c] = "accepted"]
                /\ epoll_add(fd)

\* The first disjunct: accept fails, for want of a descriptor.
on_accept(e) ==
    LET free == {fd \in Fds : peer[fd] = NoClient}
    IN  /\ pc = "loop"
        /\ e \in batch /\ e.fd = LISTEN
        /\ batch' = batch \ {e}
        /\ \/ Fault /\ UNCHANGED << slots, kernel >>
           \/ free # {} /\ backlog # << >> /\ Admit(Lowest(free))
        /\ UNCHANGED << pc, cur, todo, after, rc, net, script >>

-----------------------------------------------------------------------------
(* Reading.  A path that returns 1 goes on to "close", one that returns 0   *)
(* back to the loop.                                                        *)

slot_by_fd(fd) ==
    LET hits == {s \in Slots : slots[s].used /\ slots[s].fd = fd}
    IN  IF hits = {} THEN NULL ELSE CHOOSE s \in hits : \A t \in hits : s <= t

Goto(label) == pc' = label /\ UNCHANGED << todo, after >>

\* write_all(bytes), then on to next; send_built writes nothing if nothing was built.
WriteThen(bytes, next) ==
    IF bytes = << >> THEN Goto(next)
    ELSE pc' = "write" /\ todo' = bytes /\ after' = next

\* The driver takes the bytes whole or the connection is closed.
feed(s, slot, bytes) ==
    /\ slots' = [slots EXCEPT ![s] = [slot EXCEPT !.conn = ws_conn_recv(@, bytes)]]
    /\ Goto(IF recv_fits(slot.conn, bytes) THEN "drain" ELSE "close")

\* The request so far: incomplete, complete with or without a key.
handshake_step(s, hsbuf) ==
    LET at == find_sub(hsbuf, BlankLine)
        key == extract_key(SubSeq(hsbuf, 1, at))
    IN  /\ slots' = [slots EXCEPT ![s].hsbuf = hsbuf]
        /\ IF at < 0 THEN Goto(IF Len(hsbuf) >= HsCap THEN "close" ELSE "loop")
           ELSE IF key = << >> THEN Goto("close")
           ELSE WriteThen(send_accept(key), "upgrade")

\* Slip: a read offers the whole of hsbuf, whatever is in it.
service_client_roomy(s, c) ==
    LET slot == slots[s]
        room == IF slot.open THEN ChunkCap ELSE HsCap
        n == IF room < Len(rx[c]) THEN room ELSE Len(rx[c])
        bytes == SubSeq(rx[c], 1, n)
    IN  /\ Readable(c)
        /\ cur' = s
        /\ rx' = [rx EXCEPT ![c] = SubSeq(@, n + 1, Len(@))]
        /\ IF n = 0 THEN Goto("close") /\ UNCHANGED slots
           ELSE IF slot.open THEN feed(s, slot, bytes)
           ELSE handshake_step(s, slot.hsbuf \o bytes)

\* Slip: the end of the stream is not an end.
service_client_noEof(s, c) ==
    LET slot == slots[s]
        room == IF slot.open THEN ChunkCap ELSE HsCap - Len(slot.hsbuf)
        n == IF room < Len(rx[c]) THEN room ELSE Len(rx[c])
        bytes == SubSeq(rx[c], 1, n)
    IN  /\ Readable(c)
        /\ cur' = s
        /\ rx' = [rx EXCEPT ![c] = SubSeq(@, n + 1, Len(@))]
        /\ IF n = 0 THEN Goto("loop") /\ UNCHANGED slots
           ELSE IF slot.open THEN feed(s, slot, bytes)
           ELSE handshake_step(s, slot.hsbuf \o bytes)

\* Sockets block: a read with nothing to read and nobody gone would not return.
service_client(s, c) ==
    LET slot == slots[s]
        room == IF slot.open THEN ChunkCap ELSE HsCap - Len(slot.hsbuf)
        n == IF room < Len(rx[c]) THEN room ELSE Len(rx[c])
        bytes == SubSeq(rx[c], 1, n)
    IN  /\ Readable(c)
        /\ cur' = s
        /\ rx' = [rx EXCEPT ![c] = SubSeq(@, n + 1, Len(@))]
        /\ IF n = 0 THEN Goto("close") /\ UNCHANGED slots
           ELSE IF slot.open THEN feed(s, slot, bytes)
           ELSE handshake_step(s, slot.hsbuf \o bytes)

\* Slip: the event is handled again.
on_readable_again(e) ==
    LET s == slot_by_fd(e.fd)
    IN  /\ pc = "loop"
        /\ e \in batch /\ e.fd # LISTEN
        /\ IF s = NULL THEN UNCHANGED << slots, pc, cur, todo, after, rx >>
           ELSE service_client(s, peer[e.fd])
        /\ UNCHANGED << batch, rc, kernel, tx, sent, got, gone, script, faults >>

on_readable(e) ==
    LET s == slot_by_fd(e.fd)
    IN  /\ pc = "loop"
        /\ e \in batch /\ e.fd # LISTEN
        /\ batch' = batch \ {e}
        /\ IF s = NULL THEN UNCHANGED << slots, pc, cur, todo, after, rx >>
           ELSE service_client(s, peer[e.fd])
        /\ UNCHANGED << rc, kernel, tx, sent, got, gone, script, faults >>

\* Slip: the blank line is taken to be three bytes long.
finish_handshake_short ==
    LET slot == slots[cur]
        off == find_sub(slot.hsbuf, BlankLine) + 3
    IN  /\ pc = "upgrade"
        /\ feed(cur, [slot EXCEPT !.conn = ws_conn_open(ws_conn_init("SERVER")), !.open = TRUE],
                SubSeq(slot.hsbuf, off + 1, Len(slot.hsbuf)))
        /\ UNCHANGED << batch, cur, rc, kernel, net, script, faults >>

\* The rest of finish_handshake, once the 101 is written.
finish_handshake ==
    LET slot == slots[cur]
        off == find_sub(slot.hsbuf, BlankLine) + 4
    IN  /\ pc = "upgrade"
        /\ feed(cur, [slot EXCEPT !.conn = ws_conn_open(ws_conn_init("SERVER")), !.open = TRUE],
                SubSeq(slot.hsbuf, off + 1, Len(slot.hsbuf)))
        /\ UNCHANGED << batch, cur, rc, kernel, net, script, faults >>

-----------------------------------------------------------------------------
(* Events and the echo handler: the connection after it and the frame it    *)
(* sends.  A Close is answered only if the driver builds the answer.        *)

ws_io_send_message(c, op, data) ==
    [conn |-> c, out |-> ws_send_message(c, op, data, NoKey, Cap + 16)]

ws_io_send_pong(c, data) == [conn |-> c, out |-> ws_send_pong(c, data, NoKey, Cap + 16)]

ws_io_send_close(c, code) == ws_send_close(c, code, NoKey, 32)

on_event(r) ==
    CASE r.ev.type = "MESSAGE" -> ws_io_send_message(r.conn, r.ev.op, EventData(r))
      [] r.ev.type = "PING" -> ws_io_send_pong(r.conn, EventData(r))
      [] r.ev.type = "CLOSE" -> ws_io_send_close(r.conn, r.ev.close_code)
      [] OTHER -> [conn |-> r.conn, out |-> << >>]

\* Slip: a Close does not end the connection.
is_terminal_errorOnly(type) == type = "ERROR"

is_terminal(type) == type \in {"CLOSE", "ERROR"}

\* One turn of the loop that polls until NONE.
drain_events ==
    LET r == ws_conn_poll(slots[cur].conn)
        h == on_event(r)
    IN  /\ pc = "drain"
        /\ slots' = [slots EXCEPT ![cur].conn = h.conn]
        /\ IF r.ev.type = "NONE" THEN Goto("loop")
           ELSE WriteThen(h.out, IF is_terminal(r.ev.type) THEN "close" ELSE "drain")
        /\ UNCHANGED << batch, cur, rc, kernel, net, script, faults >>

-----------------------------------------------------------------------------
(* Writing.  The socket blocks while the client's buffer is full.           *)

\* The client behind the connection written to: slot_by_conn finds the slot in service.
Writing == peer[slots[cur].fd]

write_all ==
    LET c == Writing
        room == SendRoom - Len(tx[c])
        n == IF room < Len(todo) THEN room ELSE Len(todo)
    IN  /\ pc = "write"
        /\ c \notin gone /\ room > 0
        /\ tx' = [tx EXCEPT ![c] = @ \o SubSeq(todo, 1, n)]
        /\ todo' = SubSeq(todo, n + 1, Len(todo))
        /\ pc' = IF n = Len(todo) THEN after ELSE pc
        /\ UNCHANGED << slots, batch, cur, after, rc, kernel, rx, sent, got, gone, script, faults >>

\* To a client that has left: the kernel still takes the bytes, or the call fails,
\* which ends an upgrade and is ignored by the handler, or SIGPIPE, which the
\* program neither ignores nor handles, ends the process.
write_to_gone ==
    /\ pc = "write"
    /\ Writing \in gone
    /\ pc' \in {after, IF after = "upgrade" THEN "close" ELSE after, "killed"}
    /\ todo' = << >>
    /\ UNCHANGED << slots, batch, cur, after, rc, kernel, net, script, faults >>

\* Slip: the descriptor is not closed.
slot_close_leaks ==
    LET fd == slots[cur].fd
    IN  /\ pc = "close"
        /\ slots' = [slots EXCEPT ![cur].used = FALSE]
        /\ interest' = interest \ {fd}
        /\ pc' = "loop"
        /\ UNCHANGED << batch, cur, todo, after, rc, peer, link, backlog, net, script, faults >>

slot_close ==
    LET fd == slots[cur].fd
    IN  /\ pc = "close"
        /\ slots' = [slots EXCEPT ![cur].used = FALSE]
        /\ interest' = interest \ {fd}
        /\ peer' = [peer EXCEPT ![fd] = NoClient]
        /\ link' = [link EXCEPT ![peer[fd]] = "closed"]
        /\ pc' = "loop"
        /\ UNCHANGED << batch, cur, todo, after, rc, backlog, net, script, faults >>

-----------------------------------------------------------------------------
run_loop ==
    \/ epoll_wait
    \/ \E e \in batch : on_accept(e) \/ on_readable(e)
    \/ finish_handshake
    \/ drain_events
    \/ write_all
    \/ write_to_gone
    \/ slot_close

Environment ==
    \E c \in Clients : Connect(c) \/ ClientSend(c) \/ ClientRead(c) \/ Leave(c)

Next == io_setup \/ run_loop \/ Environment

Spec == Init /\ [][Next]_vars

\* The thread cannot go on: nothing is readable, or the client it writes to does
\* not read, or it has ended.
Waiting ==
    \/ pc = "loop" /\ batch = {} /\ ReadyEvents = {}
    \/ pc = "write" /\ Writing \notin gone /\ Len(tx[Writing]) >= SendRoom
    \/ pc \in {"returned", "killed"}

\* The kernel runs the thread whenever it can go on; a client that stays sends
\* its segments and reads its replies.
FairSpec ==
    /\ Spec
    /\ []<>Waiting \/ []<><< io_setup \/ run_loop >>_vars
    /\ \A c \in Clients : WF_vars(ClientSend(c)) /\ WF_vars(ClientRead(c))

-----------------------------------------------------------------------------
Label == DOMAIN SetupNext \union {"loop", "upgrade", "drain", "write", "close", "returned", "killed"}

SlotRecord == [fd : Fds \union {LISTEN}, used : BOOLEAN, open : BOOLEAN, conn : Conn,
               hsbuf : Seq(Byte)]

\* The variables have their types; no request outgrows hsbuf.
TypeOK ==
    /\ slots \in [Slots -> SlotRecord]
    /\ \A s \in Slots : Len(slots[s].hsbuf) <= HsCap
    /\ pc \in Label /\ after \in Label /\ cur \in Slots \union {NULL}
    /\ \A e \in batch : e.fd \in Fds \union {LISTEN} /\ e.of \in Clients \union {NoClient}
    /\ rc \in -4..0
    /\ peer \in [Fds -> Clients \union {NoClient}]
    /\ interest \subseteq Fds
    /\ backlog \in Seq(Clients)
    /\ link \in [Clients -> {"new", "queued", "accepted", "refused", "closed"}]
    /\ rx \in [Clients -> Seq(Byte)] /\ sent \in [Clients -> Nat] /\ gone \subseteq Clients
    /\ faults \in 0..MaxFaults

Holds(s, c) == slots[s].used /\ peer[slots[s].fd] = c

(* The pool and the kernel agree, through every way a connection ends: the   *)
(* used slots have descriptors of their own, each open descriptor belongs to *)
(* one used slot and one accepted client (none leaks, none is shared), epoll *)
(* watches open descriptors only, and a slot being serviced is in use.       *)
PoolMatchesKernel ==
    /\ \A s, t \in Slots : slots[s].used /\ slots[t].used /\ slots[s].fd = slots[t].fd => s = t
    /\ \A fd \in Fds : peer[fd] # NoClient <=> \E s \in Slots : slots[s].used /\ slots[s].fd = fd
    /\ \A f, g \in Fds : peer[f] # NoClient /\ peer[f] = peer[g] => f = g
    /\ \A c \in Clients : link[c] = "accepted" <=> \E s \in Slots : Holds(s, c)
    /\ \A fd \in interest : peer[fd] # NoClient
    /\ pc \in {"upgrade", "drain", "write", "close"} => slots[cur].used

(* An event still to be handled speaks of the connection it was raised for,  *)
(* which is still readable, although the batch outlives other connections    *)
(* and accept reuses their descriptors: run_loop never reads a descriptor of *)
(* someone else, and never blocks in read or accept.                         *)
EventsAreFresh ==
    /\ \A e \in batch : IF e.fd = LISTEN THEN backlog # << >>
                        ELSE /\ peer[e.fd] = e.of /\ e.of # NoClient
                             /\ Readable(e.of)
    /\ \A e, f \in batch : e.fd = f.fd => e = f

(* Every client gets its own replies and no others, whole and in order: the  *)
(* answer to its key, then the echo of its messages and pings, whatever      *)
(* shares the pool with it, whoever had its slot or its descriptor before,   *)
(* and wherever its bytes were cut, around the blank line included.          *)
RepliesAreExact ==
    \A c \in Clients \ gone :
        LET seen == got[c] \o tx[c]
        IN  /\ Len(seen) <= Len(script[c].reply)
            /\ seen = SubSeq(script[c].reply, 1, Len(seen))

(* io.h:22, "on_event only ever sees post-OPEN WebSocket events": the driver *)
(* of a slot is polled only once its handshake is done, and never after it   *)
(* has failed or been closed, because the loop drops the connection first,   *)
(* even when the write in between fails.                                     *)
HandlerSeesLive ==
    pc = "drain" => /\ slots[cur].used /\ slots[cur].open
                    /\ ws_lc_active(slots[cur].conn) /\ ~slots[cur].conn.failed

\* The abstract service a state of the server stands for.
Holder == [s \in Slots |-> IF slots[s].used THEN peer[slots[s].fd] ELSE NoClient]
Upgraded == {s \in Slots : slots[s].used /\ slots[s].open}
Past == {c \in Clients : link[c] \in {"refused", "closed"}}

Svc == INSTANCE Service WITH
    Seats <- Slots, queue <- backlog, holder <- Holder, upgraded <- Upgraded, past <- Past

(* The server implements the abstract service: clients are let in first     *)
(* come, first served, none is turned away while a seat is free, a seat is  *)
(* upgraded once and given up once, and a client that was turned away or    *)
(* has left is not let in again.                                            *)
ImplementsService == Svc!Spec

-----------------------------------------------------------------------------
Ended == pc \in {"returned", "killed"}

\* The descriptor of an accepted client is registered with epoll.
Watched(c) == \E fd \in interest : peer[fd] = c

(* A client that leaves, at whatever point of the upgrade, of a message or   *)
(* of a reply, does not keep its slot: again and again the pool is free of   *)
(* connections whose client is gone.  A connection whose epoll_add failed,   *)
(* which the loop never hears of, is left out (Watched).                     *)
SlotsComeBack ==
    []<>(Ended \/ \A c \in Clients : ~(link[c] = "accepted" /\ c \in gone /\ Watched(c)))

\* All the client is due has arrived, and its connection is closed if it asked
\* for that or sent what the server refuses.
Served(c) == got[c] = script[c].reply /\ (script[c].ends => link[c] = "closed")

\* Nothing is left to do for a client, unless its registration failed.
Settled(c) ==
    CASE link[c] = "queued" -> FALSE
      [] link[c] = "accepted" -> c \in gone \/ ~Watched(c) \/ Served(c)
      [] link[c] = "closed" -> c \in gone \/ Served(c)
      [] OTHER -> TRUE

(* Every connection is accepted or refused, and every accepted client that   *)
(* stays gets every reply it is due, however busy the loop is, whoever       *)
(* leaves and whatever the others send.  A client of this kind sends its     *)
(* messages unfragmented.                                                    *)
EveryoneIsServed ==
    []<>(Ended \/ \A c \in Clients : Settled(c) \/ ~script[c].whole)

(* io.h:48, "drives the verified driver and calls `on_event` per event": a   *)
(* message that was read reaches the handler without waiting for the client  *)
(* to send more, in fragments or not.                                        *)
EveryMessageIsHandled ==
    []<>(Ended \/ \A c \in Clients : Settled(c))
=============================================================================
