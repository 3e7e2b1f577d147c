-------------------------- MODULE WsDeliveryProofs --------------------------
(***************************************************************************)
(* What the driver reports is what the peer's frames mean, for every       *)
(* buffer size, every script, every chunking and every order of the        *)
(* caller's operations.  One inductive invariant, DelInv, on top of IInv:  *)
(* the driver stands at a place in the script, the raw region holds the    *)
(* bytes from there on, and the log is the meaning up to there; a poll     *)
(* moves it one frame on, by PollTaken.  A client takes a masked frame as  *)
(* if it were bare: the meaning is that of the script so taken, which is   *)
(* the script where no client is sent a masked frame.                      *)
(***************************************************************************)
EXTENDS WsDelivery, WsDriverProofs, WsMeaningProofs

-----------------------------------------------------------------------------
(* Delivery: where the driver stands in the script of the peer's stream.    *)

\* s says what t says, but for the payload of a ping or pong.
SameItem(a, e) ==
    /\ a.type = e.type /\ a.op = e.op /\ a.close_code = e.close_code
    /\ a.data = e.data \/ e.type \in {"PING", "PONG"}

Alike(s, t) == Len(s) = Len(t) /\ \A i \in 1..Len(t) : SameItem(s[i], t[i])

\* The driver has taken the first k frames: m is what they mean.
At(k, m) ==
    /\ Alike(log, m.events)
    /\ PatientPeer => log = m.events
    /\ ~conn.failed => fed - conn.rx_len = EndOf(stream.script, k) /\ Tracks(conn, m)

\* The peer went past a stop only once everything before it was consumed.
Waited == ~conn.failed => \A s \in stream.stops : fed > s => fed - conn.rx_len >= s

\* The script as the driver takes it, and what it then means frame by frame.
Taken(role, script) == [i \in 1..Len(script) |-> AsTaken(role, script[i])]

TakenProgress(role, script) == Progress(role, Taken(role, script))

Placed ==
    \E k \in 0..Len(stream.script) : At(k, TakenProgress(conn.role, stream.script)[k])

DelInv ==
    /\ aligned => Waited
    /\ aligned => Placed
    /\ PolitePeer => aligned

\* d has the message and the raw region of c, and is closed if c is.
SameData(c, d) ==
    /\ SameBuffers(c, d) /\ d.role = c.role /\ d.close_code = c.close_code
    /\ d.state = "CLOSED" <=> c.state = "CLOSED"

LEMMA SameDataTracks ==
    ASSUME NEW c, NEW d, SameData(c, d), NEW m, Tracks(c, m) PROVE Tracks(d, m)
BY Zenon DEF SameData, SameBuffers, Tracks, Assembles

\* A step that leaves them alone keeps the invariant.
LEMMA Steady ==
    ASSUME DelInv, SameData(conn, conn'), UNCHANGED << stream, fed, log, aligned >>
    PROVE  DelInv'
<1>1. /\ conn'.role = conn.role /\ conn'.failed = conn.failed /\ conn'.rx_len = conn.rx_len
      /\ stream' = stream /\ fed' = fed /\ log' = log /\ aligned' = aligned
  BY Zenon DEF SameData, SameBuffers
<1>2. Waited => Waited'
  BY Zenon, <1>1 DEF Waited
<1>3. ASSUME NEW k, NEW m, At(k, m) PROVE At(k, m)'
  BY Zenon, <1>1, <1>3, SameDataTracks DEF At, PatientPeer
<1>4. PolitePeer' <=> PolitePeer
  BY Zenon, <1>1 DEF PolitePeer
<1>5. ASSUME Placed PROVE Placed'
  <2>1. PICK k \in 0..Len(stream.script) : At(k, TakenProgress(conn.role, stream.script)[k])
    BY Zenon, <1>5 DEF Placed
  <2>2. PICK m : m = TakenProgress(conn.role, stream.script)[k]
    BY Zenon
  <2>3. At(k, m)'
    BY Zenon, <1>3, <2>1, <2>2
  <2>4. m = TakenProgress(conn.role, stream.script)[k]'
    BY Zenon, <1>1, <2>2
  <2>5. k \in 0..Len(stream'.script)
    BY Zenon, <1>1
  <2>6. QED
    BY Zenon, <2>3, <2>4, <2>5 DEF Placed
<1>6. aligned' <=> aligned
  BY <1>1
<1>7. QED
  BY Zenon, <1>2, <1>4, <1>5, <1>6 DEF DelInv

LEMMA NothingAlike == Alike(<< >>, << >>)
BY SMT DEF Alike

\* A connection just initialised has taken nothing.
LEMMA FreshTracks == ASSUME NEW role PROVE Tracks(ws_conn_init(role), Fresh)
<1>1. PICK c : c = ws_conn_init(role)
  BY Zenon
<1>2. /\ c.state = "CONNECTING" /\ c.frag = "NONE" /\ c.msg_len = 0 /\ c.close_code = 0
  BY Zenon, <1>1 DEF ws_conn_init
<1>3. Fresh.kind = -1 /\ Fresh.body = << >> /\ Fresh.life = "open"
  BY Zenon DEF Fresh
<1>4. Len(<< >>) = 0 /\ Carries(c.msg_buf, 0, << >>)
  BY SMT DEF Carries
<1>5. Assembles(c, Fresh)
  BY Zenon, <1>2, <1>3, <1>4 DEF Assembles, KindOf
<1>6. QED
  BY Zenon, <1>1, <1>2, <1>3, <1>5, FreshType DEF Tracks

LEMMA TakenScript ==
    ASSUME NEW role, NEW script \in Seq(Frames)
    PROVE  /\ Taken(role, script) \in Seq(Frames)
           /\ Len(Taken(role, script)) = Len(script)
           /\ \A i \in 1..Len(script) : Taken(role, script)[i] = AsTaken(role, script[i])
<1>1. PICK n \in Nat : n = Len(script)
  BY Zenon, SeqIsFunction
<1>2. PICK t : t = [i \in 1..n |-> AsTaken(role, script[i])]
  BY Zenon
<1>3. ASSUME NEW i \in 1..n PROVE AsTaken(role, script[i]) \in Frames
  BY Zenon, <1>1, ItemOf, AsTakenType
<1>4. t \in [1..n -> Frames]
  BY Zenon, <1>2, <1>3
<1>5. t \in Seq(Frames) /\ Len(t) = n
  BY Zenon, <1>4, FunctionIsSeq
<1>6. QED
  BY Zenon, <1>1, <1>2, <1>5 DEF Taken

\* The script of the stream and what it means.
LEMMA StreamScript ==
    ASSUME NEW s \in Streams, NEW role \in Role
    PROVE  /\ s.script \in Seq(Frames) /\ s.bytes = EncodeAll(s.script)
           /\ s.means[role] = Progress(role, s.script)[Len(s.script)].events
           /\ Meant(role, Taken(role, s.script), Len(s.script), TakenProgress(role, s.script))
<1>1. /\ s.script \in Seq(Frames) /\ s.bytes = EncodeAll(s.script)
      /\ s.means[role] = Meaning(role, s.script)
  BY Zenon, StreamAssumption
<1>2. PICK t : t = Taken(role, s.script)
  BY Zenon
<1>3. t \in Seq(Frames) /\ Len(t) = Len(s.script)
  BY Zenon, <1>1, <1>2, TakenScript
<1>4. Scripted(t, Len(t), Encoding(t))
  BY Zenon, <1>3, ScriptShape
<1>5. QED
  BY Zenon, <1>1, <1>2, <1>3, <1>4 DEF Meaning, Meant, Scripted, TakenProgress

\* Where no client is sent a masked frame, it is what the script means.
LEMMA TakenAsSent ==
    ASSUME BareToClient, stream.script \in Seq(Frames)
    PROVE  Taken(conn.role, stream.script) = stream.script
<1>1. PICK n, script : n \in Nat /\ script = stream.script /\ n = Len(script)
  BY Zenon, SeqIsFunction
<1>2. ASSUME NEW i \in 1..n PROVE AsTaken(conn.role, script[i]) = script[i]
  <2>1. script[i] \in Frames
    BY Zenon, <1>1, ItemOf
  <2>2. conn.role # "CLIENT" \/ script[i].key = << >>
    BY Zenon, <1>1 DEF BareToClient
  <2>3. QED
    BY Zenon, <2>1, <2>2, AsTakenType
<1>3. script = [i \in 1..n |-> script[i]]
  BY SMT, <1>1
<1>4. [i \in 1..n |-> AsTaken(conn.role, script[i])] = [i \in 1..n |-> script[i]]
  BY Zenon, <1>2
<1>5. QED
  BY Zenon, <1>1, <1>3, <1>4 DEF Taken

LEMMA InitDel == Init => DelInv
<1> SUFFICES ASSUME Init PROVE DelInv
  BY Zenon
<1>1. PICK role \in Roles : conn = ws_conn_init(role)
  BY Zenon DEF Init
<1>2. role \in Role /\ stream \in Streams
  BY Zenon, DriverAssumption DEF Init
<1>3. /\ conn.rx_len = 0 /\ conn.role = role
  BY Zenon, <1>1 DEF ws_conn_init
<1>4. log = << >> /\ fed = 0 /\ aligned
  BY Zenon DEF Init
<1>5. PICK n, p : n = Len(stream.script) /\ p = TakenProgress(role, stream.script)
  BY Zenon
<1>6. Meant(role, Taken(role, stream.script), n, p) /\ stream.script \in Seq(Frames)
  BY Zenon, <1>2, <1>5, StreamScript
<1>7. p[0] = Fresh
  BY Zenon, <1>6, MeaningSteps DEF MeaningChain
<1>8. EndOf(stream.script, 0) = 0 /\ 0 \in 0..n
  BY Zenon, <1>5, <1>6, StreamEnds
<1>9. Fresh.events = << >>
  BY Zenon DEF Fresh
<1>10. fed - conn.rx_len = 0
  BY SMT, <1>3, <1>4
<1>11. At(0, Fresh)
  BY Zenon, <1>1, <1>4, <1>8, <1>9, <1>10, NothingAlike, FreshTracks DEF At
<1>12. Waited
  <2>1. \A s \in stream.stops : s \in Nat
    BY Zenon, <1>2, DriverAssumption
  <2>2. \A s \in stream.stops : ~(fed > s)
    BY SMT, <1>4, <2>1
  <2>3. QED
    BY Zenon, <2>2 DEF Waited
<1>13. Placed
  BY Zenon, <1>3, <1>5, <1>7, <1>8, <1>11 DEF Placed
<1>14. QED
  BY SMTT(30), <1>4, <1>12, <1>13 DEF DelInv

LEMMA OpenDel == IInv /\ DelInv /\ Open => DelInv'
<1> SUFFICES ASSUME IInv, DelInv, Open PROVE DelInv'
  BY Zenon
<1>1. conn' = ws_conn_open(conn) /\ UNCHANGED << stream, fed, log, aligned >>
  BY Zenon DEF Open
<1>2. ConnInv(conn) /\ conn \in Conn
  BY Zenon DEF IInv, ConnInv
<1>3. /\ SameBuffers(conn, conn')
      /\ \/ conn'.state = conn.state
         \/ conn.state = "CONNECTING" /\ conn'.state = "OPEN"
  BY Zenon, <1>1, <1>2, OpenOK
<1>4. conn'.role = conn.role /\ conn'.close_code = conn.close_code
  BY Zenon, <1>1, <1>2 DEF ws_conn_open, ws_lc_handshake, Conn
<1>5. SameData(conn, conn')
  BY Zenon, <1>3, <1>4 DEF SameData
<1>6. QED
  BY Zenon, <1>1, <1>5, Steady

LEMMA SendDel == IInv /\ DelInv /\ Send => DelInv'
<1> SUFFICES ASSUME IInv, DelInv, Send PROVE DelInv'
  BY Zenon
<1>1. /\ UNCHANGED << stream, fed, ev, log, aligned >>
      /\ \/ conn' = conn
         \/ \E code, cap : conn' = ws_send_close(conn, code, Key, cap).conn
  BY DEF Send, SendMessage, SendPong, SendClose, Emit
<1>2. ConnInv(conn) /\ conn \in Conn
  BY Zenon DEF IInv, ConnInv
<1>3. CASE conn' = conn
  <2>1. SameData(conn, conn')
    BY Zenon, <1>3 DEF SameData, SameBuffers
  <2>2. QED
    BY Zenon, <1>1, <2>1, Steady
<1>4. ASSUME NEW code, NEW cap, conn' = ws_send_close(conn, code, Key, cap).conn
      PROVE  DelInv'
  <2>1. /\ SameBuffers(conn, conn')
        /\ \/ conn' = conn
           \/ conn.state = "OPEN" /\ conn'.state = "CLOSING"
    BY SMTT(30), <1>2, <1>4, SendCloseOK
  <2>2. conn' = conn \/ conn' = ws_lc_send_close(conn)
    BY Zenon, <1>4 DEF ws_send_close
  <2>3. conn'.role = conn.role /\ conn'.close_code = conn.close_code
    BY Zenon, <1>2, <2>2 DEF ws_lc_send_close, Conn
  <2>4. SameData(conn, conn')
    BY Zenon, <2>1, <2>3 DEF SameData
  <2>5. QED
    BY Zenon, <1>1, <2>4, Steady
<1>5. QED
  BY Zenon, <1>1, <1>3, <1>4
\* What a chunk leaves alone of c.
MoreRaw(c, d, n) ==
    /\ SameMessage(c, d) /\ d.rx_len = c.rx_len + n

LEMMA RecvMore ==
    ASSUME NEW c, ConnInv(c), NEW bytes \in Seq(Byte), recv_fits(c, bytes)
    PROVE  MoreRaw(c, ws_conn_recv(c, bytes), Len(bytes))
<1>1. PICK d, at : d = ws_conn_recv(c, bytes) /\ at = c.msg_len + c.rx_len
  BY Zenon
<1>2. c \in Conn /\ c.msg_len \in Nat /\ c.rx_len \in Nat
  BY SMTT(30), CapAssumption DEF ConnInv, Conn
<1>3. /\ d.state = c.state /\ d.frag = c.frag /\ d.msg_len = c.msg_len
      /\ d.rx_len = c.rx_len + Len(bytes) /\ d.failed = c.failed
      /\ \A i \in 0..(at - 1) : d.msg_buf[i] = c.msg_buf[i]
  BY SMTT(30), <1>1, RecvOK
<1>4. d.role = c.role /\ d.close_code = c.close_code
  BY Zenon, <1>1, <1>2 DEF ws_conn_recv, Conn
<1>5. \A i \in 0..(c.msg_len - 1) : i \in 0..(at - 1)
  BY SMTT(30), <1>1, <1>2
<1>6. QED
  BY Zenon, <1>1, <1>3, <1>4, <1>5 DEF MoreRaw, SameMessage

\* A chunk of n bytes goes past a stop only from it.
LEMMA ChunkStops ==
    ASSUME NEW k \in Nat, NEW n \in Nat, NEW s \in Nat, NEW rx \in Nat, NEW rx2,
           k < s => k + n <= s, k = s => rx = 0, k > s => k - rx >= s,
           rx2 = rx + n, k + n > s
    PROVE  (k + n) - rx2 >= s
BY SMT

LEMMA ReceiveDel == IInv /\ DelInv /\ Receive => DelInv'
<1> SUFFICES ASSUME IInv, DelInv, Receive PROVE DelInv'
  BY Zenon
<1>1. PICK n \in Chunks : Recv(n)
  BY Zenon DEF Receive
<1>2. PICK bytes : bytes = SubSeq(stream.bytes, fed + 1, fed + n)
  BY Zenon
<1>3. /\ PeerSends(n) /\ conn' = ws_conn_recv(conn, bytes)
      /\ fed' = IF recv_fits(conn, bytes) THEN fed + n ELSE fed
      /\ stream' = stream /\ log' = log /\ aligned' = aligned
  BY Zenon, <1>1, <1>2 DEF Recv
<1>4. n \in Nat /\ n > 0 /\ stream \in Streams /\ fed \in Nat /\ stream.bytes \in Seq(Byte)
  BY DriverAssumption DEF IInv
<1>5. ConnInv(conn) /\ conn.rx_len \in Nat
  BY Zenon, RawType DEF IInv
<1>6. fed + n <= Len(stream.bytes)
  BY Zenon, <1>3 DEF PeerSends
<1>7. bytes \in Seq(Byte) /\ Len(bytes) = n
  BY Zenon, <1>2, <1>4, <1>6, Chunk
<1>8. CASE ~recv_fits(conn, bytes)
  <2>1. conn' = conn /\ fed' = fed
    BY Zenon, <1>3, <1>8 DEF ws_conn_recv
  <2>2. SameData(conn, conn')
    BY Zenon, <2>1 DEF SameData, SameBuffers
  <2>3. QED
    BY Zenon, <1>3, <2>1, <2>2, Steady
<1>9. CASE recv_fits(conn, bytes)
  <2>1. fed' = fed + n
    BY Zenon, <1>3, <1>9
  <2>2. MoreRaw(conn, conn', n)
    BY Zenon, <1>3, <1>5, <1>7, <1>9, RecvMore
  <2>3. /\ SameMessage(conn, conn') /\ conn'.rx_len = conn.rx_len + n
        /\ conn'.failed = conn.failed /\ conn'.role = conn.role
    BY Zenon, <2>2 DEF MoreRaw, SameMessage
  <2>4. fed' - conn'.rx_len = fed - conn.rx_len
    BY SMTT(30), <1>4, <1>5, <2>1, <2>3
  <2>5. ASSUME Waited PROVE Waited'
    <3>1. SUFFICES ASSUME ~conn.failed, NEW s \in stream.stops, fed' > s
                   PROVE  fed' - conn'.rx_len >= s
      BY Zenon, <1>3, <2>3 DEF Waited
    <3>2. s \in Nat
      BY Zenon, <1>4, DriverAssumption
    <3>3. /\ fed < s => fed + n <= s
          /\ fed = s => conn.rx_len = 0
          /\ fed > s => fed - conn.rx_len >= s
      BY Zenon, <1>3, <2>5, <3>1 DEF PeerSends, Waited
    <3>4. QED
      BY Zenon, <1>4, <1>5, <2>1, <2>3, <3>1, <3>2, <3>3, ChunkStops
  <2>6. ASSUME NEW k, NEW m, At(k, m) PROVE At(k, m)'
    <3>1. Tracks(conn, m) => Tracks(conn', m)
      BY Zenon, <1>5, <2>3, SameTracks DEF ConnInv
    <3>2. QED
      BY Zenon, <1>3, <2>3, <2>4, <2>6, <3>1 DEF At, PatientPeer
  <2>7. ASSUME Placed PROVE Placed'
    <3>1. PICK k \in 0..Len(stream.script) : At(k, TakenProgress(conn.role, stream.script)[k])
      BY Zenon, <2>7 DEF Placed
    <3>2. PICK m : m = TakenProgress(conn.role, stream.script)[k]
      BY Zenon
    <3>3. At(k, m)'
      BY Zenon, <2>6, <3>1, <3>2
    <3>4. m = TakenProgress(conn.role, stream.script)[k]'
      BY Zenon, <1>3, <2>3, <3>2
    <3>5. k \in 0..Len(stream'.script)
      BY Zenon, <1>3
    <3>6. QED
      BY Zenon, <3>3, <3>4, <3>5 DEF Placed
  <2>8. PolitePeer' <=> PolitePeer
    BY Zenon, <1>3 DEF PolitePeer
  <2>9. aligned' <=> aligned
    BY <1>3
  <2>10. QED
    BY Zenon, <2>5, <2>7, <2>8, <2>9 DEF DelInv
<1>10. QED
  BY Zenon, <1>8, <1>9
\* The log after a poll of a connection that has not failed.
Logged(told, r) == IF r.ev.type = "NONE" THEN told ELSE Append(told, Reported(r))

LEMMA AlikeAppended ==
    ASSUME NEW s \in Seq(Told), NEW t \in Seq(Told), Alike(s, t),
           NEW a \in Told, NEW e \in Told, SameItem(a, e)
    PROVE  Alike(Append(s, a), Append(t, e))
BY SMT DEF Alike

\* Two events with the same fields.
LEMMA ToldEqual ==
    ASSUME NEW a \in Told, NEW e \in Told, a.type = e.type, a.op = e.op, a.data = e.data,
           a.close_code = e.close_code
    PROVE  a = e
BY SMT DEF Told

\* The event of r is told with its payload.
Exact(r) == r.conn.rx_len = 0 \/ r.ev.type \notin {"PING", "PONG"}

\* What a poll adds to the log is what its frame adds to the meaning.
LEMMA ToldOnce ==
    ASSUME NEW told \in Seq(Told), NEW m \in MState, NEW n, NEW r, Says1(m, r, n),
           Alike(told, m.events), Reported(r) \in Told
    PROVE  /\ Alike(Logged(told, r), n.events)
           /\ (told = m.events /\ Exact(r)) => Logged(told, r) = n.events
<1>1. CASE r.ev.type = "NONE" /\ n.events = m.events
  BY Zenon, <1>1 DEF Logged
<1>2. ASSUME NEW e \in Told, e.type # "NONE", n.events = Append(m.events, e), Tells(r, e)
      PROVE  /\ Alike(Logged(told, r), n.events)
             /\ (told = m.events /\ Exact(r)) => Logged(told, r) = n.events
  <2>1. PICK a : a = Reported(r)
    BY Zenon
  <2>2. /\ a \in Told /\ a.type = r.ev.type /\ a.op = r.ev.op /\ a.data = EventData(r)
        /\ a.close_code = r.ev.close_code
    BY Zenon, <2>1 DEF Reported
  <2>3. /\ a.type = e.type /\ a.op = e.op /\ a.close_code = e.close_code
        /\ a.data = e.data \/ (e.type \in {"PING", "PONG"} /\ r.conn.rx_len > 0)
    BY Zenon, <1>2, <2>2 DEF Tells
  <2>4. SameItem(a, e)
    BY Zenon, <2>3 DEF SameItem
  <2>5. m.events \in Seq(Told)
    BY Zenon DEF MState
  <2>6. Logged(told, r) = Append(told, a)
    BY Zenon, <1>2, <2>1, <2>2, <2>3 DEF Logged
  <2>7. Alike(Append(told, a), Append(m.events, e))
    BY Zenon, <2>2, <2>4, <2>5, AlikeAppended
  <2>8. ASSUME Exact(r) PROVE a = e
    <3>1. ~(0 > 0)
      BY SMT
    <3>2. a.data = e.data
      BY Zenon, <2>2, <2>3, <2>8, <3>1 DEF Exact
    <3>3. QED
      BY Zenon, <2>2, <2>3, <3>2, ToldEqual
  <2>9. QED
    BY Zenon, <1>2, <2>6, <2>7, <2>8
<1>3. QED
  BY Zenon, <1>1, <1>2 DEF Says1

\* The raw region starts with the next frame of the script.
LEMMA NextInFront ==
    ASSUME IInv, aligned, ~conn.failed, NEW k \in 0..Len(stream.script),
           fed - conn.rx_len = EndOf(stream.script, k), frame_ready(conn)
    PROVE  /\ k + 1 \in 1..Len(stream.script)
           /\ stream.script[k + 1] \in Frames
           /\ FrontIs(raw(conn), conn.rx_len, stream.script[k + 1])
           /\ EndOf(stream.script, k + 1)
                  = (fed - conn.rx_len) + FrameLen(stream.script[k + 1])
<1>1. ConnInv(conn) /\ stream \in Streams /\ fed \in 0..Len(stream.bytes) /\ conn.role \in Role
  BY Zenon DEF IInv, ConnInv, Conn
<1>2. PICK script, n : script = stream.script /\ n = Len(script)
  BY Zenon
<1>3. script \in Seq(Frames) /\ stream.bytes = EncodeAll(script)
  BY Zenon, <1>1, <1>2, StreamScript
<1>4. conn.rx_len \in Nat /\ conn.rx_len >= 2
  <2>1. PICK p : p = ws_parse_header(raw(conn), conn.rx_len)
    BY Zenon
  <2>2. p.rc \in 2..14 /\ p.h.payload_len \in Nat /\ p.rc + p.h.payload_len <= conn.rx_len
    BY Zenon, <1>1, <2>1, ReadyFrame
  <2>3. conn.rx_len \in Nat
    BY Zenon, <1>1, RawType
  <2>4. PICK a \in 2..14, b \in Nat, rx \in Nat :
            a = p.rc /\ b = p.h.payload_len /\ rx = conn.rx_len
    BY Zenon, <2>2, <2>3
  <2>5. a + b <= rx
    BY Zenon, <2>2, <2>4
  <2>6. rx >= 2
    BY SMTT(30), <2>5
  <2>7. QED
    BY Zenon, <2>3, <2>4, <2>6
<1>5. EndOf(script, n) = Len(stream.bytes) /\ stream.bytes \in Seq(Byte)
  BY Zenon, <1>2, <1>3, StreamEnds
<1>6. n \in Nat /\ Len(stream.bytes) \in Nat
  BY Zenon, <1>2, <1>3, <1>5, SeqIsFunction
<1>7. k # n
  <2>1. SUFFICES ASSUME k = n PROVE FALSE
    BY Zenon
  <2>2. fed - conn.rx_len = Len(stream.bytes)
    BY Zenon, <1>2, <1>5, <2>1
  <2>3. PICK len \in Nat, rx \in Nat : len = Len(stream.bytes) /\ rx = conn.rx_len
    BY Zenon, <1>4, <1>6
  <2>4. fed \in 0..len /\ rx >= 2 /\ fed - rx = len
    BY Zenon, <1>1, <1>4, <2>2, <2>3
  <2>5. QED
    BY SMT, <2>4
<1>8. k + 1 \in 1..n /\ (k + 1) - 1 = k
  BY SMTT(30), <1>2, <1>6, <1>7
<1>9. PICK f, at : f = script[k + 1] /\ at = EndOf(script, k)
  BY Zenon
<1>10. /\ f \in Frames /\ at \in Nat /\ EndOf(script, k + 1) = at + FrameLen(f)
       /\ \A i \in 1..FrameLen(f) : stream.bytes[at + i] = Encode(f)[i]
  <2>1. PICK j \in 1..n : j = k + 1 /\ j - 1 = k
    BY Zenon, <1>8
  <2>2. /\ script[j] \in Frames /\ EndOf(script, j - 1) \in Nat
        /\ EndOf(script, j) = EndOf(script, j - 1) + FrameLen(script[j])
        /\ \A i \in 1..FrameLen(script[j]) :
               EncodeAll(script)[EndOf(script, j - 1) + i] = Encode(script[j])[i]
    BY Zenon, <1>2, <1>3, FrameInStream
  <2>3. QED
    BY Zenon, <1>3, <1>9, <2>1, <2>2
<1>11. at = fed - conn.rx_len
  BY Zenon, <1>2, <1>9
<1>12. ASSUME NEW i \in 1..FrameLen(f), i <= conn.rx_len PROVE raw(conn)[i - 1] = Encode(f)[i]
  <2>1. FrameLen(f) \in Nat
    BY Zenon, <1>10, LengthsOf
  <2>2. i - 1 \in 0..(conn.rx_len - 1) /\ (fed - conn.rx_len) + (i - 1) + 1 = at + i
    <3>1. PICK rx \in Nat, len \in Nat, b \in Nat : rx = conn.rx_len /\ len = FrameLen(f) /\ b = at
      BY Zenon, <1>4, <1>10, <2>1
    <3>2. fed \in Nat
      BY SMTT(30), <1>1, <1>6
    <3>3. i \in 1..len /\ i <= rx /\ b = fed - rx
      BY Zenon, <1>11, <1>12, <3>1
    <3>4. i - 1 \in 0..(rx - 1) /\ (fed - rx) + (i - 1) + 1 = b + i
      BY SMTT(30), <3>2, <3>3
    <3>5. QED
      BY Zenon, <3>1, <3>4
  <2>3. raw(conn)[i - 1] = conn.msg_buf[conn.msg_len + (i - 1)]
    BY Zenon, <2>2 DEF raw
  <2>4. RawIsUnparsedStream
    BY Zenon DEF IInv, LayoutHolds
  <2>5. conn.msg_buf[conn.msg_len + (i - 1)] = stream.bytes[fed - conn.rx_len + (i - 1) + 1]
    BY Zenon, <2>2, <2>4 DEF RawIsUnparsedStream
  <2>6. QED
    BY Zenon, <1>10, <2>2, <2>3, <2>5
<1>13. QED
  BY Zenon, <1>2, <1>8, <1>9, <1>10, <1>11, <1>12 DEF FrontIs

\* Where the peer waits after the frame of a poll, the poll leaves nothing behind.
LEMMA NothingBehind ==
    ASSUME NEW k \in Nat, NEW rx \in Nat, NEW len \in Nat, len >= 2, NEW left \in Nat,
           left = rx - len, NEW s, s = (k - rx) + len, k > s => k - rx >= s
    PROVE  left = 0
BY SMT

\* A poll that finds no frame, or a connection that failed, changes nothing.
LEMMA IdlePoll ==
    ASSUME NEW c, NEW r, r = ws_conn_poll(c), c.failed \/ ~frame_ready(c)
    PROVE  /\ r.conn = c /\ r.ev.type \in {"NONE", "ERROR"} /\ ~Slips(c, r)
           /\ ~c.failed => r.ev.type = "NONE"
<1>1. CASE c.failed
  <2>1. r = Result(c, Event("ERROR"))
    BY Zenon, <1>1 DEF ws_conn_poll
  <2>2. r.conn = c /\ r.ev = Event("ERROR") /\ Event("ERROR").type = "ERROR"
    <3>1. Event("ERROR").type = "ERROR"
      BY Zenon DEF Event
    <3>2. PICK e : e = Event("ERROR")
      BY Zenon
    <3>3. r = [conn |-> c, ev |-> e]
      BY Zenon, <2>1, <3>2 DEF Result
    <3>4. r.conn = c /\ r.ev = e
      BY SMTT(30), <3>3
    <3>5. QED
      BY Zenon, <3>1, <3>2, <3>4
  <2>3. QED
    BY Zenon, <1>1, <2>2 DEF Slips
<1>2. CASE ~c.failed
  <2>1. r = Result(c, Event("NONE"))
    BY Zenon, <1>2 DEF ws_conn_poll
  <2>2. r.conn = c /\ r.ev = Event("NONE") /\ Event("NONE").type = "NONE"
    <3>1. Event("NONE").type = "NONE"
      BY Zenon DEF Event
    <3>2. PICK e : e = Event("NONE")
      BY Zenon
    <3>3. r = [conn |-> c, ev |-> e]
      BY Zenon, <2>1, <3>2 DEF Result
    <3>4. r.conn = c /\ r.ev = e
      BY SMT, <3>3
    <3>5. QED
      BY Zenon, <3>1, <3>2, <3>4
  <2>3. QED
    BY Zenon, <2>2 DEF Slips
<1>3. QED
  BY Zenon, <1>1, <1>2

\* A poll that takes a frame: r is its result, m the meaning before it, k frames
\* into the script, n the meaning after it.
TakesOne(k, m, r, n) ==
    /\ k \in 0..Len(stream.script) /\ k + 1 \in 0..Len(stream.script)
    /\ m = TakenProgress(conn.role, stream.script)[k]
    /\ n = TakenProgress(conn.role, stream.script)[k + 1]
    /\ At(k, m) /\ m \in MState /\ r = ws_conn_poll(conn)
    /\ Follows(conn, m, r, n, FrameLen(stream.script[k + 1]))
    /\ Paced(r, stream.script[k + 1])
    /\ EndOf(stream.script, k + 1) = (fed - conn.rx_len) + FrameLen(stream.script[k + 1])
    /\ k + 1 \in 1..Len(stream.script) /\ stream.script[k + 1] \in Frames

LEMMA StepExists ==
    ASSUME IInv, DelInv, aligned, ~conn.failed, conn.state # "CONNECTING", frame_ready(conn)
    PROVE  \E k, m, r, n : TakesOne(k, m, r, n)
<1>1. PICK k \in 0..Len(stream.script) : At(k, TakenProgress(conn.role, stream.script)[k])
  BY Zenon DEF DelInv, Placed
<1>2. PICK p, len : p = TakenProgress(conn.role, stream.script) /\ len = Len(stream.script)
  BY Zenon
<1>3. PICK m, r : m = p[k] /\ r = ws_conn_poll(conn)
  BY Zenon
<1>4. fed - conn.rx_len = EndOf(stream.script, k) /\ Tracks(conn, m)
  BY Zenon, <1>1, <1>2, <1>3 DEF At
<1>5. PICK f : f = stream.script[k + 1]
  BY Zenon
<1>6. /\ k + 1 \in 1..len /\ f \in Frames /\ FrontIs(raw(conn), conn.rx_len, f)
      /\ EndOf(stream.script, k + 1) = (fed - conn.rx_len) + FrameLen(f)
  BY Zenon, <1>2, <1>4, <1>5, NextInFront
<1>7. ConnInv(conn) /\ conn.role \in Role /\ stream \in Streams
  BY Zenon DEF IInv, ConnInv, Conn
<1>8. PICK n : n = Takes(conn.role, m, AsTaken(conn.role, f))
  BY Zenon
<1>9. Follows(conn, m, r, n, FrameLen(f)) /\ Paced(r, f)
  BY Zenon, <1>3, <1>4, <1>6, <1>7, <1>8, PollTaken
<1>10. /\ Meant(conn.role, Taken(conn.role, stream.script), len, p)
       /\ stream.script \in Seq(Frames)
  BY Zenon, <1>2, <1>7, StreamScript
<1>11. MeaningChain(conn.role, Taken(conn.role, stream.script), len, p) /\ len \in Nat
  BY Zenon, <1>10, MeaningSteps DEF Meant
<1>12. n = p[k + 1] /\ k + 1 \in 0..len
  <2>1. PICK j \in 1..len : j = k + 1 /\ j - 1 = k /\ j \in 0..len
    <3>1. (k + 1) - 1 = k /\ k + 1 \in 0..len
      BY SMT, <1>2, <1>6, <1>11
    <3>2. QED
      BY Zenon, <1>6, <3>1
  <2>2. p[j] = Takes(conn.role, p[j - 1], Taken(conn.role, stream.script)[j])
    BY Zenon, <1>11 DEF MeaningChain
  <2>3. Taken(conn.role, stream.script)[j] = AsTaken(conn.role, stream.script[j])
    BY Zenon, <1>2, <1>10, TakenScript
  <2>4. QED
    BY Zenon, <1>3, <1>5, <1>8, <2>1, <2>2, <2>3
<1>13. m \in MState
  BY Zenon, <1>4 DEF Tracks
<1>14. TakesOne(k, m, r, n)
  BY Zenon, <1>1, <1>2, <1>3, <1>5, <1>6, <1>9, <1>12, <1>13 DEF TakesOne
<1>15. QED
  BY Zenon, <1>14
\* What it leaves behind where the peer waits after it: nothing.
LEMMA LeavesNothing ==
    ASSUME IInv, Waited, ~conn.failed, NEW k, NEW m, NEW r, NEW n, TakesOne(k, m, r, n),
           EndOf(stream.script, k + 1) \in stream.stops, ~r.conn.failed
    PROVE  r.conn.rx_len = 0
<1>1. PICK len, s : len = FrameLen(stream.script[k + 1]) /\ s = EndOf(stream.script, k + 1)
  BY Zenon
<1>2. /\ s = (fed - conn.rx_len) + len /\ s \in stream.stops
      /\ r.conn.rx_len = conn.rx_len - len /\ r = ws_conn_poll(conn)
  BY Zenon, <1>1 DEF TakesOne, Follows
<1>3. len \in Nat /\ len >= 2
  BY Zenon, <1>1, LengthsOf DEF TakesOne
<1>4. ConnInv(conn) /\ fed \in 0..Len(stream.bytes)
  BY Zenon DEF IInv
<1>5. conn.rx_len \in Nat
  BY Zenon, <1>4, RawType
<1>6. r.conn.rx_len \in Nat
  <2>1. ConnInv(r.conn)
    BY Zenon, <1>2, <1>4, PollResult DEF PollOK
  <2>2. QED
    BY Zenon, <2>1, RawType
<1>7. fed \in Nat
  BY SMT, <1>4
<1>8. fed > s => fed - conn.rx_len >= s
  BY Zenon, <1>2 DEF Waited
<1>9. QED
  BY Zenon, <1>2, <1>3, <1>5, <1>6, <1>7, <1>8, NothingBehind

\* A poll takes the next frame of the script, says what it means and keeps the
\* invariant; a message ends with bytes behind it only if the peer did not wait.
LEMMA PollDel ==
    ASSUME ~PollEarly, IInv, DelInv, Poll PROVE DelInv'
<1>1. PICK r : r = ws_conn_poll(conn)
  BY Zenon
<1>2. /\ conn.state # "CONNECTING" /\ conn' = r.conn /\ stream' = stream /\ fed' = fed
      /\ log' = IF r.ev.type = "NONE" \/ conn.failed THEN log ELSE Append(log, Reported(r))
      /\ aligned' = (aligned /\ ~Slips(conn, r))
  BY Zenon, <1>1 DEF Poll
<1>3. PolitePeer' <=> PolitePeer
  BY Zenon, <1>2 DEF PolitePeer
<1>4. aligned' <=> aligned /\ ~Slips(conn, r)
  BY Zenon, <1>2
<1>5. aligned \in BOOLEAN /\ ConnInv(conn) /\ log \in Seq(LogRecord)
  BY Zenon DEF IInv
<1>6. CASE ~aligned
  BY Zenon, <1>3, <1>4, <1>6 DEF DelInv
<1>7. CASE conn.failed \/ ~frame_ready(conn)
  <2>1. /\ r.conn = conn /\ ~Slips(conn, r)
        /\ ~conn.failed => r.ev.type = "NONE"
    BY Zenon, <1>1, <1>7, IdlePoll
  <2>2. log' = log /\ conn' = conn
    BY Zenon, <1>2, <2>1
  <2>3. aligned' = aligned
    BY <1>2, <1>5, <2>1
  <2>4. SameData(conn, conn')
    BY Zenon, <2>2 DEF SameData, SameBuffers
  <2>5. QED
    BY Zenon, <1>2, <2>2, <2>3, <2>4, Steady
<1>8. CASE aligned /\ ~conn.failed /\ frame_ready(conn)
  <2>1. PICK k, m, n : TakesOne(k, m, r, n)
    <3>1. PICK k, m, q, n : TakesOne(k, m, q, n)
      BY Zenon, <1>2, <1>8, StepExists
    <3>2. q = r
      BY Zenon, <1>1, <3>1 DEF TakesOne
    <3>3. QED
      BY Zenon, <3>1, <3>2
  <2>2. PICK j, f, len : j = k + 1 /\ f = stream.script[j] /\ len = FrameLen(f)
    BY Zenon
  <2>3. /\ j \in 0..Len(stream.script) /\ n = TakenProgress(conn.role, stream.script)[j]
        /\ At(k, m) /\ m \in MState /\ Follows(conn, m, r, n, len) /\ Paced(r, f)
        /\ EndOf(stream.script, j) = (fed - conn.rx_len) + len
        /\ j \in 1..Len(stream.script) /\ f \in Frames
    BY Zenon, <2>1, <2>2 DEF TakesOne
  <2>4. /\ Says1(m, r, n) /\ r.conn.role = conn.role
        /\ ~r.conn.failed => Tracks(r.conn, n) /\ r.conn.rx_len = conn.rx_len - len
    BY Zenon, <2>3 DEF Follows
  <2>5. Waited
    BY Zenon, <1>8 DEF DelInv
  <2>6. /\ ConnInv(r.conn) /\ (r.ev.type = "ERROR" <=> r.conn.failed)
        /\ r.ev \in EventRecord /\ r.ev.data + r.ev.len <= Cap
    BY Zenon, <1>1, <1>5, PollResult DEF PollOK
  <2>7. ASSUME EndOf(stream.script, j) \in stream.stops, ~r.conn.failed
        PROVE  r.conn.rx_len = 0
    BY Zenon, <1>8, <2>1, <2>2, <2>5, <2>7, LeavesNothing
  <2>8. log' = Logged(log, r)
    BY Zenon, <1>2, <1>8 DEF Logged
  <2>9. Reported(r) \in Told /\ log \in Seq(Told)
    <3>1. LogRecord = Told
      BY Zenon DEF LogRecord, Told
    <3>2. QED
      BY Zenon, <1>5, <2>6, <3>1, ReportedType
  <2>10. Alike(log, m.events)
    BY Zenon, <2>3 DEF At
  <2>11. /\ Alike(log', n.events)
         /\ (log = m.events /\ Exact(r)) => log' = n.events
    BY Zenon, <2>3, <2>4, <2>8, <2>9, <2>10, ToldOnce
  <2>12. ASSUME PatientPeer PROVE log' = n.events
    <3>1. log = m.events
      BY Zenon, <2>3, <2>12 DEF At
    <3>2. EndOf(stream.script, j) \in stream.stops
      BY Zenon, <2>3, <2>12 DEF PatientPeer
    <3>3. Exact(r)
      BY Zenon, <2>6, <2>7, <3>2 DEF Exact
    <3>4. QED
      BY Zenon, <2>11, <3>1, <3>3
  <2>13. conn.rx_len \in Nat /\ r.conn.rx_len \in Nat /\ len \in Nat /\ fed \in Nat
    <3>1. fed \in 0..Len(stream.bytes)
      BY Zenon DEF IInv
    <3>2. fed \in Nat
      BY SMT, <3>1
    <3>3. QED
      BY Zenon, <1>5, <2>2, <2>3, <2>6, <3>2, RawType, LengthsOf
  <2>14. ASSUME ~r.conn.failed
         PROVE  /\ fed - r.conn.rx_len = EndOf(stream.script, j)
                /\ fed - r.conn.rx_len >= fed - conn.rx_len
    <3>1. PICK rx \in Nat, left \in Nat : rx = conn.rx_len /\ left = r.conn.rx_len
      BY Zenon, <2>13
    <3>2. left = rx - len
      BY Zenon, <2>4, <2>14, <3>1
    <3>3. fed - left = (fed - rx) + len /\ fed - left >= fed - rx
      BY SMTT(30), <2>13, <3>2
    <3>4. QED
      BY Zenon, <2>3, <3>1, <3>3
  <2>15. At(j, n)'
    <3>1. PatientPeer' <=> PatientPeer
      BY Zenon, <1>2 DEF PatientPeer
    <3>2. QED
      BY Zenon, <1>2, <2>4, <2>11, <2>12, <2>14, <3>1 DEF At
  <2>16. Placed'
    <3>1. n = TakenProgress(conn.role, stream.script)[j]'
      BY Zenon, <1>2, <2>3, <2>4
    <3>2. j \in 0..Len(stream'.script)
      BY Zenon, <1>2, <2>3
    <3>3. QED
      BY Zenon, <2>15, <3>1, <3>2 DEF Placed
  <2>17. Waited'
    <3>1. SUFFICES ASSUME ~r.conn.failed, NEW s \in stream.stops, fed > s
                   PROVE  fed - r.conn.rx_len >= s
      BY Zenon, <1>2 DEF Waited
    <3>2. fed - conn.rx_len >= s
      BY Zenon, <1>8, <2>5, <3>1 DEF Waited
    <3>3. PICK a \in Int, b \in Int : a = fed - conn.rx_len /\ b = fed - r.conn.rx_len
      BY SMTT(30), <2>13
    <3>4. s \in Nat
      BY Zenon, DriverAssumption DEF IInv
    <3>5. b >= a /\ a >= s
      BY Zenon, <2>14, <3>1, <3>2, <3>3
    <3>6. b >= s
      BY SMTT(30), <3>4, <3>5
    <3>7. QED
      BY Zenon, <3>3, <3>6
  <2>18. ASSUME PolitePeer PROVE ~Slips(conn, r)
    <3>1. SUFFICES ASSUME Slips(conn, r) PROVE FALSE
      BY Zenon
    <3>2. r.conn.rx_len > 0 /\ r.ev.type \in {"MESSAGE", "CLOSE"}
      BY Zenon, <3>1 DEF Slips
    <3>3. ~r.conn.failed
      BY Zenon, <2>6, <3>2
    <3>4. EndsMessage(f)
      BY Zenon, <2>3, <3>2 DEF Paced, EndsMessage
    <3>5. EndOf(stream.script, j) \in stream.stops
      BY Zenon, <2>2, <2>3, <2>18, <3>4 DEF PolitePeer
    <3>6. r.conn.rx_len = 0
      BY Zenon, <2>7, <3>3, <3>5
    <3>7. ~(0 > 0)
      BY SMT
    <3>8. QED
      BY Zenon, <3>2, <3>6, <3>7
  <2>19. QED
    BY Zenon, <1>3, <1>4, <1>8, <2>16, <2>17, <2>18 DEF DelInv
<1>9. QED
  BY Zenon, <1>6, <1>7, <1>8
\* Every step of the driver keeps the invariant.
LEMMA NextDel ==
    ASSUME ~PollEarly, IInv, DelInv, [Next]_vars PROVE DelInv'
<1>1. CASE UNCHANGED vars
  <2>1. conn' = conn /\ stream' = stream /\ fed' = fed /\ log' = log /\ aligned' = aligned
    BY Zenon, <1>1 DEF vars
  <2>2. SameData(conn, conn')
    BY Zenon, <2>1 DEF SameData, SameBuffers
  <2>3. QED
    BY Zenon, <2>1, <2>2, Steady
<1>2. QED
  BY Zenon, <1>1, OpenDel, ReceiveDel, PollDel, SendDel DEF Next

-----------------------------------------------------------------------------
(* The properties.                                                          *)

\* An event in outline.
Bared(e) == IF e.type \in {"PING", "PONG"} THEN [e EXCEPT !.data = << >>] ELSE e

LEMMA BaredType == ASSUME NEW e \in Told PROVE Bared(e) \in Told
<1>1. << >> \in Seq(Byte)
  BY SMT
<1>2. QED
  BY Zenon, <1>1 DEF Bared, Told

LEMMA BaredAlike ==
    ASSUME NEW a \in Told, NEW e \in Told, SameItem(a, e) PROVE Bared(a) = Bared(e)
<1>1. /\ a.type = e.type /\ a.op = e.op /\ a.close_code = e.close_code
      /\ a.data = e.data \/ e.type \in {"PING", "PONG"}
  BY Zenon DEF SameItem
<1>2. CASE e.type \notin {"PING", "PONG"}
  <2>1. a = e
    BY Zenon, <1>1, <1>2, ToldEqual
  <2>2. QED
    BY Zenon, <2>1
<1>3. CASE e.type \in {"PING", "PONG"}
  <2>1. PICK x, y : x = Bared(a) /\ y = Bared(e)
    BY Zenon
  <2>2. x \in Told /\ y \in Told
    BY Zenon, <2>1, BaredType
  <2>3. x = [a EXCEPT !.data = << >>] /\ y = [e EXCEPT !.data = << >>]
    BY Zenon, <1>1, <1>3, <2>1 DEF Bared
  <2>4. /\ x.type = a.type /\ x.op = a.op /\ x.data = << >> /\ x.close_code = a.close_code
        /\ y.type = e.type /\ y.op = e.op /\ y.data = << >> /\ y.close_code = e.close_code
    BY Zenon, <2>3 DEF Told
  <2>5. x = y
    BY Zenon, <1>1, <2>2, <2>4, ToldEqual
  <2>6. QED
    BY Zenon, <2>1, <2>5
<1>4. QED
  BY Zenon, <1>2, <1>3

\* Events in outline.
OutlineIs(s, o) ==
    /\ o \in Seq(Told) /\ Len(o) = Len(s) /\ \A i \in 1..Len(s) : o[i] = Bared(s[i])

LEMMA OutlineShape == ASSUME NEW s \in Seq(Told) PROVE OutlineIs(s, Outline(s))
<1>1. PICK n \in Nat : n = Len(s)
  BY Zenon, SeqIsFunction
<1>2. Outline(s) = [i \in 1..n |-> Bared(s[i])]
  BY Zenon, <1>1 DEF Outline, Bared
<1>3. ASSUME NEW i \in 1..n PROVE Bared(s[i]) \in Told
  BY Zenon, <1>1, ItemOf, BaredType
<1>4. Outline(s) \in [1..n -> Told]
  BY Zenon, <1>2, <1>3
<1>5. Outline(s) \in Seq(Told) /\ Len(Outline(s)) = n
  BY Zenon, <1>4, FunctionIsSeq
<1>6. QED
  BY Zenon, <1>1, <1>2, <1>5 DEF OutlineIs

\* A log like the first events is in outline what they are in outline.
LEMMA OutlineStart ==
    ASSUME NEW told \in Seq(Told), NEW s \in Seq(Told), NEW t \in Seq(Told),
           Alike(told, s), Leads(s, t)
    PROVE  StartOf(Outline(told), Outline(t))
<1>1. PICK a, b : a = Outline(told) /\ b = Outline(t)
  BY Zenon
<1>2. OutlineIs(told, a) /\ OutlineIs(t, b)
  BY Zenon, <1>1, OutlineShape
<1>3. PICK n \in Nat, l \in Nat : n = Len(s) /\ l = Len(t)
  BY Zenon, SeqIsFunction
<1>4. n <= l /\ Len(told) = n /\ Len(a) = n /\ Len(b) = l /\ a \in Seq(Told) /\ b \in Seq(Told)
  BY Zenon, <1>2, <1>3 DEF Leads, Alike, OutlineIs
<1>5. ASSUME NEW i \in 1..n PROVE a[i] = b[i]
  <2>1. i \in 1..l
    BY SMT, <1>4
  <2>2. a[i] = Bared(told[i]) /\ b[i] = Bared(t[i])
    BY Zenon, <1>2, <1>3, <1>4, <2>1 DEF OutlineIs
  <2>3. SameItem(told[i], s[i]) /\ s[i] = t[i]
    BY Zenon, <1>3 DEF Alike, Leads
  <2>4. told[i] \in Told /\ s[i] \in Told
    BY Zenon, <1>3, <1>4, ItemOf
  <2>5. QED
    BY Zenon, <2>2, <2>3, <2>4, BaredAlike
<1>6. Leads(a, b)
  BY Zenon, <1>4, <1>5 DEF Leads
<1>7. QED
  BY Zenon, <1>1, <1>4, <1>6, LeadsIsStart

\* Where the driver stands in the script, the events so far start what it means.
LEMMA StandsInMeaning ==
    ASSUME IInv, DelInv, aligned, BareToClient
    PROVE  \E s \in Seq(Told), t \in Seq(Told) :
               /\ Alike(log, s) /\ (PatientPeer => log = s)
               /\ Leads(s, t) /\ t = Means /\ log \in Seq(Told)
<1>1. PICK k \in 0..Len(stream.script) : At(k, TakenProgress(conn.role, stream.script)[k])
  BY Zenon DEF DelInv, Placed
<1>2. conn.role \in Role /\ stream \in Streams /\ log \in Seq(LogRecord)
  BY Zenon DEF IInv, ConnInv, Conn
<1>3. PICK p, n : p = TakenProgress(conn.role, stream.script) /\ n = Len(stream.script)
  BY Zenon
<1>4. Meant(conn.role, Taken(conn.role, stream.script), n, p) /\ Means = p[n].events
  <2>1. /\ Meant(conn.role, Taken(conn.role, stream.script), n, p)
        /\ stream.script \in Seq(Frames)
        /\ stream.means[conn.role] = Progress(conn.role, stream.script)[n].events
    BY Zenon, <1>2, <1>3, StreamScript
  <2>2. p = Progress(conn.role, stream.script)
    BY Zenon, <1>3, <2>1, TakenAsSent DEF TakenProgress
  <2>3. QED
    BY Zenon, <2>1, <2>2 DEF Means
<1>5. n \in Nat
  BY Zenon, <1>4 DEF Meant
<1>6. n \in 0..n
  BY SMTT(30), <1>5
<1>7. p[k] \in MState /\ p[n] \in MState /\ Leads(p[k].events, p[n].events)
  BY Zenon, <1>3, <1>4, <1>6, MeaningType, MeaningLeads
<1>8. p[k].events \in Seq(Told) /\ p[n].events \in Seq(Told)
  BY Zenon, <1>7 DEF MState
<1>9. Alike(log, p[k].events) /\ (PatientPeer => log = p[k].events)
  BY Zenon, <1>1, <1>3 DEF At
<1>10. LogRecord = Told
  BY Zenon DEF LogRecord, Told
<1>11. QED
  BY Zenon, <1>2, <1>4, <1>7, <1>8, <1>9, <1>10

\* The invariant gives the three properties.
LEMMA DelInvSays ==
    ASSUME IInv, DelInv
    PROVE  DeliveredToPatient /\ DeliveredInOutline /\ AlwaysAligned
<1>1. ASSUME PatientPeer PROVE PolitePeer
  BY Zenon, <1>1 DEF PatientPeer, PolitePeer
<1>2. AlwaysAligned
  BY Zenon DEF AlwaysAligned, DelInv
<1>3. DeliveredInOutline
  <2>1. SUFFICES ASSUME aligned, BareToClient PROVE StartOf(Outline(log), Outline(Means))
    BY Zenon DEF DeliveredInOutline
  <2>2. PICK s \in Seq(Told), t \in Seq(Told) :
            Alike(log, s) /\ Leads(s, t) /\ t = Means /\ log \in Seq(Told)
    BY Zenon, <2>1, StandsInMeaning
  <2>3. QED
    BY Zenon, <2>2, OutlineStart
<1>4. DeliveredToPatient
  <2>1. SUFFICES ASSUME PatientPeer, BareToClient PROVE StartOf(log, Means)
    BY Zenon DEF DeliveredToPatient, DeliveredInOrder
  <2>2. aligned
    BY Zenon, <1>1, <2>1 DEF DelInv
  <2>3. PICK s \in Seq(Told), t \in Seq(Told) :
            (PatientPeer => log = s) /\ Leads(s, t) /\ t = Means
    BY Zenon, <2>1, <2>2, StandsInMeaning
  <2>4. QED
    BY Zenon, <2>1, <2>3, LeadsIsStart
<1>5. QED
  BY Zenon, <1>2, <1>3, <1>4

\* With a caller that opens the connection before it polls it, DelInv is an
\* inductive invariant of the driver on top of IInv.
THEOREM DeliveryInvariance == ASSUME ~PollEarly PROVE Spec => []DelInv
<1>1. IInv /\ DelInv /\ [Next]_vars => DelInv'
  BY Zenon, NextDel
<1>2. QED
  BY <1>1, InitDel, Invariance, PTL DEF Spec

\* A peer that waits after every frame, and masks none it sends to a client, gets
\* exactly the events its frames stand for, in order, payloads included.
THEOREM PatientServed == ASSUME ~PollEarly PROVE Spec => []DeliveredToPatient
<1>1. IInv /\ DelInv => DeliveredToPatient
  BY Zenon, DelInvSays
<1>2. QED
  BY <1>1, Invariance, DeliveryInvariance, PTL

\* Every peer that masks no frame it sends to a client gets the same, but for the
\* payload of a ping or pong with frames behind it, until a message ends with
\* bytes buffered behind it.
THEOREM OutlineServed == ASSUME ~PollEarly PROVE Spec => []DeliveredInOutline
<1>1. IInv /\ DelInv => DeliveredInOutline
  BY Zenon, DelInvSays
<1>2. QED
  BY <1>1, Invariance, DeliveryInvariance, PTL

\* A peer that waits after each message never makes one end with bytes behind it.
THEOREM PoliteAligned == ASSUME ~PollEarly PROVE Spec => []AlwaysAligned
<1>1. IInv /\ DelInv => AlwaysAligned
  BY Zenon, DelInvSays
<1>2. QED
  BY <1>1, Invariance, DeliveryInvariance, PTL
=============================================================================
