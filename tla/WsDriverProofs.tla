--------------------------- MODULE WsDriverProofs ---------------------------
(***************************************************************************)
(* Proofs about WsDriver, for every buffer size, every set of streams and  *)
(* chunk sizes, and every behaviour of the caller: the safety properties   *)
(* follow from one inductive invariant, IInv, which WsConnProofs shows     *)
(* every operation on the connection to keep.                              *)
(***************************************************************************)
EXTENDS WsDriver, WsConnProofs

\* The log ends at an error, and says CLOSE only of a closed connection.
LogInv ==
    \A i \in 1..Len(log) : /\ log[i].type = "ERROR" => conn.failed
                           /\ log[i].type = "CLOSE" => conn.state = "CLOSED"

IInv ==
    /\ ConnInv(conn)
    /\ stream \in Streams /\ fed \in 0..Len(stream.bytes)
    /\ ev \in EventRecord /\ ev.data + ev.len <= Cap
    /\ log \in Seq(LogRecord)
    /\ aligned \in BOOLEAN
    /\ ErrorIffFailed
    /\ LayoutHolds
    /\ LogInv
    /\ NothingAfterTheEnd

\* The invariant holds of a connection just initialised.
LEMMA InitInv == Init => IInv
<1> SUFFICES ASSUME Init PROVE IInv
  OBVIOUS
<1>1. PICK role \in Roles : conn = ws_conn_init(role)
  BY DEF Init
<1>2. ConnInv(conn)
  BY <1>1, InitOK, DriverAssumption
<1>3. conn.rx_len = 0 /\ ~conn.failed
  BY <1>1 DEF ws_conn_init
<1>4. Event("NONE") \in EventRecord /\ Event("NONE").type = "NONE"
      /\ Event("NONE").data + Event("NONE").len <= Cap
  BY EventOK DEF EventType
<1>5. stream \in Streams /\ fed \in 0..Len(stream.bytes)
  BY DriverAssumption DEF Init
<1>6. log \in Seq(LogRecord) /\ Len(log) = 0
  BY DEF Init
<1>7. LayoutHolds
  BY <1>3 DEF LayoutHolds, RawIsUnparsedStream
<1>8. LogInv /\ NothingAfterTheEnd
  BY <1>6 DEF LogInv, NothingAfterTheEnd
<1>9. QED
  BY <1>2, <1>3, <1>4, <1>5, <1>6, <1>7, <1>8 DEF Init, IInv, ErrorIffFailed

\* ws_conn_open keeps the invariant.
LEMMA OpenInv == IInv /\ Open => IInv'
<1> SUFFICES ASSUME IInv, Open PROVE IInv'
  OBVIOUS
<1>1. conn' = ws_conn_open(conn) /\ UNCHANGED << stream, fed, ev, log, out, aligned >>
  BY DEF Open
<1>2. /\ ConnInv(conn') /\ SameBuffers(conn, conn')
      /\ conn.state = "CLOSED" => conn'.state = "CLOSED"
  BY <1>1, OpenOK DEF IInv
<1>3. /\ conn'.failed = conn.failed /\ conn'.rx_len = conn.rx_len
      /\ conn'.msg_len = conn.msg_len /\ conn'.msg_buf = conn.msg_buf
  BY <1>2 DEF SameBuffers
<1>4. LayoutHolds'
  BY <1>1, <1>3 DEF IInv, LayoutHolds, RawIsUnparsedStream
<1>5. LogInv' /\ NothingAfterTheEnd'
  BY <1>1, <1>2, <1>3 DEF IInv, LogInv, NothingAfterTheEnd
<1>6. QED
  BY <1>1, <1>2, <1>3, <1>4, <1>5 DEF IInv, ErrorIffFailed

\* Sending keeps the invariant: it changes no more than the close handshake.
LEMMA SendInv == IInv /\ Send => IInv'
<1> SUFFICES ASSUME IInv, Send PROVE IInv'
  OBVIOUS
<1>1. /\ UNCHANGED << stream, fed, ev, log, aligned >>
      /\ \/ conn' = conn
         \/ \E code, cap : conn' = ws_send_close(conn, code, Key, cap).conn
  BY DEF Send, SendMessage, SendPong, SendClose, Emit
<1>2. /\ ConnInv(conn') /\ SameBuffers(conn, conn')
      /\ conn.state = "CLOSED" => conn'.state = "CLOSED"
  <2>1. CASE conn' = conn
    BY <2>1 DEF IInv, SameBuffers
  <2>2. ASSUME NEW code, NEW cap, conn' = ws_send_close(conn, code, Key, cap).conn
        PROVE  /\ ConnInv(conn') /\ SameBuffers(conn, conn')
               /\ conn.state = "CLOSED" => conn'.state = "CLOSED"
    BY <2>2, SendCloseOK DEF IInv
  <2>3. QED
    BY <1>1, <2>1, <2>2
<1>3. /\ conn'.failed = conn.failed /\ conn'.rx_len = conn.rx_len
      /\ conn'.msg_len = conn.msg_len /\ conn'.msg_buf = conn.msg_buf
  BY <1>2 DEF SameBuffers
<1>4. LayoutHolds'
  BY <1>1, <1>3 DEF IInv, LayoutHolds, RawIsUnparsedStream
<1>5. LogInv' /\ NothingAfterTheEnd'
  BY <1>1, <1>2, <1>3 DEF IInv, LogInv, NothingAfterTheEnd
<1>6. QED
  BY <1>1, <1>2, <1>3, <1>4, <1>5 DEF IInv, ErrorIffFailed

\* The chunk of n bytes that follows the first k of a stream.
LEMMA Chunk ==
    ASSUME NEW s \in Seq(Byte), NEW k \in Nat, NEW n \in Nat, n > 0, k + n <= Len(s)
    PROVE  /\ SubSeq(s, k + 1, k + n) \in Seq(Byte)
           /\ Len(SubSeq(s, k + 1, k + n)) = n
           /\ \A j \in 1..n : SubSeq(s, k + 1, k + n)[j] = s[k + j]
<1>1. PICK a \in Nat, b \in Nat : a = k + 1 /\ b = k + n
  BY SMT
<1>2. SubSeq(s, a, b) \in Seq(Byte)
  BY SMT, <1>1
<1>3. Len(SubSeq(s, a, b)) = n
  BY SMT, <1>1
<1>4. ASSUME NEW j \in 1..n PROVE SubSeq(s, a, b)[j] = s[k + j]
  BY SMT, <1>1
<1>5. QED
  BY Zenon, <1>1, <1>2, <1>3, <1>4

\* Where byte i of the raw region lies when it is one of the n that arrive.
LEMMA Offsets ==
    ASSUME NEW ml \in Nat, NEW rx \in Nat, NEW at, at = ml + rx, NEW n \in Nat, NEW k \in Nat,
           NEW i \in Int, i >= rx, i < rx + n, NEW j, j = i - rx + 1
    PROVE  j \in 1..n /\ ml + i = at + j - 1 /\ k - rx + i + 1 = k + j
OBVIOUS

\* Where byte i of the raw region lay before the k bytes in front were consumed.
LEMMA ShiftedOffsets ==
    ASSUME NEW ml \in Nat, NEW rx \in Nat, NEW k \in 0..rx, NEW left, left = rx - k,
           NEW i \in 0..(left - 1), NEW n \in Nat
    PROVE  /\ k + i \in 0..(rx - 1)
           /\ n - rx + (k + i) + 1 = n - left + i + 1
           /\ ml + (k + i) = ml + k + i
OBVIOUS

\* ws_conn_recv keeps the invariant: the bytes it takes extend the raw region.
LEMMA ReceiveInv == IInv /\ Receive => IInv'
<1> SUFFICES ASSUME IInv, Receive PROVE IInv'
  OBVIOUS
<1>1. PICK n \in Chunks : Recv(n)
  BY DEF Receive
<1> DEFINE bytes == SubSeq(stream.bytes, fed + 1, fed + n)
           at == conn.msg_len + conn.rx_len
<1>2. /\ n \in Nat /\ n > 0 /\ fed \in Nat /\ fed + n <= Len(stream.bytes)
      /\ stream.bytes \in Seq(Byte) /\ Len(stream.bytes) \in Nat
      /\ UNCHANGED << stream, ev, log, out, aligned >>
      /\ conn' = ws_conn_recv(conn, bytes)
      /\ fed' = IF recv_fits(conn, bytes) THEN fed + n ELSE fed
  BY <1>1, DriverAssumption DEF Recv, PeerSends, IInv
<1>3. CASE ~recv_fits(conn, bytes)
  <2>1. UNCHANGED << conn, stream, fed, ev, log, out, aligned >>
    BY Zenon, <1>2, <1>3 DEF ws_conn_recv
  <2>2. QED
    BY <2>1 DEF IInv, ErrorIffFailed, LayoutHolds, RawIsUnparsedStream, LogInv, NothingAfterTheEnd
<1>4. CASE recv_fits(conn, bytes)
  <2>1. /\ bytes \in Seq(Byte) /\ Len(bytes) = n
        /\ \A j \in 1..n : bytes[j] = stream.bytes[fed + j]
    BY Zenon, <1>2, Chunk
  <2>2. fed' = fed + n /\ fed' \in 0..Len(stream.bytes)
    BY <1>2, <1>4
  <2> HIDE DEF bytes, at
  <2>3. at = conn.msg_len + conn.rx_len
    BY DEF at
  <2>4. ConnInv(conn) /\ conn.msg_len \in Nat /\ conn.rx_len \in Nat /\ at \in Nat
    BY <2>3, CapAssumption DEF IInv, ConnInv, Conn
  <2>5. /\ ConnInv(conn')
        /\ conn'.state = conn.state /\ conn'.failed = conn.failed
        /\ conn'.msg_len = conn.msg_len /\ conn'.rx_len = conn.rx_len + n
        /\ \A i \in 0..(at - 1) : conn'.msg_buf[i] = conn.msg_buf[i]
        /\ \A j \in 1..n : conn'.msg_buf[at + j - 1] = bytes[j]
    <3>1. conn' = ws_conn_recv(conn, bytes) /\ Len(bytes) = n /\ bytes \in Seq(Byte)
      BY <1>2, <2>1
    <3>2. /\ ConnInv(conn')
          /\ conn'.state = conn.state /\ conn'.failed = conn.failed
          /\ conn'.msg_len = conn.msg_len /\ conn'.rx_len = conn.rx_len + Len(bytes)
          /\ \A i \in 0..(at - 1) : conn'.msg_buf[i] = conn.msg_buf[i]
          /\ \A j \in 1..Len(bytes) : conn'.msg_buf[at + j - 1] = bytes[j]
      <4>1. ConnInv(conn) /\ recv_fits(conn, bytes)
        BY Zenon, <1>4, <2>4
      <4>2. QED
        BY <2>3, <3>1, <4>1, RecvOK
    <3>3. QED
      BY <3>1, <3>2
  <2>6. LayoutHolds'
    <3> SUFFICES ASSUME aligned, ~conn.failed, NEW i \in 0..(conn'.rx_len - 1)
                 PROVE  conn'.msg_buf[conn'.msg_len + i]
                            = stream.bytes[fed' - conn'.rx_len + i + 1]
      BY <1>2, <2>5 DEF LayoutHolds, RawIsUnparsedStream
    <3>1. fed' - conn'.rx_len + i + 1 = fed - conn.rx_len + i + 1
      BY <1>2, <2>2, <2>4, <2>5
    <3>2. CASE i < conn.rx_len
      <4>1. i \in 0..(conn.rx_len - 1) /\ conn.msg_len + i \in 0..(at - 1)
        BY <2>3, <2>4, <3>2
      <4>2. conn.msg_buf[conn.msg_len + i] = stream.bytes[fed - conn.rx_len + i + 1]
        BY <4>1 DEF IInv, LayoutHolds, RawIsUnparsedStream
      <4>3. QED
        BY <2>5, <3>1, <4>1, <4>2
    <3>3. CASE i >= conn.rx_len
      <4> DEFINE j == i - conn.rx_len + 1
      <4>1. /\ j \in 1..n /\ conn.msg_len + i = at + j - 1
            /\ fed - conn.rx_len + i + 1 = fed + j
        <5>1. i \in Int /\ i < conn.rx_len + n
          BY <1>2, <2>4, <2>5
        <5>2. j = i - conn.rx_len + 1
          OBVIOUS
        <5> HIDE DEF j
        <5>3. n \in Nat /\ fed \in Nat /\ conn.msg_len \in Nat /\ conn.rx_len \in Nat
          BY <1>2, <2>4
        <5>4. QED
          BY <2>3, <3>3, <5>1, <5>2, <5>3, Offsets
      <4> HIDE DEF j
      <4>2. QED
        BY <2>1, <2>5, <3>1, <4>1
    <3>4. QED
      BY <2>4, <3>2, <3>3
  <2>7. LogInv' /\ NothingAfterTheEnd'
    <3>1. log' = log /\ conn'.state = conn.state /\ conn'.failed = conn.failed
      BY Zenon, <1>2, <2>5
    <3>2. LogInv /\ NothingAfterTheEnd
      BY Zenon DEF IInv
    <3>3. QED
      BY <3>1, <3>2 DEF LogInv, NothingAfterTheEnd
  <2>8. QED
    BY Zenon, <1>2, <2>2, <2>5, <2>6, <2>7 DEF IInv, ErrorIffFailed
<1>5. QED
  BY <1>3, <1>4

\* What a poll reports of an event is a record of the log.
LEMMA ReportedType ==
    ASSUME NEW r, ConnInv(r.conn), r.ev \in EventRecord, r.ev.data + r.ev.len <= Cap
    PROVE  Reported(r) \in LogRecord /\ Reported(r).type = r.ev.type
<1>1. /\ r.ev.len \in Nat /\ r.ev.data \in Nat /\ r.conn.msg_buf \in [0..(Cap - 1) -> Byte]
      /\ r.ev.data + r.ev.len <= Cap
  BY CapAssumption DEF EventRecord, ConnInv, Conn
<1>2. ASSUME NEW i \in 1..r.ev.len
      PROVE  r.conn.msg_buf[r.ev.data + i - 1] \in Byte
  <2>1. r.ev.data + i - 1 \in 0..(Cap - 1)
    BY <1>1, CapAssumption
  <2>2. QED
    BY Zenon, <1>1, <2>1
<1>3. EventData(r) \in Seq(Byte)
  BY SMTT(30), <1>1, <1>2 DEF EventData
<1>4. QED
  BY <1>3 DEF Reported, LogRecord, EventRecord

\* ws_conn_poll keeps the invariant.
LEMMA PollInv == IInv /\ Poll => IInv'
<1> SUFFICES ASSUME IInv, Poll PROVE IInv'
  OBVIOUS
<1> DEFINE r == ws_conn_poll(conn)
<1>1. ConnInv(conn) /\ conn.rx_len \in Nat
  BY CapAssumption DEF IInv, ConnInv, Conn
<1>2. PICK k \in 0..conn.rx_len : PollOK(conn, r, k)
  BY <1>1, PollResult
<1>3. conn.failed => r = [conn |-> conn, ev |-> Event("ERROR")]
  BY DEF ws_conn_poll, Result
<1>4. /\ conn' = r.conn /\ ev' = r.ev /\ UNCHANGED << stream, fed, out >>
      /\ log' = IF r.ev.type = "NONE" \/ conn.failed THEN log ELSE Append(log, Reported(r))
      /\ aligned' = (aligned /\ ~Slips(conn, r))
  BY DEF Poll
<1> HIDE DEF r
<1>5. /\ ConnInv(conn') /\ ev' \in EventRecord /\ ev'.data + ev'.len <= Cap
      /\ ErrorIffFailed' /\ aligned' \in BOOLEAN
      /\ stream' \in Streams /\ fed' \in 0..Len(stream'.bytes)
  BY <1>2, <1>4 DEF IInv, PollOK, ErrorIffFailed
<1>6. conn.failed => conn'.failed
  BY <1>3, <1>4
<1>7. LayoutHolds'
  <2> SUFFICES ASSUME aligned', ~conn'.failed, NEW i \in 0..(conn'.rx_len - 1)
               PROVE  conn'.msg_buf[conn'.msg_len + i] = stream.bytes[fed - conn'.rx_len + i + 1]
    BY <1>4 DEF LayoutHolds, RawIsUnparsedStream
  <2>1. Keeps(conn, conn', k) /\ aligned /\ ~conn.failed
    BY Zenon, <1>2, <1>4, <1>6 DEF PollOK, IInv
  <2>2. conn'.rx_len = conn.rx_len - k /\ fed \in Nat
        /\ conn'.msg_buf[conn'.msg_len + i] = conn.msg_buf[conn.msg_len + k + i]
    BY <2>1 DEF Keeps, IInv
  <2>3. /\ k + i \in 0..(conn.rx_len - 1)
        /\ fed - conn.rx_len + (k + i) + 1 = fed - conn'.rx_len + i + 1
        /\ conn.msg_len + (k + i) = conn.msg_len + k + i
    <3>1. conn.msg_len \in Nat
      BY <1>1 DEF ConnInv, Conn
    <3>2. QED
      BY <1>1, <2>2, <3>1, ShiftedOffsets
  <2>4. conn.msg_buf[conn.msg_len + (k + i)] = stream.bytes[fed - conn.rx_len + (k + i) + 1]
    BY Zenon, <2>1, <2>3 DEF IInv, LayoutHolds, RawIsUnparsedStream
  <2>5. QED
    BY Zenon, <2>2, <2>3, <2>4
<1>8. log' \in Seq(LogRecord) /\ LogInv' /\ NothingAfterTheEnd'
  <2>0. conn.state = "CLOSED" => conn'.state = "CLOSED"
    BY <1>2, <1>4 DEF PollOK, LcStep, ws_lc_active
  <2>1. CASE log' = log
    BY <1>6, <2>0, <2>1 DEF IInv, LogInv, NothingAfterTheEnd
  <2>2. CASE log' # log
    <3> DEFINE e == Reported(r)
    <3>1. e \in LogRecord /\ e.type = r.ev.type
      BY <1>2, ReportedType DEF PollOK
    <3>2. log' = Append(log, e) /\ ~conn.failed /\ r.ev.type # "NONE"
      BY <1>4, <2>2
    <3> HIDE DEF e
    <3>3. /\ log \in Seq(LogRecord) /\ log' \in Seq(LogRecord)
          /\ Len(log') = Len(log) + 1 /\ log'[Len(log) + 1] = e
          /\ \A i \in 1..Len(log) : log'[i] = log[i]
      BY <3>1, <3>2 DEF IInv
    <3>4. \A i \in 1..Len(log) : /\ log[i].type # "ERROR"
                                 /\ log[i].type = "CLOSE" => conn.state = "CLOSED"
      BY Zenon, <3>2 DEF IInv, LogInv
    <3>5. /\ e.type = "ERROR" => conn'.failed
          /\ e.type = "CLOSE" => conn'.state = "CLOSED"
          /\ conn.state = "CLOSED" => e.type = "ERROR"
      BY Zenon, <1>2, <1>4, <3>1, <3>2 DEF PollOK
    <3>6. LogInv'
      BY <2>0, <3>3, <3>4, <3>5 DEF LogInv
    <3>7. NothingAfterTheEnd'
      <4>1. NothingAfterTheEnd
        BY Zenon DEF IInv
      <4>2. QED
        BY <3>3, <3>4, <3>5, <4>1 DEF NothingAfterTheEnd
    <3>8. QED
      BY Zenon, <3>3, <3>6, <3>7
  <2>3. QED
    BY <2>1, <2>2
<1>9. QED
  BY <1>5, <1>7, <1>8 DEF IInv

\* Every step of the driver keeps the invariant.
LEMMA NextInv == IInv /\ [Next]_vars => IInv'
<1> SUFFICES ASSUME IInv, [Next]_vars PROVE IInv'
  BY Zenon
<1>1. CASE UNCHANGED vars
  BY <1>1 DEF vars, IInv, ErrorIffFailed, LayoutHolds, RawIsUnparsedStream, LogInv,
              NothingAfterTheEnd
<1>2. QED
  BY Zenon, <1>1, OpenInv, ReceiveInv, PollInv, SendInv DEF Next

\* IInv is an inductive invariant of the driver.
THEOREM Invariance == Spec => []IInv
BY InitInv, NextInv, PTL DEF Spec

-----------------------------------------------------------------------------
(* The properties.                                                          *)

\* Types, SINV1 and the event's pointer, as TypeOK states them.
THEOREM TypeCorrect == Spec => []TypeOK
<1>1. IInv => TypeOK
  BY DEF IInv, TypeOK, ConnInv
<1>2. QED
  BY <1>1, Invariance, PTL

\* The close bits match the state: no call sequence tears the close handshake.
THEOREM CloseBitsCorrect == Spec => []CloseBitsMatchState
<1>1. IInv => CloseBitsMatchState
  BY DEF IInv, CloseBitsMatchState, ConnInv
<1>2. QED
  BY <1>1, Invariance, PTL

\* A message is in progress only on a live connection, and only it has bytes.
THEOREM AssemblyCorrect == Spec => []AssemblyDiscipline
<1>1. IInv => AssemblyDiscipline
  BY DEF IInv, AssemblyDiscipline, ConnInv
<1>2. QED
  BY <1>1, Invariance, PTL

\* The last poll said ERROR exactly when the error is latched.
THEOREM ErrorLatched == Spec => []ErrorIffFailed
<1>1. IInv => ErrorIffFailed
  BY DEF IInv
<1>2. QED
  BY <1>1, Invariance, PTL

\* data_illegal's size test never fires.
THEOREM SizeTestUnreachable == Spec => []TooBigUnreachable
<1>1. IInv => TooBigUnreachable
  BY NotTooBig DEF IInv, TooBigUnreachable
<1>2. QED
  BY <1>1, Invariance, PTL

\* The raw region is the unparsed stream until a message ends with bytes behind
\* it: for every chunking, stream, buffer size and interleaving of polls.
THEOREM LayoutCorrect == Spec => []LayoutHolds
<1>1. IInv => LayoutHolds
  BY DEF IInv
<1>2. QED
  BY <1>1, Invariance, PTL

\* Nothing is reported after an error, and only an error after a Close.
THEOREM EndIsFinal == Spec => []NothingAfterTheEnd
<1>1. IInv => NothingAfterTheEnd
  BY Zenon DEF IInv
<1>2. QED
  BY <1>1, Invariance, PTL

\* How one step changes what the life cycle of a connection sees.
LEMMA StepShape ==
    ASSUME IInv, [Next]_vars
    PROVE  /\ \/ LcStep(conn, conn')
              \/ /\ << conn'.frag, conn'.sent_close, conn'.rcvd_close >>
                        = << conn.frag, conn.sent_close, conn.rcvd_close >>
                 /\ conn.state = "CONNECTING" /\ conn'.state = "OPEN"
              \/ /\ << conn'.frag, conn'.rcvd_close >> = << conn.frag, conn.rcvd_close >>
                 /\ conn.state = "OPEN" /\ conn'.state = "CLOSING" /\ conn'.sent_close
           /\ conn.failed => conn'.failed
<1>1. ConnInv(conn)
  BY DEF IInv
<1>2. CASE UNCHANGED vars
  BY <1>2 DEF vars, LcStep
<1>3. CASE Open
  <2>1. /\ SameBuffers(conn, conn')
        /\ conn'.sent_close = conn.sent_close /\ conn'.rcvd_close = conn.rcvd_close
        /\ \/ conn'.state = conn.state
           \/ conn.state = "CONNECTING" /\ conn'.state = "OPEN"
    BY Zenon, <1>1, <1>3, OpenOK DEF Open
  <2>2. conn'.frag = conn.frag /\ conn'.failed = conn.failed
    BY Zenon, <2>1 DEF SameBuffers
  <2>3. QED
    BY Zenon, <2>1, <2>2 DEF LcStep
<1>4. CASE Receive
  <2>1. PICK n \in Chunks : Recv(n)
    BY <1>4 DEF Receive
  <2> DEFINE bytes == SubSeq(stream.bytes, fed + 1, fed + n)
  <2>2. /\ n \in Nat /\ n > 0 /\ fed \in Nat /\ fed + n <= Len(stream.bytes)
        /\ stream.bytes \in Seq(Byte) /\ conn' = ws_conn_recv(conn, bytes)
    BY <2>1, DriverAssumption DEF Recv, PeerSends, IInv
  <2>3. bytes \in Seq(Byte)
    BY <2>2, Chunk
  <2> HIDE DEF bytes
  <2>4. CASE ~recv_fits(conn, bytes)
    BY Zenon, <2>2, <2>4 DEF ws_conn_recv, LcStep
  <2>5. CASE recv_fits(conn, bytes)
    <3>1. conn' = ws_conn_recv(conn, bytes)
      BY Zenon, <2>2
    <3>2. /\ conn'.state = conn.state /\ conn'.frag = conn.frag /\ conn'.failed = conn.failed
          /\ conn'.sent_close = conn.sent_close /\ conn'.rcvd_close = conn.rcvd_close
      BY <1>1, <2>3, <2>5, <3>1, RecvOK
    <3>3. QED
      BY <3>2 DEF LcStep
  <2>6. QED
    BY <2>4, <2>5
<1>5. CASE Poll
  <2> DEFINE r == ws_conn_poll(conn)
  <2>1. conn' = r.conn
    BY Zenon, <1>5 DEF Poll
  <2>2. LcStep(conn, r.conn)
    BY <1>1, PollResult DEF PollOK
  <2>3. conn.failed => r.conn = conn
    BY DEF ws_conn_poll, Result
  <2>4. QED
    BY Zenon, <2>1, <2>2, <2>3
<1>6. CASE Send
  <2>1. \/ conn' = conn
        \/ \E code, cap : conn' = ws_send_close(conn, code, Key, cap).conn
    BY <1>6 DEF Send, SendMessage, SendPong, SendClose, Emit
  <2>2. CASE conn' = conn
    BY Zenon, <2>2 DEF LcStep
  <2>3. ASSUME NEW code, NEW cap, conn' = ws_send_close(conn, code, Key, cap).conn
        PROVE  /\ SameBuffers(conn, conn') /\ conn'.rcvd_close = conn.rcvd_close
               /\ \/ conn' = conn
                  \/ conn.state = "OPEN" /\ conn'.state = "CLOSING" /\ conn'.sent_close
    BY <1>1, <2>3, SendCloseOK
  <2>4. QED
    BY Zenon, <2>1, <2>2, <2>3 DEF LcStep, SameBuffers
<1>7. QED
  BY Zenon, <1>2, <1>3, <1>4, <1>5, <1>6 DEF Next

\* On a connection that is closed nothing is built, so nothing is sent.
LEMMA ClosedIsSilent ==
    ASSUME IInv, [Next]_vars, conn.state = "CLOSED"
    PROVE  out' = out
<1>1. CASE Send
  <2>1. ~ws_lc_active(conn) /\ conn.state # "OPEN"
    BY Zenon DEF ws_lc_active
  <2>2. Emit(<< >>)
    BY Zenon, <1>1, <2>1 DEF Send, SendMessage, SendPong, SendClose, ws_send_message, ws_send_pong,
                      ws_send_close
  <2>3. QED
    BY <2>2 DEF Emit
<1>2. CASE ~Send
  BY <1>2 DEF Next, vars, Open, Receive, Recv, Poll
<1>3. QED
  BY <1>1, <1>2

\* A closed connection stays closed and silent; close halves and errors stay set.
THEOREM ClosedFinal == Spec => ClosedIsFinal
<1>1. IInv /\ [Next]_vars =>
        [/\ conn.state = "CLOSED" => conn'.state = "CLOSED" /\ out' = out
         /\ conn.sent_close => conn'.sent_close
         /\ conn.failed => conn'.failed]_vars
  <2> SUFFICES ASSUME IInv, [Next]_vars
               PROVE  /\ conn.state = "CLOSED" => conn'.state = "CLOSED" /\ out' = out
                      /\ conn.sent_close => conn'.sent_close
                      /\ conn.failed => conn'.failed
    OBVIOUS
  <2>1. /\ conn.state = "CLOSED" => conn'.state = "CLOSED"
        /\ conn.sent_close => conn'.sent_close
        /\ conn.failed => conn'.failed
    BY Zenon, StepShape DEF LcStep, ws_lc_active
  <2>2. QED
    BY <2>1, ClosedIsSilent
<1>2. QED
  BY <1>1, Invariance, PTL DEF Spec, ClosedIsFinal

\* Every operation of the driver is a step of the life cycle, or none: the
\* driver implements Lifecycle.
THEOREM Refinement == Spec => ImplementsLifecycle
<1>1. Init => LC!Init
  BY DEF Init, ws_conn_init, LC!Init
<1>2. IInv /\ [Next]_vars => [LC!Next]_(LC!lcvars)
  <2> SUFFICES ASSUME IInv, [Next]_vars PROVE [LC!Next]_(LC!lcvars)
    BY Zenon
  <2>1. /\ conn.frag \in {"NONE", "TEXT", "BIN"} /\ conn'.frag \in {"NONE", "TEXT", "BIN"}
        /\ conn'.sent_close \in BOOLEAN
    BY Zenon, NextInv DEF IInv, ConnInv, Conn, Frag
  <2>2. CASE LcStep(conn, conn')
    BY Zenon, <2>1, <2>2 DEF LcStep, ws_lc_active, LC!Next, LC!lcvars, LC!RecvClose, LC!StartFrag,
                      LC!FinishFrag, LC!Active
  <2>3. CASE ~LcStep(conn, conn')
    BY Zenon, <2>1, <2>3, StepShape DEF LC!Next, LC!Handshake, LC!SendClose
  <2>4. QED
    BY <2>2, <2>3
<1>3. QED
  BY <1>1, <1>2, Invariance, PTL DEF Spec, ImplementsLifecycle, LC!Spec

-----------------------------------------------------------------------------
(* One Close frame.  The frames of out are what build_frame wrote, and the  *)
(* opcode is in their first byte.                                           *)

\* A function on 1..n is a sequence over its values.
LEMMA SequenceOf ==
    ASSUME NEW n \in Nat, NEW f, f = [i \in 1..n |-> f[i]], NEW S, \A i \in 1..n : f[i] \in S
    PROVE  f \in Seq(S) /\ Len(f) = n
<1>1. f \in [1..n -> S]
  OBVIOUS
<1>2. QED
  BY <1>1

\* What stands behind the first two bytes leaves the first alone.
LEMMA FirstByte ==
    ASSUME NEW a, NEW b, NEW n \in Nat, NEW f, f = [i \in 1..n |-> f[i]],
           NEW m \in Nat, NEW g, g = [i \in 1..m |-> g[i]],
           NEW k \in Nat, NEW p, p = [i \in 1..k |-> p[i]]
    PROVE  (<< a, b >> \o f \o g \o p)[1] = a
<1> DEFINE S == {a, b} \union {f[i] : i \in 1..n} \union {g[i] : i \in 1..m}
                \union {p[i] : i \in 1..k}
<1>1. /\ a \in S /\ b \in S
      /\ \A i \in 1..n : f[i] \in S
      /\ \A i \in 1..m : g[i] \in S
      /\ \A i \in 1..k : p[i] \in S
  OBVIOUS
<1> HIDE DEF S
<1>2. f \in Seq(S) /\ g \in Seq(S) /\ p \in Seq(S)
  BY Zenon, <1>1, SequenceOf
<1>3. << a, b >> \in Seq(S) /\ Len(<< a, b >>) = 2 /\ << a, b >>[1] = a
  BY <1>1
<1>4. ASSUME NEW s \in Seq(S), Len(s) >= 2, s[1] = a, NEW t \in Seq(S)
      PROVE  s \o t \in Seq(S) /\ Len(s \o t) >= 2 /\ (s \o t)[1] = a
  <2>1. /\ s \o t \in Seq(S) /\ Len(s \o t) = Len(s) + Len(t)
        /\ \A i \in 1..(Len(s) + Len(t)) :
               (s \o t)[i] = IF i <= Len(s) THEN s[i] ELSE t[i - Len(s)]
    BY SMT
  <2>2. Len(s) \in Nat /\ Len(t) \in Nat
    OBVIOUS
  <2>3. QED
    BY <1>4, <2>1, <2>2
<1>5. /\ << a, b >> \o f \in Seq(S) /\ Len(<< a, b >> \o f) >= 2 /\ (<< a, b >> \o f)[1] = a
  BY <1>2, <1>3, <1>4
<1>6. /\ << a, b >> \o f \o g \in Seq(S) /\ Len(<< a, b >> \o f \o g) >= 2
      /\ (<< a, b >> \o f \o g)[1] = a
  BY Zenon, <1>2, <1>4, <1>5
<1>7. QED
  BY Zenon, <1>2, <1>4, <1>6

\* A frame that was built carries the opcode it was built with.
LEMMA BuiltOpcode ==
    ASSUME NEW c, NEW op \in 0..15, NEW payload, Len(payload) \in Nat, NEW cap,
           NEW frame, frame = build_frame(c, op, payload, Key, cap), frame # << >>
    PROVE  OpcodeOf(frame) = op
<1> DEFINE masked == c.role = "CLIENT"
           h == [fin |-> TRUE, rsv |-> 0, opcode |-> op, masked |-> masked,
                 payload_len |-> Len(payload), mask_key |-> IF masked THEN Key ELSE NoKey]
           n == hdr_len(Len(payload)) - 2
           len == write_be(Len(payload), n)
           key == IF masked THEN [i \in 1..4 |-> h.mask_key[i - 1]] ELSE << >>
           text == [i \in 1..Len(payload) |->
                        IF masked THEN Xor(payload[i], Key[(i - 1) % 4]) ELSE payload[i]]
           b0 == HighBit(TRUE) + (op % 16)
           b1 == HighBit(masked) + len_field(Len(payload))
<1>1. frame = << b0, b1 >> \o len \o key \o text
  <2>1. frame = HeaderBytes(h) \o text
    <3> DEFINE b == ws_build_header(h, cap)
    <3>1. frame = IF b.rc < 0 \/ cap - b.rc < Len(payload) THEN << >> ELSE b.bytes \o text
      BY Zenon DEF build_frame
    <3>2. \/ b = [rc |-> WS_ERR_TOO_SMALL, bytes |-> << >>]
          \/ b.bytes = HeaderBytes(h)
      BY Zenon DEF ws_build_header
    <3>3. [rc |-> WS_ERR_TOO_SMALL, bytes |-> << >>].rc < 0
      BY DEF WS_ERR_TOO_SMALL
    <3> HIDE DEF b, h, text
    <3>4. QED
      BY Zenon, <3>1, <3>2, <3>3
  <2>2. HeaderBytes(h) = << b0, b1 >> \o len \o key
    <3>1. /\ h.fin = TRUE /\ h.opcode = op /\ h.masked = masked
          /\ h.payload_len = Len(payload)
      BY Zenon
    <3> HIDE DEF h, masked
    <3>2. QED
      BY Zenon, <3>1 DEF HeaderBytes
  <2>3. QED
    BY Zenon, <2>1, <2>2
<1>2. n \in Nat
  BY DEF hdr_len
<1>3. len = [i \in 1..n |-> len[i]]
  BY DEF write_be
<1>4. PICK m \in {0, 4} : key = [i \in 1..m |-> key[i]]
  OBVIOUS
<1>5. text = [i \in 1..Len(payload) |-> text[i]]
  OBVIOUS
<1>6. b0 % 16 = op
  BY DEF HighBit
<1> HIDE DEF b0, b1, len, key, text, n
<1>7. frame[1] = b0
  BY SMTT(30), <1>1, <1>2, <1>3, <1>4, <1>5, FirstByte
<1>8. QED
  BY <1>6, <1>7 DEF OpcodeOf

Payloads ==
    {s[2] : s \in Sends} \union {<< code \div 256, code % 256 >> : code \in CloseWith}

OutFrames ==
    {build_frame(c, op, payload, Key, cap) :
        c \in Conn, op \in 0..15, payload \in Payloads, cap \in OutCaps}

Closes(frames) == {i \in 1..Len(frames) : OpcodeOf(frames[i]) = WS_OP_CLOSE}

\* OneCloseFrame, with a type for out.
OutInv == out \in Seq(OutFrames) /\ OneCloseFrame

\* Appending a frame adds its index to the Closes exactly when it is one.
LEMMA AppendedClose ==
    ASSUME NEW s \in Seq(OutFrames), NEW f \in OutFrames
    PROVE  /\ Append(s, f) \in Seq(OutFrames)
           /\ OpcodeOf(f) # WS_OP_CLOSE => Closes(Append(s, f)) = Closes(s)
           /\ OpcodeOf(f) = WS_OP_CLOSE => Closes(Append(s, f)) = Closes(s) \union {Len(s) + 1}
<1>1. /\ Append(s, f) \in Seq(OutFrames) /\ Len(Append(s, f)) = Len(s) + 1 /\ Len(s) \in Nat
      /\ \A i \in 1..Len(s) : Append(s, f)[i] = s[i]
      /\ Append(s, f)[Len(s) + 1] = f
  OBVIOUS
<1>2. \A i : i \in 1..(Len(s) + 1) <=> i \in 1..Len(s) \/ i = Len(s) + 1
  BY <1>1
<1>3. Len(s) + 1 \notin 1..Len(s)
  BY <1>1
<1>4. QED
  BY <1>1, <1>2, <1>3 DEF Closes

\* What a step other than a send does to the close handshake.
LEMMA QuietStep ==
    ASSUME IInv, [Next]_vars, ~Send
    PROVE  /\ out' = out
           /\ conn.sent_close => conn'.sent_close
           /\ conn'.state = "CLOSING" => conn.state = "CLOSING"
<1>1. out' = out
  BY DEF Next, vars, Open, Receive, Recv, Poll
<1>2. conn.sent_close => conn'.sent_close
  BY Zenon, StepShape DEF LcStep
<1>3. ConnInv(conn)
  BY DEF IInv
<1>4. conn'.state = "CLOSING" => conn.state = "CLOSING"
  <2>1. CASE Poll
    BY Zenon, <1>3, <2>1, PollResult DEF Poll, PollOK, LcStep
  <2>2. CASE Receive
    BY <2>2 DEF Receive, Recv, ws_conn_recv
  <2>3. CASE Open \/ UNCHANGED vars
    BY Zenon, <1>3, <2>3, OpenOK DEF Open, vars
  <2>4. QED
    BY <2>1, <2>2, <2>3 DEF Next
<1>5. QED
  BY Zenon, <1>1, <1>2, <1>4

Sent(f, op) == f \in OutFrames /\ OpcodeOf(f) = op

\* A frame of the application is in OutFrames, and has the opcode it was given.
LEMMA SentFrame ==
    ASSUME NEW c \in Conn, NEW op \in 0..15, NEW payload \in Payloads, NEW cap \in OutCaps,
           NEW f, f = build_frame(c, op, payload, Key, cap), f # << >>
    PROVE  Sent(f, op)
<1>1. f \in OutFrames
  BY DEF OutFrames
<1>2. Len(payload) \in Nat
  <2>1. CASE payload \in {s[2] : s \in Sends}
    BY <2>1, SendAssumption
  <2>2. CASE payload \in {<< code \div 256, code % 256 >> : code \in CloseWith}
    BY <2>2
  <2>3. QED
    BY Zenon, <2>1, <2>2 DEF Payloads
<1>3. OpcodeOf(f) = op
  BY Zenon, <1>2, BuiltOpcode
<1>4. QED
  BY <1>1, <1>3 DEF Sent

\* Sending keeps OutInv: a Close is built only where none was.
LEMMA SendOutInv == IInv /\ OutInv /\ Send => OutInv'
<1> SUFFICES ASSUME IInv, OutInv, Send PROVE OutInv'
  BY Zenon
<1>1. /\ out \in Seq(OutFrames) /\ conn \in Conn /\ Len(out) \in Nat
      /\ \A i, j \in Closes(out) : i = j
      /\ conn.state = "CLOSING" => Closes(out) # {}
      /\ Closes(out) # {} => conn.sent_close
      /\ conn.sent_close => conn.state \in {"CLOSING", "CLOSED"}
  BY DEF OutInv, OneCloseFrame, Closes, IInv, ConnInv
<1>2. SUFFICES /\ out' \in Seq(OutFrames)
               /\ \A i, j \in Closes(out') : i = j
               /\ conn'.state = "CLOSING" => Closes(out') # {}
               /\ Closes(out') # {} => conn'.sent_close
  BY DEF OutInv, OneCloseFrame, Closes
<1>3. CASE UNCHANGED << out, conn >>
  BY <1>1, <1>3
<1>4. ASSUME NEW cap \in OutCaps, NEW op \in (0..15) \ {WS_OP_CLOSE}, NEW payload \in Payloads,
             NEW f, f = build_frame(conn, op, payload, Key, cap), f # << >>,
             out' = Append(out, f), conn' = conn
      PROVE  /\ out' \in Seq(OutFrames)
             /\ Closes(out') = Closes(out)
  <2>1. f \in OutFrames /\ OpcodeOf(f) = op
    <3>1. conn \in Conn /\ op \in 0..15
      BY <1>1, <1>4
    <3>2. Sent(f, op)
      BY SMTT(30), <1>4, <3>1, SentFrame
    <3>3. QED
      BY Zenon, <3>2 DEF Sent
  <2>2. OpcodeOf(f) # WS_OP_CLOSE
    BY <2>1
  <2>3. QED
    BY Zenon, <1>1, <1>4, <2>1, <2>2, AppendedClose
<1>5. ASSUME NEW cap \in OutCaps, NEW payload \in Payloads,
             NEW f, f = build_frame(conn, WS_OP_CLOSE, payload, Key, cap), f # << >>,
             out' = Append(out, f), conn.state = "OPEN", conn'.sent_close
      PROVE  /\ out' \in Seq(OutFrames)
             /\ Closes(out') = {Len(out) + 1}
  <2>1. f \in OutFrames /\ OpcodeOf(f) = WS_OP_CLOSE
    <3>1. conn \in Conn /\ WS_OP_CLOSE \in 0..15
      BY <1>1 DEF WS_OP_CLOSE
    <3>2. Sent(f, WS_OP_CLOSE)
      BY SMTT(30), <1>5, <3>1, SentFrame
    <3>3. QED
      BY Zenon, <3>2 DEF Sent
  <2>2. Closes(out) = {}
    BY <1>1, <1>5
  <2>3. QED
    BY <1>1, <1>5, <2>1, <2>2, AppendedClose
<1>6. PICK cap \in OutCaps : \/ \E s \in Sends : SendMessage(s[1], s[2], cap)
                             \/ \E s \in Sends : SendPong(s[2], cap)
                             \/ \E code \in CloseWith : SendClose(code, cap)
  BY DEF Send
<1>7. ASSUME NEW s \in Sends, SendMessage(s[1], s[2], cap) \/ SendPong(s[2], cap)
      PROVE  \/ UNCHANGED << out, conn >>
             \/ out' \in Seq(OutFrames) /\ Closes(out') = Closes(out) /\ conn' = conn
  <2>1. s[2] \in Payloads /\ s[1] \in (0..15) \ {WS_OP_CLOSE}
    BY SendAssumption DEF Payloads
  <2>2. WS_OP_PONG \in (0..15) \ {WS_OP_CLOSE}
    BY DEF WS_OP_PONG, WS_OP_CLOSE
  <2>3. PICK op \in (0..15) \ {WS_OP_CLOSE} :
            \/ UNCHANGED << out, conn >>
            \/ LET f == build_frame(conn, op, s[2], Key, cap)
               IN  f # << >> /\ out' = Append(out, f) /\ conn' = conn
    BY Zenon, <1>7, <2>1, <2>2 DEF SendMessage, SendPong, Emit, ws_send_message, ws_send_pong
  <2>4. QED
    BY <1>4, <2>1, <2>3
<1>8. ASSUME NEW code \in CloseWith, SendClose(code, cap)
      PROVE  \/ UNCHANGED << out, conn >>
             \/ out' \in Seq(OutFrames) /\ Closes(out') = {Len(out) + 1} /\ conn'.sent_close
  <2> DEFINE f == build_frame(conn, WS_OP_CLOSE, << code \div 256, code % 256 >>, Key, cap)
  <2>1. << code \div 256, code % 256 >> \in Payloads
    BY DEF Payloads
  <2>2. \/ UNCHANGED << out, conn >>
        \/ /\ f # << >> /\ out' = Append(out, f) /\ conn.state = "OPEN"
           /\ conn' = ws_lc_send_close(conn)
    BY <1>8 DEF SendClose, Emit, ws_send_close
  <2>3. conn.state = "OPEN" => ws_lc_send_close(conn).sent_close
    BY <1>1 DEF ws_lc_send_close, Conn
  <2> HIDE DEF f
  <2>4. f = build_frame(conn, WS_OP_CLOSE, << code \div 256, code % 256 >>, Key, cap)
    BY DEF f
  <2>5. QED
    BY <1>5, <2>1, <2>2, <2>3, <2>4
<1>9. QED
  BY Zenon, <1>1, <1>3, <1>6, <1>7, <1>8

\* At most one Close frame leaves this side, for every order of sends, polls and
\* reads, and an unanswered Close is the frame that was sent.
THEOREM CloseOnce == Spec => []OneCloseFrame
<1>1. Init => OutInv
  BY DEF Init, OutInv, OneCloseFrame, ws_conn_init
<1>2. IInv /\ OutInv /\ [Next]_vars => OutInv'
  <2> SUFFICES ASSUME IInv, OutInv, [Next]_vars, ~Send PROVE OutInv'
    BY SendOutInv
  <2>1. /\ out' = out
        /\ conn.sent_close => conn'.sent_close
        /\ conn'.state = "CLOSING" => conn.state = "CLOSING"
    BY QuietStep
  <2>2. QED
    BY <2>1 DEF OutInv, OneCloseFrame
<1>3. OutInv => OneCloseFrame
  BY DEF OutInv
<1>4. QED
  BY <1>1, <1>2, <1>3, Invariance, PTL DEF Spec
=============================================================================
