---------------------------- MODULE WsPairProofs ----------------------------
(***************************************************************************)
(* Two drivers talking, for every speech, key, buffer size and chunking:   *)
(* each hears exactly what the other said (Heard), and closes only with    *)
(* the other (Closed).  The inductive invariant PairInv says what is       *)
(* between two ends: nothing, or one frame, some of it received and the    *)
(* rest on its way, or a latched error.                                    *)
(***************************************************************************)
EXTENDS WsSpeechProofs

-----------------------------------------------------------------------------
(* One direction of the conversation: o speaks, e listens.                  *)

Word == Speech \cup {Failure}

\* Everything said was heard.
Idle(c, w, sp, h) ==
    /\ w = << >> /\ c.rx_len = 0 /\ ~c.failed
    /\ h = sp /\ LawfulTo(sp, Len(sp))

\* Everything but the last, the frame of which is under way.
Pending(o, c, w, sp, h) ==
    /\ sp # << >> /\ ~c.failed
    /\ Sized(sp[Len(sp)]) /\ Holding(c, w, FrameOf(o, sp[Len(sp)]))
    /\ h = Before(sp) /\ LawfulTo(sp, Len(sp) - 1)

\* Everything up to the first misuse, which was heard as an error.
Broken(c, sp, h) ==
    /\ c.failed
    /\ \E n \in 0..(Len(sp) - 1) :
           LawfulTo(sp, n) /\ Misused(sp, n + 1) /\ h = Append(SubSeq(sp, 1, n), Failure)

Flow(o, c, w, sp, h) == Idle(c, w, sp, h) \/ Pending(o, c, w, sp, h) \/ Broken(c, sp, h)

\* The driver of e between two frames, its application having said own and heard h.
Stands(e, c, h, own) ==
    /\ ConnInv(c) /\ c.role = e /\ c.msg_len = 0 /\ c.frag = "NONE" /\ c.state # "CONNECTING"
    /\ c.state = "CLOSED" <=> SaysClose(h)
    /\ SaysClose(own) => c.state # "OPEN"

End(e, o, c, w, sp, h, own) ==
    /\ w \in Seq(Byte) /\ sp \in Seq(Speech) /\ own \in Seq(Speech) /\ h \in Seq(Word)
    /\ Stands(e, c, h, own)
    /\ Flow(o, c, w, sp, h)

LEMMA FrameBytes ==
    ASSUME NEW e \in Role, NEW s \in Speech, Sized(s)
    PROVE  FrameOf(e, s) \in Seq(Byte) /\ Len(FrameOf(e, s)) \in Nat \ {0}
<1>1. PICK f, h, k, b : /\ f = FrameOf(e, s) /\ h = HeaderOf(e, s)
                        /\ k = Len(HeaderBytes(h)) /\ b = BodyOf(s)
  BY Zenon
<1>2. IsFrame(f, h, k, b)
  BY Zenon, <1>1, FrameIs
<1>3. f \in Seq(Byte) /\ k \in 2..14 /\ Len(f) = k + Len(b)
  BY Zenon, <1>2 DEF IsFrame
<1>4. Len(b) \in Nat
  BY Zenon, <1>1, BodyIs
<1>5. Len(f) \in Nat \ {0}
  BY SMT, <1>3, <1>4
<1>6. QED
  BY Zenon, <1>1, <1>3, <1>5

\* One thing more is said to a listener that holds nothing.
LEMMA SayHeard ==
    ASSUME NEW e \in Role, NEW o \in Role, NEW c, NEW w, NEW sp, NEW h, NEW own,
           End(e, o, c, w, sp, h, own), NEW s \in Speech, Sized(s), w = << >>, c.rx_len = 0
    PROVE  End(e, o, c, w \o FrameOf(o, s), Append(sp, s), h, own)
<1>1. PICK f \in Seq(Byte) : f = FrameOf(o, s) /\ Len(f) \in Nat \ {0}
  BY Zenon, FrameBytes
<1>2. w \o f = f
  BY SMT, <1>1
<1>3. /\ sp \in Seq(Speech) /\ own \in Seq(Speech) /\ h \in Seq(Word)
      /\ Stands(e, c, h, own) /\ Flow(o, c, w, sp, h)
  BY Zenon DEF End
<1>4. PICK t \in Seq(Speech), n \in Nat :
          t = Append(sp, s) /\ n = Len(sp) /\ Len(t) = n + 1 /\ t[n + 1] = s /\ Alike(t, sp, n)
  <2>1. PICK t \in Seq(Speech) : /\ t = Append(sp, s) /\ Len(t) = Len(sp) + 1 /\ Len(sp) \in Nat
                                 /\ t[Len(sp) + 1] = s /\ Alike(t, sp, Len(sp))
    BY Zenon, <1>3, Appended
  <2>2. QED
    BY Zenon, <2>1
<1>5. CASE Idle(c, w, sp, h)
  <2>1. Before(t) = sp
    BY Zenon, <1>3, <1>4, BeforeAppended
  <2>2. LawfulTo(t, n)
    BY Zenon, <1>4, <1>5, LawfulAlike DEF Idle
  <2>3. Len(t) - 1 = n /\ t # << >>
    BY SMT, <1>4
  <2>4. Holding(c, f, f)
    BY SMT, <1>1 DEF Holding
  <2>5. t[Len(t)] = s
    BY Zenon, <1>4
  <2>6. ~c.failed /\ h = Before(t)
    BY Zenon, <1>5, <2>1 DEF Idle
  <2>7. Pending(o, c, f, t, h)
    BY Zenon, <1>1, <2>2, <2>3, <2>4, <2>5, <2>6 DEF Pending
  <2>8. QED
    BY Zenon, <1>1, <1>2, <1>3, <1>4, <2>7 DEF End, Flow
<1>6. CASE Pending(o, c, w, sp, h)
  <2>1. sp[Len(sp)] \in Speech
    BY Zenon, <1>3, <1>6, LastApart DEF Pending
  <2>2. PICK g : g = FrameOf(o, sp[Len(sp)]) /\ Len(g) \in Nat \ {0}
    BY Zenon, <1>6, <2>1, FrameBytes DEF Pending
  <2>3. c.rx_len + Len(w) = Len(g)
    BY Zenon, <1>6, <2>2 DEF Pending, Holding
  <2>4. Len(g) = 0
    BY SMT, <2>3
  <2>5. QED
    BY SMT, <2>2, <2>4
<1>7. CASE Broken(c, sp, h)
  <2>1. PICK m \in 0..(Len(sp) - 1) :
            LawfulTo(sp, m) /\ Misused(sp, m + 1) /\ h = Append(SubSeq(sp, 1, m), Failure)
    BY Zenon, <1>7 DEF Broken
  <2>2. m \in Nat /\ m \in 0..Len(sp) /\ m \in 0..(Len(t) - 1) /\ m + 1 \in 1..n /\ 1..m \subseteq 1..n
    BY SMTT(30), <1>4, <2>1
  <2>3. SubSeq(t, 1, m) = SubSeq(sp, 1, m)
    <3>1. sp \in Seq(Speech) /\ t = Append(sp, s) /\ m \in 0..Len(sp)
      BY Zenon, <1>3, <1>4, <2>2
    <3>2. QED
      BY SMT, <3>1, StartKept
  <2>4. Alike(t, sp, m)
    BY Zenon, <1>4, <2>2 DEF Alike
  <2>5. LawfulTo(t, m)
    BY Zenon, <2>1, <2>2, <2>4, LawfulAlike
  <2>6. Misused(t, m + 1)
    BY Zenon, <1>4, <2>1, <2>2, MisusedAlike
  <2>7. Broken(c, t, h)
    BY Zenon, <1>7, <2>1, <2>2, <2>3, <2>5, <2>6 DEF Broken
  <2>8. QED
    BY Zenon, <1>1, <1>2, <1>3, <1>4, <2>7 DEF End, Flow
<1>8. QED
  BY Zenon, <1>3, <1>5, <1>6, <1>7 DEF Flow

\* The speaker's own driver.
LEMMA SaySpoken ==
    ASSUME NEW e \in Role, NEW o \in Role, NEW c, NEW w, NEW sp, NEW h, NEW own,
           End(e, o, c, w, sp, h, own), NEW s \in Speech, NEW d, Speaks(c, d, s)
    PROVE  End(e, o, d, w, sp, h, Append(own, s))
<1>1. /\ w \in Seq(Byte) /\ sp \in Seq(Speech) /\ own \in Seq(Speech) /\ h \in Seq(Word)
      /\ Stands(e, c, h, own) /\ Flow(o, c, w, sp, h)
  BY Zenon DEF End
<1>2. /\ d.frag = c.frag /\ d.failed = c.failed /\ d.msg_len = c.msg_len
      /\ d.rx_len = c.rx_len /\ d.msg_buf = c.msg_buf /\ ConnInv(d) /\ d.role = c.role
  BY Zenon DEF Speaks, SameBuffers
<1>3. Flow(o, d, w, sp, h)
  BY Zenon, <1>1, <1>2 DEF Flow, Idle, Pending, Broken, Holding
<1>4. Append(own, s) \in Seq(Speech) /\ (SaysClose(Append(own, s)) <=> SaysClose(own) \/ s.type = "CLOSE")
  BY Zenon, <1>1, Appended, CloseAppended
<1>5. CASE s.type = "CLOSE"
  <2>1. c.state = "OPEN" /\ d.state = "CLOSING"
    BY Zenon, <1>5 DEF Speaks
  <2>2. ~SaysClose(h)
    BY Zenon, <1>1, <2>1 DEF Stands
  <2>3. Stands(e, d, h, Append(own, s))
    BY Zenon, <1>1, <1>2, <2>1, <2>2 DEF Stands
  <2>4. QED
    BY Zenon, <1>1, <1>3, <1>4, <2>3 DEF End
<1>6. CASE s.type # "CLOSE"
  <2>1. d = c
    BY Zenon, <1>6 DEF Speaks
  <2>2. Stands(e, d, h, Append(own, s))
    BY Zenon, <1>1, <1>4, <1>6, <2>1 DEF Stands
  <2>3. QED
    BY Zenon, <1>1, <1>3, <1>4, <2>2 DEF End
<1>7. QED
  BY Zenon, <1>5, <1>6

\* What is left of w without its first k items.
IsRest(v, w, k) ==
    Len(w) \in Nat /\ Len(v) = Len(w) - k /\ \A i \in 1..(Len(w) - k) : v[i] = w[k + i]

LEMMA Rest ==
    ASSUME NEW S, NEW w \in Seq(S), NEW k \in 1..Len(w), NEW v, v = SubSeq(w, k + 1, Len(w))
    PROVE  v \in Seq(S) /\ IsRest(v, w, k)
<1>1. Len(w) \in Nat /\ k + 1 \in 1..(Len(w) + 1) /\ Len(w) - k \in Nat
  BY SMT
<1>2. v = [i \in 1..(Len(w) - k) |-> w[k + i]]
  BY SMT, <1>1
<1>3. \A i \in 1..(Len(w) - k) : w[k + i] \in S
  BY SMT, <1>1
<1>4. QED
  BY SMTT(30), <1>1, <1>2, <1>3 DEF IsRest

\* Bytes move from the wire to the buffer.
Moved(c, d, w, k) ==
    /\ d.rx_len = c.rx_len + k
    /\ \A i \in 0..(c.rx_len - 1) : d.msg_buf[i] = c.msg_buf[i]
    /\ \A j \in 1..k : d.msg_buf[c.rx_len + j - 1] = w[j]

LEMMA HoldingKept ==
    ASSUME NEW c, c.rx_len \in Nat, NEW w \in Seq(Byte), NEW f, Holding(c, w, f),
           NEW k \in 1..Len(w), NEW d, Moved(c, d, w, k), NEW v, IsRest(v, w, k)
    PROVE  Holding(d, v, f)
<1>0. PICK n \in Nat : /\ n = c.rx_len /\ d.rx_len = n + k
                       /\ \A i \in 0..(n - 1) : d.msg_buf[i] = c.msg_buf[i]
                       /\ \A j \in 1..k : d.msg_buf[n + j - 1] = w[j]
  BY Zenon DEF Moved
<1>1. Len(v) = Len(w) - k /\ Len(w) \in Nat /\ \A i \in 1..(Len(w) - k) : v[i] = w[k + i]
  BY Zenon DEF IsRest
<1>2. /\ n + Len(w) = Len(f) /\ (\A i \in 1..n : c.msg_buf[i - 1] = f[i])
      /\ \A i \in 1..Len(w) : w[i] = f[n + i]
  BY Zenon, <1>0 DEF Holding
<1>3. d.rx_len + Len(v) = Len(f)
  <2>1. PICK x \in Nat : x = Len(w) /\ n + x = Len(f) /\ Len(v) = x - k
    BY Zenon, <1>1, <1>2
  <2>2. (n + k) + (x - k) = n + x
    BY SMT
  <2>3. QED
    BY Zenon, <1>0, <2>1, <2>2
<1>4. ASSUME NEW i \in 1..(n + k) PROVE d.msg_buf[i - 1] = f[i]
  <2>1. CASE i <= n
    <3>1. i \in 1..n /\ i - 1 \in 0..(n - 1)
      BY SMT, <2>1
    <3>2. QED
      BY Zenon, <1>0, <1>2, <3>1
  <2>2. CASE i > n
    <3>1. PICK j \in 1..k : n + j - 1 = i - 1 /\ n + j = i /\ j \in 1..Len(w)
      <4>1. i - n \in 1..k /\ n + (i - n) - 1 = i - 1 /\ n + (i - n) = i /\ i - n \in 1..Len(w)
        BY SMT, <2>2, <1>1
      <4>2. QED
        BY Zenon, <4>1
    <3>2. QED
      BY Zenon, <1>0, <1>2, <3>1
  <2>3. QED
    BY SMTT(30), <2>1, <2>2
<1>5. ASSUME NEW i \in 1..Len(v) PROVE v[i] = f[(n + k) + i]
  <2>1. i \in 1..(Len(w) - k) /\ k + i \in 1..Len(w) /\ n + (k + i) = (n + k) + i
    BY SMT, <1>1
  <2>2. QED
    BY Zenon, <1>1, <1>2, <2>1
<1>6. QED
  BY Zenon, <1>0, <1>3, <1>4, <1>5 DEF Holding

\* What receiving leaves alone.
Unread(c, d) == /\ ConnInv(d) /\ d.state = c.state /\ d.frag = c.frag
                /\ d.msg_len = c.msg_len /\ d.failed = c.failed /\ d.role = c.role

LEMMA Receives ==
    ASSUME NEW c, ConnInv(c), c.msg_len = 0, NEW bytes \in Seq(Byte), recv_fits(c, bytes),
           NEW d, d = ws_conn_recv(c, bytes)
    PROVE  Unread(c, d) /\ Moved(c, d, bytes, Len(bytes))
<1>1. PICK at : at = c.msg_len + c.rx_len
  BY Zenon
<1>2. /\ ConnInv(d) /\ d.state = c.state /\ d.frag = c.frag /\ d.msg_len = c.msg_len
      /\ d.rx_len = c.rx_len + Len(bytes) /\ d.failed = c.failed
      /\ \A i \in 0..(at - 1) : d.msg_buf[i] = c.msg_buf[i]
      /\ \A j \in 1..Len(bytes) : d.msg_buf[at + j - 1] = bytes[j]
  BY SMTT(30), <1>1, RecvOK
<1>3. c \in Conn
  BY Zenon DEF ConnInv
<1>4. d.role = c.role
  BY Zenon, <1>3, RoleKept
<1>5. at = c.rx_len
  <2>1. c.rx_len \in Nat
    BY Zenon, RawType
  <2>2. QED
    BY SMT, <1>1, <2>1
<1>6. QED
  BY Zenon, <1>2, <1>4, <1>5 DEF Unread, Moved

LEMMA ReadKeeps ==
    ASSUME NEW e \in Role, NEW o \in Role, NEW c, NEW w, NEW sp, NEW h, NEW own,
           End(e, o, c, w, sp, h, own), NEW k \in 1..Len(w), NEW bytes, bytes = SubSeq(w, 1, k),
           recv_fits(c, bytes), NEW d, d = ws_conn_recv(c, bytes)
    PROVE  End(e, o, d, SubSeq(w, k + 1, Len(w)), sp, h, own)
<1>1. /\ w \in Seq(Byte) /\ sp \in Seq(Speech) /\ own \in Seq(Speech) /\ h \in Seq(Word)
      /\ Stands(e, c, h, own) /\ Flow(o, c, w, sp, h)
  BY Zenon DEF End
<1>2. PICK v \in Seq(Byte) : v = SubSeq(w, k + 1, Len(w)) /\ IsRest(v, w, k)
  BY Zenon, <1>1, Rest
<1>3. bytes \in Seq(Byte) /\ Len(bytes) = k /\ Alike(bytes, w, k)
  <2>1. k \in 0..Len(w)
    BY SMT, <1>1
  <2>2. QED
    BY Zenon, <1>1, <2>1, Started
<1>4. ConnInv(c) /\ c \in Conn /\ c.msg_len = 0 /\ c.role = e
  BY Zenon, <1>1 DEF Stands, ConnInv
<1>5. Unread(c, d) /\ Moved(c, d, bytes, Len(bytes))
  BY Zenon, <1>3, <1>4, Receives
<1>6. Stands(e, d, h, own) /\ d.failed = c.failed
  BY Zenon, <1>1, <1>5 DEF Stands, Unread
<1>7. CASE Idle(c, w, sp, h)
  <2>1. w = << >>
    BY Zenon, <1>7 DEF Idle
  <2>2. QED
    BY SMT, <2>1
<1>8. CASE Pending(o, c, w, sp, h)
  <2>1. PICK f : f = FrameOf(o, sp[Len(sp)]) /\ Holding(c, w, f)
    BY Zenon, <1>8 DEF Pending
  <2>2. c.rx_len \in Nat
    BY Zenon, <1>4, RawType
  <2>3. Moved(c, d, w, k)
    BY Zenon, <1>3, <1>5 DEF Moved, Alike
  <2>4. Holding(d, v, f)
    BY Zenon, <1>1, <1>2, <2>1, <2>2, <2>3, HoldingKept
  <2>5. Pending(o, d, v, sp, h)
    BY Zenon, <1>6, <1>8, <2>1, <2>4 DEF Pending
  <2>6. QED
    BY Zenon, <1>1, <1>2, <1>6, <2>5 DEF End, Flow
<1>9. CASE Broken(c, sp, h)
  <2>1. Broken(d, sp, h)
    BY Zenon, <1>6, <1>9 DEF Broken
  <2>2. QED
    BY Zenon, <1>1, <1>2, <1>6, <2>1 DEF End, Flow
<1>10. QED
  BY Zenon, <1>1, <1>7, <1>8, <1>9 DEF Flow

LEMMA WordSeq == ASSUME NEW q \in Seq(Speech) PROVE q \in Seq(Word)
BY SMT DEF Word

\* Polling a connection that has failed, or holds no whole frame.
LEMMA PollIdle ==
    ASSUME NEW c, NEW r, r = ws_conn_poll(c)
    PROVE  /\ c.failed => r.conn = c
           /\ ~c.failed /\ ~frame_ready(c) => r.conn = c /\ r.ev.type = "NONE"
<1>1. c.failed => r = Result(c, Event("ERROR"))
  BY Zenon DEF ws_conn_poll
<1>2. ~c.failed /\ ~frame_ready(c) => r = Result(c, Event("NONE"))
  BY Zenon DEF ws_conn_poll
<1>3. QED
  BY SMTT(30), <1>1, <1>2 DEF Result, Event

\* What the application has heard after a poll.
HeardNow(c, r, h) == IF r.ev.type = "NONE" \/ c.failed THEN h ELSE Append(h, Told(r))

\* The frame under way is whole: it is heard, or an error is.
LEMMA PendingTold ==
    ASSUME NEW e \in Role, NEW o \in Role, o # e, NEW c, NEW w \in Seq(Byte),
           NEW sp \in Seq(Speech), NEW h \in Seq(Word), NEW own, Stands(e, c, h, own),
           Pending(o, c, w, sp, h), frame_ready(c), NEW r, r = ws_conn_poll(c)
    PROVE  /\ w = << >>
           /\ Tells(c, r, IF Misused(sp, Len(sp)) THEN Failure ELSE sp[Len(sp)])
<1>1. sp # << >> /\ ~c.failed /\ h = Before(sp)
  BY Zenon DEF Pending
<1>2. PICK s \in Speech : s = sp[Len(sp)]
  BY Zenon, <1>1, LastApart
<1>3. Sized(s) /\ Holding(c, w, FrameOf(o, s))
  BY Zenon, <1>2 DEF Pending
<1>4. ConnInv(c) /\ c.role = e /\ c.msg_len = 0 /\ c.frag = "NONE"
  BY Zenon DEF Stands
<1>5. w = << >> /\ Tells(c, r, IF ws_lc_active(c) /\ ~Wrong(s) THEN s ELSE Failure)
  BY Zenon, <1>1, <1>3, <1>4, PollTells
<1>6. ws_lc_active(c) <=> ~SaysClose(h)
  <2>1. c.state \in State
    BY Zenon, <1>4 DEF ConnInv, Conn
  <2>2. c.state # "CONNECTING" /\ (c.state = "CLOSED" <=> SaysClose(h))
    BY Zenon DEF Stands
  <2>3. QED
    BY SMTT(30), <2>1, <2>2 DEF ws_lc_active, State
<1>7. Misused(sp, Len(sp)) <=> Wrong(s) \/ SaysClose(h)
  BY Zenon, <1>1, <1>2, LastMisused
<1>8. QED
  BY Zenon, <1>2, <1>5, <1>6, <1>7

LEMMA PollKeeps ==
    ASSUME NEW e \in Role, NEW o \in Role, o # e, NEW c, NEW w, NEW sp, NEW h, NEW own,
           End(e, o, c, w, sp, h, own), NEW r, r = ws_conn_poll(c), NEW g, g = HeardNow(c, r, h)
    PROVE  End(e, o, r.conn, w, sp, g, own)
<1>1. /\ w \in Seq(Byte) /\ sp \in Seq(Speech) /\ own \in Seq(Speech) /\ h \in Seq(Word)
      /\ Stands(e, c, h, own) /\ Flow(o, c, w, sp, h)
  BY Zenon DEF End
<1>2. ConnInv(c) /\ c.state # "CONNECTING" /\ (c.state = "CLOSED" <=> SaysClose(h))
  BY Zenon, <1>1 DEF Stands
<1>3. CASE c.failed \/ ~frame_ready(c)
  <2>1. r.conn = c /\ g = h
    BY Zenon, <1>3, PollIdle DEF HeardNow
  <2>2. QED
    BY Zenon, <2>1
<1>4. CASE ~c.failed /\ frame_ready(c)
  <2>1. ~Idle(c, w, sp, h)
    <3>1. PICK p : p = ws_parse_header(raw(c), c.rx_len)
      BY Zenon
    <3>2. p.h.payload_len \in Nat /\ p.rc \in 2..14 /\ p.rc + p.h.payload_len <= c.rx_len
      BY Zenon, <1>2, <1>4, <3>1, ReadyFrame
    <3>3. c.rx_len # 0
      BY SMT, <3>2
    <3>4. QED
      BY Zenon, <3>3 DEF Idle
  <2>2. Pending(o, c, w, sp, h)
    BY Zenon, <1>1, <1>4, <2>1 DEF Flow, Broken
  <2>3. PICK x : x = IF Misused(sp, Len(sp)) THEN Failure ELSE sp[Len(sp)]
    BY Zenon
  <2>4. w = << >> /\ Tells(c, r, x)
    BY Zenon, <1>1, <1>4, <2>2, <2>3, PendingTold
  <2>5. sp # << >> /\ h = Before(sp) /\ LawfulTo(sp, Len(sp) - 1)
    BY Zenon, <2>2 DEF Pending
  <2>6. PICK s \in Speech, n \in Nat : s = sp[Len(sp)] /\ n = Len(sp) - 1 /\ Len(sp) = n + 1
    <3>1. sp[Len(sp)] \in Speech /\ Len(sp) \in Nat \ {0}
      BY Zenon, <1>1, <2>5, LastApart
    <3>2. Len(sp) - 1 \in Nat /\ Len(sp) = (Len(sp) - 1) + 1
      BY SMT, <3>1
    <3>3. QED
      BY Zenon, <3>1, <3>2
  <2>7. x \in Word /\ s # Failure
    <3>1. s.type # "ERROR"
      BY SMT, SpeechIs
    <3>2. QED
      BY Zenon, <2>3, <2>6, <3>1, FailureIs DEF Word
  <2>8. g = Append(h, x)
    BY Zenon, <1>4, <2>4 DEF HeardNow, Tells
  <2>9. g \in Seq(Word) /\ (SaysClose(g) <=> SaysClose(h) \/ x.type = "CLOSE")
    BY Zenon, <1>1, <2>7, <2>8, Appended, CloseAppended
  <2>10. Stands(e, r.conn, g, own)
    <3>1. PICK k \in 0..c.rx_len : PollOK(c, r, k)
      BY Zenon, <1>2, PollResult
    <3>2. ConnInv(r.conn) /\ r.conn.state = IF r.ev.type = "CLOSE" THEN "CLOSED" ELSE c.state
      BY Zenon, <3>1 DEF PollOK
    <3>3. r.ev.type = x.type
      BY Zenon, <2>4 DEF Tells
    <3>4. r.conn.msg_len = 0 /\ r.conn.frag = "NONE" /\ r.conn.role = e
      BY Zenon, <1>1, <2>4 DEF Tells, Stands
    <3>5. SaysClose(own) => c.state # "OPEN"
      BY Zenon, <1>1 DEF Stands
    <3>6. CASE x.type = "CLOSE"
      <4>1. r.conn.state = "CLOSED"
        BY Zenon, <3>2, <3>3, <3>6
      <4>2. QED
        BY Zenon, <2>9, <3>2, <3>4, <3>6, <4>1 DEF Stands
    <3>7. CASE x.type # "CLOSE"
      <4>1. r.conn.state = c.state
        BY Zenon, <3>2, <3>3, <3>7
      <4>2. QED
        BY Zenon, <1>2, <2>9, <3>2, <3>4, <3>5, <3>7, <4>1 DEF Stands
    <3>8. QED
      BY Zenon, <3>6, <3>7
  <2>11. CASE ~Misused(sp, Len(sp))
    <3>1. x = s
      BY Zenon, <2>3, <2>6, <2>11
    <3>2. g = sp
      BY Zenon, <1>1, <2>5, <2>6, <2>8, <3>1, LastApart
    <3>3. 1..Len(sp) = 1..(Len(sp) - 1) \cup {Len(sp)}
      BY SMT, <2>6
    <3>4. LawfulTo(sp, Len(sp))
      BY Zenon, <2>5, <2>11, <3>3 DEF LawfulTo
    <3>5. ~r.conn.failed /\ r.conn.rx_len = 0
      BY Zenon, <2>4, <2>7, <3>1 DEF Tells
    <3>6. Idle(r.conn, w, sp, g)
      BY Zenon, <2>4, <3>2, <3>4, <3>5 DEF Idle
    <3>7. QED
      BY Zenon, <1>1, <2>9, <2>10, <3>6 DEF End, Flow
  <2>12. CASE Misused(sp, Len(sp))
    <3>1. x = Failure
      BY Zenon, <2>3, <2>12
    <3>2. r.conn.failed
      BY Zenon, <2>4, <3>1 DEF Tells
    <3>3. n \in 0..(Len(sp) - 1)
      BY SMT, <2>6
    <3>4. g = Append(SubSeq(sp, 1, n), Failure)
      BY Zenon, <2>5, <2>6, <2>8, <3>1 DEF Before
    <3>5. LawfulTo(sp, n) /\ Misused(sp, n + 1)
      BY Zenon, <2>5, <2>6, <2>12
    <3>6. Broken(r.conn, sp, g)
      BY Zenon, <3>2, <3>3, <3>4, <3>5 DEF Broken
    <3>7. QED
      BY Zenon, <1>1, <2>9, <2>10, <3>6 DEF End, Flow
  <2>13. QED
    BY Zenon, <2>11, <2>12
<1>5. QED
  BY Zenon, <1>3, <1>4

-----------------------------------------------------------------------------
(* What each end is entitled to conclude.                                   *)

\* h is some of what was said lawfully, or all of it and the error.
Follows(h, sp, n) ==
    \/ \E m \in 0..n : h = SubSeq(sp, 1, m)
    \/ n < Len(sp) /\ h = Append(SubSeq(sp, 1, n), Failure)

LEMMA FlowLawful ==
    ASSUME NEW o, NEW c, NEW w, NEW sp \in Seq(Speech), NEW h, Flow(o, c, w, sp, h)
    PROVE  \E n \in 0..Len(sp) : Lawful(sp) = SubSeq(sp, 1, n) /\ Follows(h, sp, n)
<1>1. Len(sp) \in Nat /\ Len(sp) \in 0..Len(sp) /\ ~(Len(sp) < Len(sp))
  BY SMT
<1>2. CASE Idle(c, w, sp, h)
  <2>1. LawfulPart(sp, Len(sp))
    BY Zenon, <1>1, <1>2 DEF Idle, LawfulTo, LawfulPart
  <2>2. Lawful(sp) = SubSeq(sp, 1, Len(sp))
    BY Zenon, <1>1, <2>1, LawfulIs
  <2>3. h = SubSeq(sp, 1, Len(sp))
    BY Zenon, <1>2, WholeStart DEF Idle
  <2>4. QED
    BY Zenon, <1>1, <2>2, <2>3 DEF Follows
<1>3. CASE Pending(o, c, w, sp, h)
  <2>1. sp # << >> /\ h = Before(sp) /\ LawfulTo(sp, Len(sp) - 1)
    BY Zenon, <1>3 DEF Pending
  <2>2. PICK m \in Nat : m = Len(sp) - 1 /\ m + 1 = Len(sp)
    <3>1. Len(sp) \in Nat \ {0}
      BY Zenon, <2>1, LastApart
    <3>2. Len(sp) - 1 \in Nat /\ (Len(sp) - 1) + 1 = Len(sp)
      BY SMTT(30), <3>1
    <3>3. QED
      BY Zenon, <3>2
  <2>3. m \in 0..m /\ m \in 0..Len(sp) /\ 1..Len(sp) = 1..m \cup {Len(sp)}
    BY SMT, <2>2
  <2>4. h = SubSeq(sp, 1, m) /\ LawfulTo(sp, m)
    BY Zenon, <2>1, <2>2 DEF Before
  <2>5. CASE Misused(sp, Len(sp))
    <3>1. LawfulPart(sp, m)
      BY Zenon, <2>2, <2>4, <2>5 DEF LawfulTo, LawfulPart
    <3>2. Lawful(sp) = SubSeq(sp, 1, m)
      BY Zenon, <2>3, <3>1, LawfulIs
    <3>3. QED
      BY Zenon, <2>3, <2>4, <3>2 DEF Follows
  <2>6. CASE ~Misused(sp, Len(sp))
    <3>1. LawfulPart(sp, Len(sp))
      BY Zenon, <1>1, <2>3, <2>4, <2>6 DEF LawfulTo, LawfulPart
    <3>2. Lawful(sp) = SubSeq(sp, 1, Len(sp))
      BY Zenon, <1>1, <3>1, LawfulIs
    <3>3. QED
      BY Zenon, <1>1, <2>3, <2>4, <3>2 DEF Follows
  <2>7. QED
    BY Zenon, <2>5, <2>6
<1>4. CASE Broken(c, sp, h)
  <2>1. PICK n \in 0..(Len(sp) - 1) :
            LawfulTo(sp, n) /\ Misused(sp, n + 1) /\ h = Append(SubSeq(sp, 1, n), Failure)
    BY Zenon, <1>4 DEF Broken
  <2>2. n \in 0..Len(sp) /\ n < Len(sp)
    BY SMTT(30), <1>1, <2>1
  <2>3. LawfulPart(sp, n)
    BY Zenon, <2>1 DEF LawfulTo, LawfulPart
  <2>4. Lawful(sp) = SubSeq(sp, 1, n)
    BY Zenon, <2>2, <2>3, LawfulIs
  <2>5. QED
    BY Zenon, <2>1, <2>2, <2>4 DEF Follows
<1>5. QED
  BY Zenon, <1>2, <1>3, <1>4 DEF Flow

\* The start of a start.
LEMMA StartOfStart ==
    ASSUME NEW S, NEW q \in Seq(S), NEW n \in 0..Len(q), NEW m \in 0..n
    PROVE  SubSeq(SubSeq(q, 1, n), 1, m) = SubSeq(q, 1, m)
<1>1. PICK t \in Seq(S) : t = SubSeq(q, 1, n) /\ Len(t) = n /\ Alike(t, q, n)
  BY Zenon, Started
<1>2. m \in 0..Len(t) /\ m \in 0..Len(q) /\ 1..m \subseteq 1..n
  BY SMT, <1>1
<1>3. PICK a \in Seq(S) : a = SubSeq(t, 1, m) /\ Len(a) = m /\ Alike(a, t, m)
  BY Zenon, <1>2, Started
<1>4. PICK b \in Seq(S) : b = SubSeq(q, 1, m) /\ Len(b) = m /\ Alike(b, q, m)
  BY Zenon, <1>2, Started
<1>5. Alike(a, b, m)
  BY Zenon, <1>1, <1>2, <1>3, <1>4 DEF Alike
<1>6. a = b
  BY Zenon, <1>3, <1>4, <1>5, SameItems
<1>7. QED
  BY Zenon, <1>1, <1>3, <1>4, <1>6

LEMMA CloseInStart ==
    ASSUME NEW S, NEW q \in Seq(S), NEW n \in 0..Len(q)
    PROVE  SaysClose(SubSeq(q, 1, n)) <=> \E i \in 1..n : q[i].type = "CLOSE"
<1>1. PICK t \in Seq(S) : t = SubSeq(q, 1, n) /\ Len(t) = n /\ Alike(t, q, n)
  BY Zenon, Started
<1>2. QED
  BY Zenon, <1>1 DEF SaysClose, Alike

\* What an end heard is what it was entitled to hear.
LEMMA FollowsIs ==
    ASSUME NEW sp \in Seq(Speech), NEW n \in 0..Len(sp), NEW l, l = SubSeq(sp, 1, n), NEW h,
           Follows(h, sp, n)
    PROVE  /\ StartOf(h, IF l = sp THEN l ELSE Append(l, Failure))
           /\ SaysClose(h) => SaysClose(l)
<1>1. l \in Seq(Speech) /\ l \in Seq(Word) /\ Len(l) = n /\ Failure \in Word
  BY Zenon, Started, WordSeq DEF Word
<1>2. PICK t \in Seq(Word) : t = Append(l, Failure) /\ Len(t) = Len(l) + 1
  BY Zenon, <1>1, Appended
<1>3. CASE \E m \in 0..n : h = SubSeq(sp, 1, m)
  <2>1. PICK m \in 0..n : h = SubSeq(sp, 1, m)
    BY Zenon, <1>3
  <2>2. m \in 0..Len(l) /\ m \in 0..Len(t) /\ m \in 0..Len(sp) /\ 1..m \subseteq 1..n
    BY SMTT(30), <1>1, <1>2
  <2>3. h = SubSeq(l, 1, m)
    BY Zenon, <2>1, StartOfStart
  <2>4. h = SubSeq(t, 1, m)
    BY Zenon, <1>1, <1>2, <2>2, <2>3, StartKept
  <2>5. SaysClose(h) => SaysClose(l)
    BY Zenon, <2>1, <2>2, CloseInStart
  <2>6. QED
    BY Zenon, <1>2, <2>2, <2>3, <2>4, <2>5 DEF StartOf
<1>4. CASE n < Len(sp) /\ h = Append(SubSeq(sp, 1, n), Failure)
  <2>1. l # sp
    BY SMT, <1>1, <1>4
  <2>2. h = t
    BY Zenon, <1>2, <1>4
  <2>3. t = SubSeq(t, 1, Len(t))
    BY Zenon, WholeStart
  <2>4. Len(t) \in 0..Len(t)
    BY SMT
  <2>5. SaysClose(t) <=> SaysClose(l) \/ Failure.type = "CLOSE"
    BY Zenon, <1>1, <1>2, CloseAppended
  <2>6. Failure.type # "CLOSE"
    BY SMT, FailureIs
  <2>7. StartOf(t, t)
    BY Zenon, <2>3, <2>4 DEF StartOf
  <2>8. QED
    BY Zenon, <1>2, <2>1, <2>2, <2>5, <2>6, <2>7
<1>5. QED
  BY Zenon, <1>3, <1>4 DEF Follows

LEMMA ClosingIs ==
    ASSUME NEW sp \in Seq(Speech), NEW n \in 0..Len(sp), Lawful(sp) = SubSeq(sp, 1, n)
    PROVE  /\ Closing(sp) <=> SaysClose(Lawful(sp))
           /\ Closing(sp) => SaysClose(sp)
<1>1. PICK t \in Seq(Speech) : t = SubSeq(sp, 1, n) /\ Len(t) = n
  BY Zenon, Started
<1>2. DOMAIN t = 1..n
  BY SMT, <1>1
<1>3. 1..n \subseteq 1..Len(sp)
  BY SMT
<1>4. Closing(sp) <=> \E i \in 1..n : sp[i].type = "CLOSE"
  BY Zenon, <1>1, <1>2 DEF Closing
<1>5. SaysClose(Lawful(sp)) <=> \E i \in 1..n : sp[i].type = "CLOSE"
  BY Zenon, CloseInStart
<1>6. QED
  BY Zenon, <1>3, <1>4, <1>5 DEF SaysClose

LEMMA EndHeard ==
    ASSUME NEW e, NEW o, NEW c, NEW w, NEW sp, NEW h, NEW own, End(e, o, c, w, sp, h, own),
           NEW l, l = Lawful(sp)
    PROVE  /\ StartOf(h, IF l = sp THEN l ELSE Append(l, Failure))
           /\ c.state = "CLOSED" => Closing(sp)
           /\ Closing(sp) => SaysClose(sp)
           /\ SaysClose(own) => c.state # "OPEN"
<1>1. sp \in Seq(Speech) /\ Stands(e, c, h, own) /\ Flow(o, c, w, sp, h)
  BY Zenon DEF End
<1>2. PICK n \in 0..Len(sp) : Lawful(sp) = SubSeq(sp, 1, n) /\ Follows(h, sp, n)
  BY Zenon, <1>1, FlowLawful
<1>3. StartOf(h, IF l = sp THEN l ELSE Append(l, Failure)) /\ (SaysClose(h) => SaysClose(l))
  BY Zenon, <1>1, <1>2, FollowsIs
<1>4. (Closing(sp) <=> SaysClose(l)) /\ (Closing(sp) => SaysClose(sp))
  BY Zenon, <1>1, <1>2, ClosingIs
<1>5. QED
  BY Zenon, <1>1, <1>3, <1>4 DEF Stands

-----------------------------------------------------------------------------
(* The inductive invariant.                                                 *)

EndOf(e) == End(e, Other(e), conn[e], wire[e], said[Other(e)], heard[e], said[e])

PairInv ==
    /\ DOMAIN conn = Role /\ DOMAIN wire = Role /\ DOMAIN said = Role /\ DOMAIN heard = Role
    /\ \A e \in Role : EndOf(e)

\* The two ends.
LEMMA Ends ==
    ASSUME NEW e \in Role
    PROVE  /\ Other(e) \in Role /\ Other(e) # e /\ Other(Other(e)) = e
           /\ \A x \in Role : x = e \/ x = Other(e)
BY SMT DEF Role, Other

LEMMA Updated ==
    ASSUME NEW f, DOMAIN f = Role, NEW e \in Role, NEW x, NEW g, g = [f EXCEPT ![e] = x]
    PROVE  DOMAIN g = Role /\ g[e] = x /\ g[Other(e)] = f[Other(e)]
BY Zenon, Ends

LEMMA InitEnd ==
    ASSUME NEW e \in Role
    PROVE  End(e, Other(e), ws_conn_open(ws_conn_init(e)), << >>, << >>, << >>, << >>)
<1>1. PICK c, d : c = ws_conn_init(e) /\ d = ws_conn_open(c)
  BY Zenon
<1>2. ConnInv(c)
  BY Zenon, <1>1, InitOK
<1>3. ConnInv(d) /\ SameBuffers(c, d)
  BY Zenon, <1>1, <1>2, OpenOK
<1>4. c \in Conn
  BY Zenon, <1>2 DEF ConnInv
<1>5. d.role = c.role
  BY Zenon, <1>1, <1>4, RoleKept
<1>6. /\ c.role = e /\ c.state = "CONNECTING" /\ c.frag = "NONE" /\ ~c.failed
      /\ c.msg_len = 0 /\ c.rx_len = 0
  BY Zenon, <1>1 DEF ws_conn_init
<1>7. d.state = "OPEN"
  BY Zenon, <1>1, <1>4, <1>6 DEF ws_conn_open, ws_lc_handshake, Conn
<1>8. d.frag = "NONE" /\ ~d.failed /\ d.msg_len = 0 /\ d.rx_len = 0
  BY Zenon, <1>3, <1>6 DEF SameBuffers
<1>9. ~SaysClose(<< >>)
  BY SMT DEF SaysClose
<1>10. LawfulTo(<< >>, Len(<< >>))
  BY SMT DEF LawfulTo
<1>11. Stands(e, d, << >>, << >>)
  BY Zenon, <1>3, <1>5, <1>6, <1>7, <1>8, <1>9 DEF Stands
<1>12. Flow(Other(e), d, << >>, << >>, << >>)
  BY Zenon, <1>8, <1>10 DEF Flow, Idle
<1>13. << >> \in Seq(Byte) /\ << >> \in Seq(Speech) /\ << >> \in Seq(Word)
  BY SMT
<1>14. QED
  BY Zenon, <1>1, <1>11, <1>12, <1>13 DEF End

LEMMA InitPair == Init => PairInv
<1>1. SUFFICES ASSUME Init PROVE PairInv
  BY Zenon
<1>2. DOMAIN conn = Role /\ DOMAIN wire = Role /\ DOMAIN said = Role /\ DOMAIN heard = Role
  BY Zenon, <1>1 DEF Init
<1>3. ASSUME NEW e \in Role PROVE EndOf(e)
  <2>1. Other(e) \in Role
    BY Zenon, Ends
  <2>2. /\ conn[e] = ws_conn_open(ws_conn_init(e)) /\ wire[e] = << >> /\ said[Other(e)] = << >>
        /\ heard[e] = << >> /\ said[e] = << >>
    BY Zenon, <1>1, <2>1 DEF Init
  <2>3. QED
    BY Zenon, <2>2, InitEnd DEF EndOf
<1>4. QED
  BY Zenon, <1>2, <1>3 DEF PairInv

\* The two ends after a step.
LEMMA BothEnds ==
    ASSUME NEW e \in Role, NEW o, o = Other(e),
           DOMAIN conn' = Role, DOMAIN wire' = Role, DOMAIN said' = Role, DOMAIN heard' = Role,
           End(e, o, conn'[e], wire'[e], said'[o], heard'[e], said'[e]),
           End(o, e, conn'[o], wire'[o], said'[e], heard'[o], said'[o])
    PROVE  PairInv'
<1>1. EndOf(e)' /\ EndOf(o)'
  BY Zenon, Ends DEF EndOf
<1>2. \A x \in Role : EndOf(x)'
  BY Zenon, <1>1, Ends
<1>3. QED
  BY Zenon, <1>2 DEF PairInv

\* The two ends before a step.
LEMMA EachEnd ==
    ASSUME PairInv, NEW e \in Role, NEW o, o = Other(e)
    PROVE  /\ o \in Role /\ o # e
           /\ DOMAIN conn = Role /\ DOMAIN wire = Role /\ DOMAIN said = Role /\ DOMAIN heard = Role
           /\ End(e, o, conn[e], wire[e], said[o], heard[e], said[e])
           /\ End(o, e, conn[o], wire[o], said[e], heard[o], said[o])
BY Zenon, Ends DEF PairInv, EndOf

LEMMA SayPair ==
    ASSUME PairInv, NEW e \in Role, NEW s \in Speech, Say(e, s) PROVE PairInv'
<1>1. PICK o : o = Other(e)
  BY Zenon
<1>2. /\ o \in Role /\ o # e
      /\ DOMAIN conn = Role /\ DOMAIN wire = Role /\ DOMAIN said = Role /\ DOMAIN heard = Role
      /\ End(e, o, conn[e], wire[e], said[o], heard[e], said[e])
      /\ End(o, e, conn[o], wire[o], said[e], heard[o], said[o])
  BY Zenon, <1>1, EachEnd
<1>3. PICK b : /\ b = Built(conn[e], s) /\ b.out # << >> /\ Consumed(e)
               /\ conn' = [conn EXCEPT ![e] = b.conn]
               /\ wire' = [wire EXCEPT ![o] = wire[o] \o b.out]
               /\ said' = [said EXCEPT ![e] = Append(said[e], s)] /\ heard' = heard
  BY Zenon, <1>1 DEF Say
<1>4. wire[o] = << >> /\ conn[o].rx_len = 0
  BY Zenon, <1>1, <1>3 DEF Consumed
<1>5. e = Other(o)
  BY Zenon, <1>1, Ends
<1>6. /\ DOMAIN conn' = Role /\ conn'[e] = b.conn /\ conn'[o] = conn[o]
      /\ DOMAIN said' = Role /\ said'[e] = Append(said[e], s) /\ said'[o] = said[o]
  BY Zenon, <1>1, <1>2, <1>3, Updated
<1>7. DOMAIN wire' = Role /\ wire'[o] = wire[o] \o b.out /\ wire'[e] = wire[e]
  BY Zenon, <1>2, <1>3, <1>5, Updated
<1>8. b.out = FrameOf(e, s) /\ Sized(s) /\ Speaks(conn[e], b.conn, s)
  <2>1. ConnInv(conn[e]) /\ conn[e].role = e
    BY Zenon, <1>2 DEF End, Stands
  <2>2. QED
    BY Zenon, <1>3, <2>1, BuiltIs
<1>9. End(e, o, b.conn, wire[e], said[o], heard[e], Append(said[e], s))
  BY Zenon, <1>2, <1>8, SaySpoken
<1>10. End(o, e, conn[o], wire[o] \o FrameOf(e, s), Append(said[e], s), heard[o], said[o])
  BY Zenon, <1>2, <1>4, <1>8, SayHeard
<1>11. DOMAIN heard' = Role /\ heard'[e] = heard[e] /\ heard'[o] = heard[o]
  BY Zenon, <1>2, <1>3
<1>12. End(e, o, conn'[e], wire'[e], said'[o], heard'[e], said'[e])
  BY Zenon, <1>6, <1>7, <1>9, <1>11
<1>13. End(o, e, conn'[o], wire'[o], said'[e], heard'[o], said'[o])
  BY Zenon, <1>6, <1>7, <1>8, <1>10, <1>11
<1>14. QED
  BY Zenon, <1>1, <1>6, <1>7, <1>11, <1>12, <1>13, BothEnds

LEMMA ReadPair ==
    ASSUME PairInv, NEW e \in Role, NEW late \in Delays, Read(e, late) PROVE PairInv'
<1>1. PICK o : o = Other(e)
  BY Zenon
<1>2. /\ o \in Role /\ o # e
      /\ DOMAIN conn = Role /\ DOMAIN wire = Role /\ DOMAIN said = Role /\ DOMAIN heard = Role
      /\ End(e, o, conn[e], wire[e], said[o], heard[e], said[e])
      /\ End(o, e, conn[o], wire[o], said[e], heard[o], said[o])
  BY Zenon, <1>1, EachEnd
<1>3. PICK k, bytes : /\ k = Len(wire[e]) - late /\ k > 0 /\ bytes = SubSeq(wire[e], 1, k)
                      /\ recv_fits(conn[e], bytes)
                      /\ conn' = [conn EXCEPT ![e] = ws_conn_recv(conn[e], bytes)]
                      /\ wire' = [wire EXCEPT ![e] = SubSeq(wire[e], k + 1, Len(wire[e]))]
                      /\ said' = said /\ heard' = heard
  BY Zenon DEF Read
<1>4. k \in 1..Len(wire[e])
  <2>1. late \in Nat
    BY Zenon, PairAssumption
  <2>2. wire[e] \in Seq(Byte)
    BY Zenon, <1>2 DEF End
  <2>3. Len(wire[e]) \in Nat
    BY SMTT(30), <2>2
  <2>4. QED
    BY SMT, <1>3, <2>1, <2>3
<1>5. /\ DOMAIN conn' = Role /\ conn'[e] = ws_conn_recv(conn[e], bytes) /\ conn'[o] = conn[o]
      /\ DOMAIN wire' = Role /\ wire'[e] = SubSeq(wire[e], k + 1, Len(wire[e]))
      /\ wire'[o] = wire[o]
  BY Zenon, <1>1, <1>2, <1>3, Updated
<1>6. End(e, o, ws_conn_recv(conn[e], bytes), SubSeq(wire[e], k + 1, Len(wire[e])), said[o],
          heard[e], said[e])
  BY Zenon, <1>2, <1>3, <1>4, ReadKeeps
<1>7. End(e, o, conn'[e], wire'[e], said'[o], heard'[e], said'[e])
  BY Zenon, <1>3, <1>5, <1>6
<1>8. End(o, e, conn'[o], wire'[o], said'[e], heard'[o], said'[o])
  BY Zenon, <1>2, <1>3, <1>5
<1>9. DOMAIN said' = Role /\ DOMAIN heard' = Role
  BY Zenon, <1>2, <1>3
<1>10. QED
  BY Zenon, <1>1, <1>5, <1>7, <1>8, <1>9, BothEnds

LEMMA PollPair ==
    ASSUME PairInv, NEW e \in Role, Poll(e) PROVE PairInv'
<1>1. PICK o : o = Other(e)
  BY Zenon
<1>2. /\ o \in Role /\ o # e
      /\ DOMAIN conn = Role /\ DOMAIN wire = Role /\ DOMAIN said = Role /\ DOMAIN heard = Role
      /\ End(e, o, conn[e], wire[e], said[o], heard[e], said[e])
      /\ End(o, e, conn[o], wire[o], said[e], heard[o], said[o])
  BY Zenon, <1>1, EachEnd
<1>3. PICK r : /\ r = ws_conn_poll(conn[e]) /\ conn' = [conn EXCEPT ![e] = r.conn]
               /\ heard' = [heard EXCEPT ![e] = HeardNow(conn[e], r, heard[e])]
               /\ wire' = wire /\ said' = said
  BY Zenon DEF Poll, HeardNow, Told
<1>4. /\ DOMAIN conn' = Role /\ conn'[e] = r.conn /\ conn'[o] = conn[o]
      /\ DOMAIN heard' = Role /\ heard'[e] = HeardNow(conn[e], r, heard[e])
      /\ heard'[o] = heard[o]
  BY Zenon, <1>1, <1>2, <1>3, Updated
<1>5. End(e, o, r.conn, wire[e], said[o], HeardNow(conn[e], r, heard[e]), said[e])
  BY Zenon, <1>2, <1>3, PollKeeps
<1>6. End(e, o, conn'[e], wire'[e], said'[o], heard'[e], said'[e])
  BY Zenon, <1>3, <1>4, <1>5
<1>7. End(o, e, conn'[o], wire'[o], said'[e], heard'[o], said'[o])
  BY Zenon, <1>2, <1>3, <1>4
<1>8. DOMAIN said' = Role /\ DOMAIN wire' = Role
  BY Zenon, <1>2, <1>3
<1>9. QED
  BY Zenon, <1>1, <1>4, <1>6, <1>7, <1>8, BothEnds

LEMMA NextPair == PairInv /\ [Next]_vars => PairInv'
<1>1. ASSUME PairInv, Next PROVE PairInv'
  BY Zenon, <1>1, SayPair, ReadPair, PollPair DEF Next
<1>2. ASSUME PairInv, UNCHANGED vars PROVE PairInv'
  BY Zenon, <1>2 DEF vars, PairInv, EndOf
<1>3. QED
  BY Zenon, <1>1, <1>2

\* For every buffer size, mask key, set of payloads, codes and messages and every way
\* the stream is cut, however the two ends' builders, ws_conn_recv and ws_conn_poll
\* interleave: each application hears exactly what the other said, in order, whole and
\* unaltered, up to the first misuse of the builders, and hears that as an error.
THEOREM Heard == Spec => []HeardAsSaid
<1>1. PairInv => HeardAsSaid
  <2>1. SUFFICES ASSUME PairInv, NEW e \in Role, NEW l, l = Lawful(said[Other(e)])
                 PROVE  StartOf(heard[e], IF l = said[Other(e)] THEN l ELSE Append(l, Failure))
    BY Zenon DEF HeardAsSaid
  <2>2. PICK o : o = Other(e)
    BY Zenon
  <2>3. End(e, o, conn[e], wire[e], said[o], heard[e], said[e])
    BY Zenon, <2>1, <2>2, EachEnd
  <2>4. l = Lawful(said[o])
    BY Zenon, <2>1, <2>2
  <2>5. StartOf(heard[e], IF l = said[o] THEN l ELSE Append(l, Failure))
    BY Zenon, <2>3, <2>4, EndHeard
  <2>6. QED
    BY Zenon, <2>2, <2>5
<1>2. QED
  BY <1>1, InitPair, NextPair, PTL DEF Spec

\* For the same instances: ws_conn_poll takes an end to CLOSED only when the peer
\* lawfully said Close, and an end that lawfully said it by ws_send_close is past OPEN.
THEOREM Closed == Spec => []CloseNeedsBoth
<1>1. PairInv => CloseNeedsBoth
  <2>1. SUFFICES ASSUME PairInv, NEW e \in Role
                 PROVE  /\ conn[e].state = "CLOSED" => Closing(said[Other(e)])
                        /\ Closing(said[e]) => conn[e].state # "OPEN"
    BY Zenon DEF CloseNeedsBoth
  <2>2. PICK o : o = Other(e)
    BY Zenon
  <2>3. /\ End(e, o, conn[e], wire[e], said[o], heard[e], said[e])
        /\ End(o, e, conn[o], wire[o], said[e], heard[o], said[o])
    BY Zenon, <2>1, <2>2, EachEnd
  <2>4. /\ conn[e].state = "CLOSED" => Closing(said[o])
        /\ SaysClose(said[e]) => conn[e].state # "OPEN"
    BY Zenon, <2>3, EndHeard
  <2>5. Closing(said[e]) => SaysClose(said[e])
    BY Zenon, <2>3, EndHeard
  <2>6. QED
    BY Zenon, <2>2, <2>4, <2>5
<1>2. QED
  BY <1>1, InitPair, NextPair, PTL DEF Spec
=============================================================================
