----------------------------- MODULE WsIoProofs -----------------------------
(***************************************************************************)
(* Theorems about WsIo, for any number of clients, slots and descriptors,  *)
(* every size of the buffers, every script and any number of failed calls: *)
(* the safety properties follow from one inductive invariant, IInv, and    *)
(* under it every step is a step of the abstract Service or leaves it alone. *)
(***************************************************************************)
EXTENDS WsIo, WsConnProofs

-----------------------------------------------------------------------------
(* The inductive invariant: the initial states satisfy it, and the clients, *)
(* setup, epoll_wait, accept and close keep it.                             *)

Busy == pc \in {"upgrade", "drain", "write", "close"}

\* What the service of cur does next, a pending write aside.
Stage == IF pc = "write" THEN after ELSE pc

Alive(slot) == slot.open /\ ws_lc_active(slot.conn) /\ ~slot.conn.failed

\* The queue holds the queued clients, once each.
QueueInv ==
    /\ \A i, j \in 1..Len(backlog) : backlog[i] = backlog[j] => i = j
    /\ \A c \in Clients : link[c] = "queued" <=> \E i \in 1..Len(backlog) : backlog[i] = c

\* The drivers are sound, and those of the connections that stay are alive.
ConnsInv ==
    \A s \in Slots :
        /\ ConnInv(slots[s].conn)
        /\ slots[s].used => slots[s].fd \in Fds
        /\ slots[s].used /\ slots[s].open => \/ Alive(slots[s])
                                             \/ s = cur /\ Stage \in {"close", "killed"}

\* The slot being serviced has no event left in the batch.
ServiceInv ==
    /\ Busy => cur \in Slots /\ \A e \in batch : e.fd # slots[cur].fd
    /\ pc = "write" => after \in {"upgrade", "drain", "close"}
    /\ Stage = "upgrade" => ~slots[cur].open
    /\ Stage = "drain" => slots[cur].open

IInv ==
    /\ TypeOK
    /\ script \in Scripts
    /\ PoolMatchesKernel
    /\ EventsAreFresh
    /\ QueueInv
    /\ ConnsInv
    /\ ServiceInv

-----------------------------------------------------------------------------
(* Least elements and the searches of the code.                             *)

\* alloc_slot finds an unused slot if there is one.
LEMMA AllocOK ==
    /\ alloc_slot = NULL => \A s \in Slots : slots[s].used
    /\ alloc_slot # NULL => alloc_slot \in Slots /\ ~slots[alloc_slot].used
<1> DEFINE free == {s \in Slots : ~slots[s].used}
<1>1. CASE free = {}
  BY <1>1 DEF alloc_slot
<1>2. CASE free # {}
  <2>1. free \subseteq Nat /\ \A s \in free : s # NULL
    BY IoAssumption DEF Slots, NULL
  <2>2. \E m \in free : \A n \in free : m <= n
    BY Zenon, <1>2, <2>1, LeastNumber
  <2>3. alloc_slot = CHOOSE s \in free : \A t \in free : s <= t
    BY <1>2 DEF alloc_slot
  <2>4. alloc_slot \in free
    BY <2>2, <2>3
  <2>5. QED
    BY <2>1, <2>4
<1>3. QED
  BY <1>1, <1>2

\* accept returns one of the free descriptors.
LEMMA LowestOK ==
    ASSUME NEW fds, fds \subseteq Fds, fds # {}
    PROVE  Lowest(fds) \in fds
<1>1. fds \subseteq Nat
  BY IoAssumption
<1>2. \E m \in fds : \A n \in fds : m <= n
  BY Zenon, <1>1, LeastNumber
<1>3. QED
  BY <1>2 DEF Lowest

\* slot_by_fd finds a used slot with the descriptor if there is one.
LEMMA SlotByFdOK ==
    ASSUME NEW fd
    PROVE  /\ slot_by_fd(fd) = NULL => \A s \in Slots : ~(slots[s].used /\ slots[s].fd = fd)
           /\ slot_by_fd(fd) # NULL => /\ slot_by_fd(fd) \in Slots
                                       /\ slots[slot_by_fd(fd)].used
                                       /\ slots[slot_by_fd(fd)].fd = fd
<1> DEFINE hits == {s \in Slots : slots[s].used /\ slots[s].fd = fd}
<1>1. CASE hits = {}
  BY <1>1 DEF slot_by_fd
<1>2. CASE hits # {}
  <2>1. hits \subseteq Nat /\ \A s \in hits : s # NULL
    BY IoAssumption DEF Slots, NULL
  <2>2. \E m \in hits : \A n \in hits : m <= n
    BY Zenon, <1>2, <2>1, LeastNumber
  <2>3. slot_by_fd(fd) = CHOOSE s \in hits : \A t \in hits : s <= t
    BY <1>2 DEF slot_by_fd
  <2>4. slot_by_fd(fd) \in hits
    BY <2>2, <2>3
  <2>5. QED
    BY <2>1, <2>4
<1>3. QED
  BY Zenon, <1>1, <1>2

\* find_sub returns an offset or -1.
LEMMA FindSubType ==
    ASSUME NEW buf \in Seq(Byte), NEW needle \in Seq(Byte)
    PROVE  find_sub(buf, needle) \in Nat \union {-1}
<1> DEFINE hits == {i \in 0..(Len(buf) - Len(needle)) :
                        SubSeq(buf, i + 1, i + Len(needle)) = needle}
<1>1. CASE hits = {}
  BY <1>1 DEF find_sub
<1>2. CASE hits # {}
  <2>1. hits \subseteq Nat
    OBVIOUS
  <2>2. \E m \in hits : \A n \in hits : m <= n
    BY Zenon, <1>2, <2>1, LeastNumber
  <2>3. find_sub(buf, needle) = CHOOSE i \in hits : \A j \in hits : i <= j
    BY Zenon, <1>2 DEF find_sub
  <2>4. find_sub(buf, needle) \in hits
    BY Zenon, <2>2, <2>3
  <2>5. QED
    BY <2>1, <2>4
<1>3. QED
  BY <1>1, <1>2

\* An element of a sequence is one of its values.
LEMMA ElementOfSeq ==
    ASSUME NEW S, NEW s \in Seq(S), NEW i \in 1..Len(s)
    PROVE  s[i] \in S
OBVIOUS

\* Cutting a sequence of bytes leaves bytes.
LEMMA CutType ==
    ASSUME NEW s \in Seq(Byte), NEW k \in Nat
    PROVE  /\ SubSeq(s, k + 1, Len(s)) \in Seq(Byte)
           /\ k <= Len(s) => SubSeq(s, 1, k) \in Seq(Byte) /\ Len(SubSeq(s, 1, k)) = k
<1>1. Len(s) \in Nat /\ \A i \in 1..Len(s) : s[i] \in Byte
  OBVIOUS
<1>2. SubSeq(s, k + 1, Len(s)) \in Seq(Byte)
  <2>1. \A i \in (k + 1)..Len(s) : s[i] \in Byte
    BY <1>1
  <2>2. QED
    BY <1>1, <2>1
<1>3. ASSUME k <= Len(s)
      PROVE  SubSeq(s, 1, k) \in Seq(Byte) /\ Len(SubSeq(s, 1, k)) = k
  <2>1. \A i \in 1..k : s[i] \in Byte
    BY <1>1, <1>3
  <2>2. QED
    BY <1>1, <2>1
<1>4. QED
  BY <1>2, <1>3

-----------------------------------------------------------------------------
(* The steps.                                                               *)

\* A slot as static storage and on_accept leave it.
LEMMA FreshOK ==
    /\ NoSlot \in SlotRecord /\ ConnInv(NoSlot.conn)
    /\ ~NoSlot.used /\ ~NoSlot.open /\ Len(NoSlot.hsbuf) = 0
    /\ \A fd \in Fds : /\ NewSlot(fd) \in SlotRecord /\ NewSlot(fd).conn = NoSlot.conn
                       /\ NewSlot(fd).fd = fd /\ NewSlot(fd).used /\ ~NewSlot(fd).open
                       /\ Len(NewSlot(fd).hsbuf) = 0
<1> DEFINE conn == ws_conn_init("SERVER")
<1>1. ConnInv(conn) /\ conn \in Conn
  BY InitOK DEF Role, ConnInv
<1>2. NoSlot = [fd |-> LISTEN, used |-> FALSE, open |-> FALSE, conn |-> conn, hsbuf |-> << >>]
  BY DEF NoSlot
<1> HIDE DEF conn
<1>3. NoSlot \in SlotRecord /\ NoSlot.conn = conn /\ ~NoSlot.used /\ ~NoSlot.open
      /\ NoSlot.hsbuf = << >> /\ << >> \in Seq(Byte)
  BY <1>1, <1>2 DEF SlotRecord
<1>4. ASSUME NEW fd \in Fds
      PROVE  /\ NewSlot(fd) \in SlotRecord /\ NewSlot(fd).conn = conn
             /\ NewSlot(fd).fd = fd /\ NewSlot(fd).used /\ ~NewSlot(fd).open
             /\ NewSlot(fd).hsbuf = << >>
  BY Zenon, <1>3 DEF NewSlot, SlotRecord
<1>5. QED
  BY <1>1, <1>3, <1>4

\* The invariant holds of the program just started.
LEMMA InitInv == Init => IInv
<1> SUFFICES ASSUME Init PROVE IInv
  OBVIOUS
<1>1. \A s \in Slots : slots[s] = NoSlot
  BY DEF Init
<1>2. TypeOK
  <2>1. slots \in [Slots -> SlotRecord] /\ \A s \in Slots : Len(slots[s].hsbuf) <= HsCap
    BY <1>1, FreshOK, IoAssumption DEF Init
  <2>2. pc \in Label /\ after \in Label /\ cur \in Slots \union {NULL}
    BY DEF Init, Label, SetupNext
  <2>3. QED
    BY <2>1, <2>2, IoAssumption DEF Init, TypeOK
<1>3. PoolMatchesKernel
  BY <1>1, FreshOK DEF Init, PoolMatchesKernel, Holds
<1>4. EventsAreFresh /\ QueueInv /\ script \in Scripts
  BY DEF Init, EventsAreFresh, QueueInv
<1>5. ConnsInv
  BY <1>1, FreshOK DEF ConnsInv
<1>6. ServiceInv
  BY DEF Init, ServiceInv, Busy, Stage
<1>7. QED
  BY <1>2, <1>3, <1>4, <1>5, <1>6 DEF IInv

\* A new connection goes to the end of the queue.
LEMMA ConnectInv == \A c \in Clients : IInv /\ Connect(c) => IInv'
<1> SUFFICES ASSUME NEW c \in Clients, IInv, Connect(c) PROVE IInv'
  OBVIOUS
<1>1. /\ backlog' = Append(backlog, c) /\ link[c] = "new"
      /\ link' = [link EXCEPT ![c] = "queued"]
      /\ UNCHANGED << slots, pc, batch, cur, todo, after, rc, peer, interest, rx, tx, sent, got,
                      gone, script, faults >>
  BY DEF Connect, loop, net
<1>2. backlog \in Seq(Clients) /\ link \in [Clients -> {"new", "queued", "accepted", "refused", "closed"}]
  BY DEF IInv, TypeOK
<1>3. /\ backlog' \in Seq(Clients) /\ backlog' # << >> /\ Len(backlog') = Len(backlog) + 1
      /\ \A i \in 1..Len(backlog) : backlog'[i] = backlog[i]
      /\ backlog'[Len(backlog) + 1] = c /\ Len(backlog) \in Nat
  BY <1>1, <1>2
<1>4. TypeOK'
  BY Zenon, <1>1, <1>2, <1>3 DEF IInv, TypeOK
<1>5. PoolMatchesKernel'
  BY <1>1, <1>2 DEF IInv, PoolMatchesKernel, Holds
<1>6. EventsAreFresh'
  BY <1>1, <1>3 DEF IInv, EventsAreFresh, Readable
<1>7. QueueInv'
  <2>1. \A i \in 1..Len(backlog) : backlog[i] # c
    BY <1>1 DEF IInv, QueueInv
  <2>2. \A i \in 1..Len(backlog') : i \in 1..Len(backlog) \/ i = Len(backlog) + 1
    BY <1>3
  <2>3. \A i, j \in 1..Len(backlog') : backlog'[i] = backlog'[j] => i = j
    BY <1>3, <2>1, <2>2 DEF IInv, QueueInv
  <2>4. ASSUME NEW d \in Clients
        PROVE  link'[d] = "queued" <=> \E i \in 1..Len(backlog') : backlog'[i] = d
    <3>1. CASE d = c
      BY <1>1, <1>2, <1>3, <3>1
    <3>2. CASE d # c
      <4>1. link'[d] = link[d]
        BY <1>1, <1>2, <3>2
      <4>2. (\E i \in 1..Len(backlog') : backlog'[i] = d)
                <=> \E i \in 1..Len(backlog) : backlog[i] = d
        BY <1>3, <2>2, <3>2
      <4>3. QED
        BY <4>1, <4>2 DEF IInv, QueueInv
    <3>3. QED
      BY <3>1, <3>2
  <2>5. QED
    BY <2>3, <2>4 DEF QueueInv
<1>8. ConnsInv' /\ ServiceInv'
  BY <1>1 DEF IInv, ConnsInv, ServiceInv, Busy, Stage
<1>9. QED
  BY SMTT(30), <1>1, <1>4, <1>5, <1>6, <1>7, <1>8 DEF IInv

\* Sending, reading and leaving change the network only, and what was readable
\* stays so.
LEMMA TrafficInv ==
    \A c \in Clients : IInv /\ (ClientSend(c) \/ ClientRead(c) \/ Leave(c)) => IInv'
<1> SUFFICES ASSUME NEW c \in Clients, IInv, ClientSend(c) \/ ClientRead(c) \/ Leave(c)
             PROVE  IInv'
  OBVIOUS
<1>1. UNCHANGED << slots, pc, batch, cur, todo, after, rc, peer, interest, backlog, link, script,
                   faults >>
  BY Zenon DEF ClientSend, ClientRead, Leave, loop, kernel
<1>2. rx \in [Clients -> Seq(Byte)] /\ sent \in [Clients -> Nat] /\ gone \subseteq Clients
  BY DEF IInv, TypeOK
<1>3. /\ rx' \in [Clients -> Seq(Byte)] /\ sent' \in [Clients -> Nat] /\ gone' \subseteq Clients
      /\ \A d \in Clients : Readable(d) => Readable(d)'
  <2>1. CASE ClientSend(c)
    <3> DEFINE bytes == script[c].segments[sent[c] + 1].bytes
    <3>1. bytes \in Seq(Byte)
      <4>1. script[c].segments \in Seq([bytes : Seq(Byte), await : Nat])
        BY Zenon, IoAssumption DEF IInv
      <4>2. sent[c] + 1 \in 1..Len(script[c].segments)
        <5>1. sent[c] < Len(script[c].segments)
          BY Zenon, <2>1 DEF ClientSend
        <5>2. sent[c] \in Nat /\ Len(script[c].segments) \in Nat
          BY <1>2, <4>1
        <5>3. QED
          BY <5>1, <5>2
      <4>3. script[c].segments[sent[c] + 1] \in [bytes : Seq(Byte), await : Nat]
        BY Zenon, <4>1, <4>2, ElementOfSeq
      <4>4. QED
        BY <4>3
    <3>2. /\ rx' = [rx EXCEPT ![c] = @ \o bytes] /\ gone' = gone
          /\ sent' = [sent EXCEPT ![c] = @ + 1]
      BY Zenon, <2>1 DEF ClientSend
    <3> HIDE DEF bytes
    <3>3. rx[c] \o bytes \in Seq(Byte) /\ (rx[c] # << >> => rx[c] \o bytes # << >>)
      BY <1>2, <3>1
    <3>4. QED
      BY SMTT(30), <1>2, <3>2, <3>3 DEF Readable
  <2>2. CASE ClientRead(c)
    BY <1>2, <2>2 DEF ClientRead, Readable
  <2>3. CASE Leave(c)
    <3>1. PICK kept \in {rx[c], << >>} : rx' = [rx EXCEPT ![c] = kept]
      BY Zenon, <2>3 DEF Leave
    <3>2. kept \in Seq(Byte)
      <4>1. << >> \in Seq(Byte)
        OBVIOUS
      <4>2. rx[c] \in Seq(Byte)
        BY <1>2
      <4>3. QED
        BY Zenon, <3>1, <4>1, <4>2
    <3>3. gone' = gone \union {c} /\ sent' = sent
      BY Zenon, <2>3 DEF Leave
    <3>4. QED
      BY <1>2, <3>1, <3>2, <3>3 DEF Readable
  <2>4. QED
    BY <2>1, <2>2, <2>3
<1>4. TypeOK'
  BY Zenon, <1>1, <1>3 DEF IInv, TypeOK
<1>5. PoolMatchesKernel' /\ QueueInv'
  <2>1. PoolMatchesKernel'
    BY Zenon, <1>1 DEF IInv, PoolMatchesKernel, Holds
  <2>2. QueueInv'
    BY Zenon, <1>1 DEF IInv, QueueInv
  <2>3. QED
    BY Zenon, <2>1, <2>2
<1>6. EventsAreFresh'
  <2>1. \A e \in batch : e.of \in Clients \union {NoClient}
    BY Zenon DEF IInv, TypeOK
  <2>2. QED
    BY <1>1, <1>3, <2>1 DEF IInv, EventsAreFresh
<1>7. ConnsInv' /\ ServiceInv'
  BY <1>1 DEF IInv, ConnsInv, ServiceInv, Busy, Stage
<1>8. QED
  BY <1>1, <1>4, <1>5, <1>6, <1>7 DEF IInv

\* Setup touches no connection.
LEMMA SetupInv == IInv /\ io_setup => IInv'
<1> SUFFICES ASSUME IInv, io_setup PROVE IInv'
  BY Zenon
<1>1. UNCHANGED << slots, batch, cur, todo, after, peer, interest, backlog, link, rx, tx, sent, got,
                   gone, script >>
  BY Zenon DEF io_setup, kernel, net
<1>2. /\ pc \in {"socket", "bind", "listen", "epoll"}
      /\ pc' \in {"bind", "listen", "epoll", "loop", "returned"}
      /\ rc' \in -4..0 /\ faults' \in 0..MaxFaults
  BY IoAssumption DEF io_setup, SetupNext, SetupError, Fault, IInv, TypeOK
<1>3. TypeOK'
  BY ZenonT(60), <1>1, <1>2 DEF IInv, TypeOK, Label, SetupNext
<1>4. PoolMatchesKernel' /\ QueueInv'
  <2>1. PoolMatchesKernel'
    BY Zenon, <1>1, <1>2 DEF IInv, PoolMatchesKernel, Holds
  <2>2. QueueInv'
    BY Zenon, <1>1, <1>2 DEF IInv, QueueInv
  <2>3. QED
    BY Zenon, <2>1, <2>2
<1>5. EventsAreFresh'
  BY ZenonT(60), <1>1 DEF IInv, EventsAreFresh, Readable
<1>6. ConnsInv' /\ ServiceInv'
  BY <1>1, <1>2 DEF IInv, ConnsInv, ServiceInv, Busy, Stage
<1>7. QED
  BY <1>1, <1>3, <1>4, <1>5, <1>6 DEF IInv

\* A new batch has one event for each readable descriptor.
LEMMA WaitInv == IInv /\ epoll_wait => IInv'
<1> SUFFICES ASSUME IInv, epoll_wait PROVE IInv'
  OBVIOUS
<1>1. /\ pc = "loop" /\ batch' = ReadyEvents
      /\ UNCHANGED << slots, pc, cur, todo, after, rc, peer, interest, backlog, link, rx, tx, sent,
                      got, gone, script, faults >>
  BY Zenon DEF epoll_wait, kernel, net
<1>2. /\ \A e \in ReadyEvents :
             \/ /\ e.fd = LISTEN /\ e = [fd |-> LISTEN, of |-> NoClient] /\ backlog # << >>
             \/ /\ e.fd \in interest /\ Readable(peer[e.fd])
                /\ e = [fd |-> e.fd, of |-> peer[e.fd]]
      /\ interest \subseteq Fds /\ LISTEN \notin Fds
      /\ \A fd \in interest : peer[fd] \in Clients /\ peer[fd] # NoClient
  <2>1. \A e \in ReadyEvents :
             \/ /\ e.fd = LISTEN /\ e = [fd |-> LISTEN, of |-> NoClient] /\ backlog # << >>
             \/ /\ e.fd \in interest /\ Readable(peer[e.fd])
                /\ e = [fd |-> e.fd, of |-> peer[e.fd]]
    BY DEF ReadyEvents
  <2>2. QED
    BY <2>1, IoAssumption DEF IInv, TypeOK, PoolMatchesKernel, LISTEN
<1>3. TypeOK'
  BY <1>1, <1>2 DEF IInv, TypeOK
<1>4. EventsAreFresh'
  BY <1>1, <1>2 DEF EventsAreFresh, Readable
<1>5. PoolMatchesKernel' /\ QueueInv'
  <2>1. PoolMatchesKernel'
    BY Zenon, <1>1 DEF IInv, PoolMatchesKernel, Holds
  <2>2. QueueInv'
    BY Zenon, <1>1 DEF IInv, QueueInv
  <2>3. QED
    BY Zenon, <2>1, <2>2
<1>6. ConnsInv' /\ ServiceInv'
  BY <1>1 DEF IInv, ConnsInv, ServiceInv, Busy, Stage
<1>7. QED
  BY <1>1, <1>3, <1>4, <1>5, <1>6 DEF IInv

\* The queue without its head.
LEMMA TailQueue ==
    ASSUME IInv, backlog # << >>
    PROVE  /\ Head(backlog) \in Clients /\ link[Head(backlog)] = "queued"
           /\ Tail(backlog) \in Seq(Clients)
           /\ \A i, j \in 1..Len(Tail(backlog)) : Tail(backlog)[i] = Tail(backlog)[j] => i = j
           /\ \A d \in Clients : (\E i \in 1..Len(Tail(backlog)) : Tail(backlog)[i] = d)
                                     <=> link[d] = "queued" /\ d # Head(backlog)
<1>1. backlog \in Seq(Clients) /\ Len(backlog) \in Nat \ {0} /\ Head(backlog) = backlog[1]
  BY DEF IInv, TypeOK
<1> DEFINE rest == Tail(backlog)
<1>2. /\ rest \in Seq(Clients) /\ Len(rest) = Len(backlog) - 1
      /\ \A i \in 1..Len(rest) : rest[i] = backlog[i + 1]
  BY <1>1
<1> HIDE DEF rest
<1>3. /\ \A i, j \in 1..Len(backlog) : backlog[i] = backlog[j] => i = j
      /\ \A c \in Clients : link[c] = "queued" <=> \E i \in 1..Len(backlog) : backlog[i] = c
  BY DEF IInv, QueueInv
<1>4. 1 \in 1..Len(backlog) /\ Head(backlog) \in Clients /\ link[Head(backlog)] = "queued"
  BY <1>1, <1>3
<1>5. \A i \in 1..Len(rest) : i + 1 \in 1..Len(backlog) /\ i + 1 # 1
  BY <1>1, <1>2
<1>6. \A i, j \in 1..Len(rest) : rest[i] = rest[j] => i = j
  <2> SUFFICES ASSUME NEW i \in 1..Len(rest), NEW j \in 1..Len(rest), rest[i] = rest[j]
               PROVE  i = j
    OBVIOUS
  <2>1. i + 1 = j + 1
    BY <1>2, <1>3, <1>5
  <2>2. QED
    BY <2>1
<1>7. ASSUME NEW d \in Clients
      PROVE  (\E i \in 1..Len(rest) : rest[i] = d) <=> link[d] = "queued" /\ d # Head(backlog)
  <2>1. ASSUME NEW i \in 1..Len(rest), rest[i] = d
        PROVE  link[d] = "queued" /\ d # Head(backlog)
    BY SMTT(30), <1>1, <1>2, <1>3, <1>4, <1>5, <2>1
  <2>2. ASSUME link[d] = "queued", d # Head(backlog)
        PROVE  \E i \in 1..Len(rest) : rest[i] = d
    <3>1. PICK j \in 1..Len(backlog) : backlog[j] = d
      BY <1>3, <2>2
    <3>2. j # 1
      BY <1>1, <2>2, <3>1
    <3>3. j - 1 \in 1..Len(rest) /\ (j - 1) + 1 = j
      BY <1>1, <1>2, <3>2
    <3>4. rest[j - 1] = d
      BY ZenonT(60), <1>2, <3>1, <3>3
    <3>5. QED
      BY <3>3, <3>4
  <2>3. QED
    BY Zenon, <2>1, <2>2
<1>8. QED
  BY Zenon, <1>2, <1>4, <1>6, <1>7 DEF rest

\* What a service step in progress starts from.
LEMMA ServiceFacts ==
    ASSUME IInv, Busy
    PROVE  /\ cur \in Slots /\ slots[cur].used /\ slots[cur] \in SlotRecord
           /\ slots \in [Slots -> SlotRecord] /\ slots[cur].fd \in Fds
           /\ ConnInv(slots[cur].conn) /\ Len(slots[cur].hsbuf) <= HsCap
           /\ \A e \in batch : /\ e.fd # slots[cur].fd
                               /\ e.fd # LISTEN => Readable(e.of)
BY ZenonT(60)
   DEF IInv, TypeOK, PoolMatchesKernel, EventsAreFresh, ConnsInv, ServiceInv, Busy

\* accept: the client at the head of the queue takes a free slot and a free
\* descriptor, or is refused.
LEMMA AcceptInv == \A e \in batch : IInv /\ on_accept(e) => IInv'
<1> SUFFICES ASSUME NEW e \in batch, IInv, on_accept(e) PROVE IInv'
  OBVIOUS
<1> DEFINE free == {fd \in Fds : peer[fd] = NoClient}
<1> PICK fd, c, s : fd = Lowest(free) /\ c = Head(backlog) /\ s = alloc_slot
  BY Zenon
<1>1. /\ pc = "loop" /\ e.fd = LISTEN /\ batch' = batch \ {e}
      /\ UNCHANGED << pc, cur, todo, after, rc, rx, tx, sent, got, gone, script >>
      /\ \/ Fault /\ UNCHANGED << slots, peer, interest, backlog, link >>
         \/ free # {} /\ backlog # << >> /\ Admit(fd)
  BY DEF on_accept, kernel, net
<1>2. \A f \in batch' : f \in batch /\ f.fd # LISTEN /\ f.fd \in Fds
                        /\ peer[f.fd] = f.of /\ f.of # NoClient /\ Readable(f.of)
  BY <1>1 DEF IInv, EventsAreFresh, TypeOK
<1>3. /\ slots \in [Slots -> SlotRecord] /\ peer \in [Fds -> Clients \union {NoClient}]
      /\ link \in [Clients -> {"new", "queued", "accepted", "refused", "closed"}]
      /\ faults \in 0..MaxFaults /\ interest \subseteq Fds
  BY SMTT(30) DEF IInv, TypeOK
<1>4. \A f \in batch' : Readable(f.of)'
  BY ZenonT(60), <1>1, <1>2 DEF Readable
<1>5. CASE Fault /\ UNCHANGED << slots, peer, interest, backlog, link >>
  <2>1. faults' \in 0..MaxFaults
    BY SMTT(30), <1>3, <1>5, IoAssumption DEF Fault
  <2>2. TypeOK'
    BY Zenon, <1>1, <1>5, <2>1 DEF IInv, TypeOK
  <2>3. PoolMatchesKernel' /\ QueueInv'
    <3>1. PoolMatchesKernel'
      BY Zenon, <1>1, <1>5 DEF IInv, PoolMatchesKernel, Holds
    <3>2. QueueInv'
      BY Zenon, <1>1, <1>5 DEF IInv, QueueInv
    <3>3. QED
      BY Zenon, <3>1, <3>2
  <2>4. EventsAreFresh'
    BY Zenon, <1>1, <1>2, <1>4, <1>5 DEF IInv, EventsAreFresh
  <2>5. ConnsInv' /\ ServiceInv'
    BY <1>1, <1>5 DEF IInv, ConnsInv, ServiceInv, Busy, Stage
  <2>6. QED
    BY <1>1, <2>2, <2>3, <2>4, <2>5 DEF IInv
<1>6. CASE free # {} /\ backlog # << >> /\ Admit(fd)
  <2>1. fd \in Fds /\ peer[fd] = NoClient
    BY <1>6, LowestOK
  <2>2. /\ c \in Clients /\ link[c] = "queued" /\ Tail(backlog) \in Seq(Clients)
        /\ \A i, j \in 1..Len(Tail(backlog)) : Tail(backlog)[i] = Tail(backlog)[j] => i = j
        /\ \A d \in Clients : (\E i \in 1..Len(Tail(backlog)) : Tail(backlog)[i] = d)
                                  <=> link[d] = "queued" /\ d # c
    BY Zenon, <1>6, TailQueue
  <2>3. /\ s = NULL => \A t \in Slots : slots[t].used
        /\ s # NULL => s \in Slots /\ ~slots[s].used
    BY AllocOK
  <2>4. /\ backlog' = Tail(backlog)
        /\ \/ /\ s = NULL
              /\ link' = [link EXCEPT ![c] = "refused"]
              /\ UNCHANGED << slots, peer, interest, faults >>
           \/ /\ s # NULL
              /\ slots' = [slots EXCEPT ![s] = NewSlot(fd)]
              /\ peer' = [peer EXCEPT ![fd] = c]
              /\ link' = [link EXCEPT ![c] = "accepted"]
              /\ \/ interest' = interest \union {fd} /\ faults' = faults
                 \/ Fault /\ interest' = interest
    BY <1>6 DEF Admit, epoll_add
  <2> HIDE DEF free
  <2>5. /\ \A f \in Fds : peer[f] # c
        /\ \A t \in Slots : slots[t].used => slots[t].fd \in Fds /\ slots[t].fd # fd
                                             /\ peer[slots[t].fd] # NoClient
    <3>1. \A t \in Slots : slots[t].used => slots[t].fd \in Fds /\ peer[slots[t].fd] # NoClient
      BY DEF IInv, PoolMatchesKernel, ConnsInv
    <3>2. ASSUME NEW f \in Fds, peer[f] = c
          PROVE  FALSE
      <4>1. PICK t \in Slots : slots[t].used /\ slots[t].fd = f
        BY ZenonT(60), <2>2, <3>2, IoAssumption DEF IInv, PoolMatchesKernel
      <4>2. Holds(t, c)
        BY <3>2, <4>1 DEF Holds
      <4>3. QED
        BY ZenonT(60), <2>2, <4>2 DEF IInv, PoolMatchesKernel
    <3>3. QED
      BY ZenonT(60), <2>1, <3>1, <3>2
  <2>6. QueueInv'
    <3>1. \A d \in Clients : link'[d] = "queued" <=> link[d] = "queued" /\ d # c
      BY SMTT(30), <1>3, <2>2, <2>4
    <3>2. QED
      BY ZenonT(60), <2>2, <2>4, <3>1 DEF QueueInv
  <2>7. EventsAreFresh'
    <3>1. \A f \in batch' : peer'[f.fd] = f.of
      BY SMTT(30), <1>2, <1>3, <2>1, <2>4
    <3>2. QED
      BY Zenon, <1>1, <1>2, <1>4, <3>1 DEF IInv, EventsAreFresh
  <2>8. CASE s = NULL
    <3>1. TypeOK'
      BY ZenonT(60), <1>1, <1>3, <2>2, <2>4, <2>8 DEF IInv, TypeOK
    <3>2. \A d \in Clients : link'[d] = "accepted" <=> link[d] = "accepted"
      BY <1>3, <2>2, <2>4, <2>8
    <3>3. PoolMatchesKernel'
      <4>1. PoolMatchesKernel
        BY DEF IInv
      <4>2. slots' = slots /\ peer' = peer /\ interest' = interest
        BY <2>4, <2>8
      <4>3. \A t \in Slots, d \in Clients : Holds(t, d)' <=> Holds(t, d)
        BY Zenon, <4>2 DEF Holds
      <4>4. \A d \in Clients : link'[d] = "accepted" <=> \E t \in Slots : Holds(t, d)'
        BY ZenonT(60), <3>2, <4>1, <4>3 DEF PoolMatchesKernel
      <4>5. QED
        BY Zenon, <1>1, <4>1, <4>2, <4>4 DEF PoolMatchesKernel
    <3>4. ConnsInv' /\ ServiceInv'
      BY ZenonT(60), <1>1, <2>4, <2>8 DEF IInv, ConnsInv, ServiceInv, Busy, Stage
    <3>5. QED
      BY SMTT(30), <1>1, <2>6, <2>7, <3>1, <3>3, <3>4 DEF IInv
  <2>9. CASE s # NULL
    <3>0. /\ slots' = [slots EXCEPT ![s] = NewSlot(fd)]
          /\ peer' = [peer EXCEPT ![fd] = c]
          /\ link' = [link EXCEPT ![c] = "accepted"]
          /\ \/ interest' = interest \union {fd} /\ faults' = faults
             \/ Fault /\ interest' = interest
      BY Zenon, <2>4, <2>9
    <3>1. /\ s \in Slots /\ ~slots[s].used
          /\ slots' \in [Slots -> SlotRecord] /\ slots'[s] = NewSlot(fd)
          /\ \A t \in Slots : t # s => slots'[t] = slots[t]
          /\ slots'[s].fd = fd /\ slots'[s].used /\ ~slots'[s].open
          /\ ConnInv(slots'[s].conn) /\ Len(slots'[s].hsbuf) = 0
      BY Zenon, <1>3, <2>1, <2>3, <2>9, <3>0, FreshOK
    <3>2. /\ peer' \in [Fds -> Clients \union {NoClient}] /\ peer'[fd] = c
          /\ \A f \in Fds : f # fd => peer'[f] = peer[f]
          /\ link' \in [Clients -> {"new", "queued", "accepted", "refused", "closed"}]
          /\ link'[c] = "accepted" /\ \A d \in Clients : d # c => link'[d] = link[d]
          /\ interest' \subseteq interest \union {fd} /\ interest' \subseteq Fds
          /\ faults' \in 0..MaxFaults
      <4>1. interest' \subseteq interest \union {fd} /\ interest' \subseteq Fds
        BY ZenonT(60), <1>3, <2>1, <3>0
      <4>2. faults' \in 0..MaxFaults
        BY <1>3, <3>0, IoAssumption DEF Fault
      <4>3. QED
        BY Zenon, <1>3, <2>1, <2>2, <3>0, <4>1, <4>2
    <3>3. TypeOK'
      <4>1. \A t \in Slots : Len(slots'[t].hsbuf) <= HsCap
        <5>1. HsCap \in Nat /\ \A t \in Slots : Len(slots[t].hsbuf) <= HsCap
          BY IoAssumption DEF IInv, TypeOK
        <5>2. QED
          BY SMTT(30), <3>1, <5>1
      <4>2. backlog' \in Seq(Clients)
        BY Zenon, <2>2, <2>4
      <4>3. QED
        BY Zenon, <1>1, <3>1, <3>2, <4>1, <4>2 DEF IInv, TypeOK
    <3>4. PoolMatchesKernel'
      <4>1. \A t, u \in Slots : slots'[t].used /\ slots'[u].used /\ slots'[t].fd = slots'[u].fd
                                    => t = u
        <5>1. /\ \A t, u \in Slots : slots[t].used /\ slots[u].used /\ slots[t].fd = slots[u].fd
                                         => t = u
              /\ \A t \in Slots : slots[t].used => slots[t].fd # fd
          BY Zenon, <2>5 DEF IInv, PoolMatchesKernel
        <5>2. s \in Slots /\ slots'[s].fd = fd /\ \A t \in Slots : t # s => slots'[t] = slots[t]
          BY Zenon, <3>1
        <5>3. QED
          BY Zenon, <5>1, <5>2
      <4>2. \A f \in Fds : peer'[f] # NoClient
                               <=> \E t \in Slots : slots'[t].used /\ slots'[t].fd = f
        <5> SUFFICES ASSUME NEW f \in Fds
                     PROVE  peer'[f] # NoClient <=> \E t \in Slots : slots'[t].used /\ slots'[t].fd = f
          BY Zenon
        <5>1. CASE f = fd
          <6>1. c # NoClient
            BY Zenon, <2>2, IoAssumption
          <6>2. QED
            BY Zenon, <3>1, <3>2, <5>1, <6>1
        <5>2. CASE f # fd
          <6>1. peer[f] # NoClient <=> \E t \in Slots : slots[t].used /\ slots[t].fd = f
            BY Zenon DEF IInv, PoolMatchesKernel
          <6>2. /\ s \in Slots /\ ~slots[s].used /\ slots'[s].fd # f
                /\ \A t \in Slots : t # s => slots'[t] = slots[t]
            BY Zenon, <3>1, <5>2
          <6>3. QED
            BY Zenon, <3>2, <5>2, <6>1, <6>2
        <5>3. QED
          BY <5>1, <5>2
      <4>3. \A f, g \in Fds : peer'[f] # NoClient /\ peer'[f] = peer'[g] => f = g
        <5>1. \A f, g \in Fds : peer[f] # NoClient /\ peer[f] = peer[g] => f = g
          BY Zenon DEF IInv, PoolMatchesKernel
        <5>2. \A f \in Fds : peer[f] # c
          BY Zenon, <2>5
        <5>3. QED
          BY Zenon, <3>2, <5>1, <5>2
      <4>4. \A d \in Clients : link'[d] = "accepted" <=> \E t \in Slots : Holds(t, d)'
        <5>1. Holds(s, c)'
          BY Zenon, <3>1, <3>2 DEF Holds
        <5>2. ASSUME NEW d \in Clients, d # c, NEW t \in Slots
              PROVE  Holds(t, d)' <=> Holds(t, d)
          <6>1. CASE t = s
            <7>1. ~Holds(t, d)
              BY Zenon, <3>1, <6>1 DEF Holds
            <7>2. ~Holds(t, d)'
              BY Zenon, <3>1, <3>2, <5>2, <6>1 DEF Holds
            <7>3. QED
              BY Zenon, <7>1, <7>2
          <6>2. CASE t # s
            <7>1. slots'[t] = slots[t]
              BY Zenon, <3>1, <5>2, <6>2
            <7>2. slots[t].used => peer'[slots[t].fd] = peer[slots[t].fd]
              BY Zenon, <2>5, <3>2, <5>2
            <7>3. QED
              BY Zenon, <7>1, <7>2 DEF Holds
          <6>3. QED
            BY Zenon, <6>1, <6>2
        <5>3. \A d \in Clients : link[d] = "accepted" <=> \E t \in Slots : Holds(t, d)
          BY Zenon DEF IInv, PoolMatchesKernel
        <5>4. s \in Slots /\ link'[c] = "accepted" /\ \A d \in Clients : d # c => link'[d] = link[d]
          BY Zenon, <3>1, <3>2
        <5>5. QED
          BY Zenon, <5>1, <5>2, <5>3, <5>4
      <4>5. \A f \in interest' : peer'[f] # NoClient
        <5>1. c # NoClient /\ \A f \in interest : f \in Fds /\ peer[f] # NoClient
          BY Zenon, <1>3, <2>2, IoAssumption DEF IInv, PoolMatchesKernel
        <5>2. QED
          BY Zenon, <3>2, <5>1
      <4>6. QED
        BY ZenonT(60), <1>1, <4>1, <4>2, <4>3, <4>4, <4>5 DEF PoolMatchesKernel
    <3>5. ConnsInv'
      BY Zenon, <1>1, <2>1, <3>1 DEF IInv, ConnsInv, Alive, Stage
    <3>6. ServiceInv'
      BY <1>1 DEF ServiceInv, Busy, Stage
    <3>7. QED
      BY Zenon, <1>1, <2>6, <2>7, <3>3, <3>4, <3>5, <3>6 DEF IInv
  <2>10. QED
    BY <2>8, <2>9
<1>7. QED
  BY SMTT(30), <1>1, <1>5, <1>6

\* Closing gives up the slot, its descriptor and its registration together.
LEMMA CloseInv == IInv /\ slot_close => IInv'
<1> SUFFICES ASSUME IInv, slot_close PROVE IInv'
  OBVIOUS
<1>1. PICK s, fd, c : s = cur /\ fd = slots[cur].fd /\ c = peer[fd]
  OBVIOUS
<1>2. /\ pc = "close" /\ pc' = "loop"
      /\ slots' = [slots EXCEPT ![s].used = FALSE]
      /\ interest' = interest \ {fd}
      /\ peer' = [peer EXCEPT ![fd] = NoClient]
      /\ link' = [link EXCEPT ![c] = "closed"]
      /\ UNCHANGED << batch, cur, todo, after, rc, backlog, rx, tx, sent, got, gone, script,
                      faults >>
  BY <1>1 DEF slot_close, net
<1>3. Busy
  BY Zenon, <1>2 DEF Busy
<1>4. /\ s \in Slots /\ slots[s].used /\ slots[s].fd = fd /\ fd \in Fds
      /\ slots \in [Slots -> SlotRecord]
      /\ \A e \in batch : e.fd # fd
  BY <1>1, <1>3, ServiceFacts
<1>5. /\ peer \in [Fds -> Clients \union {NoClient}] /\ interest \subseteq Fds
      /\ link \in [Clients -> {"new", "queued", "accepted", "refused", "closed"}]
  BY Zenon DEF IInv, TypeOK
<1>6. c \in Clients /\ c # NoClient /\ peer[fd] = c /\ link[c] = "accepted"
  <2>1. peer[fd] # NoClient
    BY <1>4 DEF IInv, PoolMatchesKernel
  <2>2. Holds(s, c)
    BY <1>1, <1>4 DEF Holds
  <2>3. c \in Clients
    BY <1>1, <1>4, <1>5, <2>1
  <2>4. QED
    BY Zenon, <1>1, <1>4, <2>1, <2>2, <2>3 DEF IInv, PoolMatchesKernel
<1>7. /\ slots' \in [Slots -> SlotRecord] /\ ~slots'[s].used
      /\ \A t \in Slots : t # s => slots'[t] = slots[t]
      /\ \A t \in Slots : slots'[t].conn = slots[t].conn /\ slots'[t].hsbuf = slots[t].hsbuf
  BY Zenon, <1>2, <1>4 DEF SlotRecord
<1>8. /\ peer' \in [Fds -> Clients \union {NoClient}] /\ peer'[fd] = NoClient
      /\ \A f \in Fds : f # fd => peer'[f] = peer[f]
      /\ link' \in [Clients -> {"new", "queued", "accepted", "refused", "closed"}]
      /\ link'[c] = "closed" /\ \A d \in Clients : d # c => link'[d] = link[d]
      /\ interest' \subseteq Fds
  BY <1>2, <1>4, <1>5, <1>6
<1>9. \A t \in Slots : t # s /\ slots[t].used => slots[t].fd # fd /\ slots[t].fd \in Fds
                                                 /\ peer[slots[t].fd] # c
  <2> SUFFICES ASSUME NEW t \in Slots, t # s, slots[t].used
               PROVE  slots[t].fd # fd /\ slots[t].fd \in Fds /\ peer[slots[t].fd] # c
    BY Zenon
  <2>1. slots[t].fd # fd /\ slots[t].fd \in Fds
    BY Zenon, <1>4 DEF IInv, PoolMatchesKernel, ConnsInv
  <2>2. \A f, g \in Fds : peer[f] # NoClient /\ peer[f] = peer[g] => f = g
    BY DEF IInv, PoolMatchesKernel
  <2>3. QED
    BY Zenon, <1>4, <1>6, <2>1, <2>2
<1>10. TypeOK'
  <2>1. "loop" \in Label
    BY DEF Label
  <2>2. QED
    BY SMTT(30), <1>2, <1>7, <1>8, <2>1 DEF IInv, TypeOK
<1>11. PoolMatchesKernel'
  <2>1. \A t, u \in Slots : slots'[t].used /\ slots'[u].used /\ slots'[t].fd = slots'[u].fd => t = u
    BY <1>7 DEF IInv, PoolMatchesKernel
  <2>2. ASSUME NEW f \in Fds
        PROVE  peer'[f] # NoClient <=> \E t \in Slots : slots'[t].used /\ slots'[t].fd = f
    <3>1. CASE f = fd
      BY Zenon, <1>7, <1>8, <1>9, <3>1
    <3>2. CASE f # fd
      <4>1. peer[f] # NoClient <=> \E t \in Slots : slots[t].used /\ slots[t].fd = f
        BY Zenon DEF IInv, PoolMatchesKernel
      <4>2. \A t \in Slots : slots'[t].used /\ slots'[t].fd = f <=> slots[t].used /\ slots[t].fd = f
        BY ZenonT(60), <1>4, <1>7, <3>2
      <4>3. QED
        BY Zenon, <1>8, <3>2, <4>1, <4>2
    <3>3. QED
      BY Zenon, <3>1, <3>2
  <2>3. \A f, g \in Fds : peer'[f] # NoClient /\ peer'[f] = peer'[g] => f = g
    BY <1>8 DEF IInv, PoolMatchesKernel
  <2>4. ASSUME NEW d \in Clients
        PROVE  link'[d] = "accepted" <=> \E t \in Slots : Holds(t, d)'
    <3>1. \A t \in Slots : Holds(t, d)' <=> t # s /\ Holds(t, d)
      BY <1>7, <1>8, <1>9 DEF Holds
    <3>2. CASE d = c
      <4>1. \A t \in Slots : ~Holds(t, d)'
        BY ZenonT(60), <1>9, <3>1, <3>2 DEF Holds
      <4>2. QED
        BY Zenon, <1>8, <3>2, <4>1
    <3>3. CASE d # c
      <4>1. ~Holds(s, d)
        BY SMTT(30), <1>4, <1>6, <3>3 DEF Holds
      <4>2. QED
        BY SMTT(30), <1>8, <3>1, <3>3, <4>1 DEF IInv, PoolMatchesKernel
    <3>4. QED
      BY ZenonT(60), <3>2, <3>3
  <2>5. \A f \in interest' : peer'[f] # NoClient
    BY <1>2, <1>5, <1>8 DEF IInv, PoolMatchesKernel
  <2>6. QED
    BY Zenon, <1>2, <2>1, <2>2, <2>3, <2>4, <2>5 DEF PoolMatchesKernel
<1>12. EventsAreFresh'
  <2>1. \A e \in batch : e.fd # LISTEN => e.fd \in Fds /\ peer'[e.fd] = peer[e.fd]
    BY <1>4, <1>8 DEF IInv, TypeOK
  <2>2. QED
    BY Zenon, <1>2, <2>1 DEF IInv, EventsAreFresh, Readable
<1>13. QueueInv'
  <2>1. \A d \in Clients : link'[d] = "queued" <=> link[d] = "queued"
    BY Zenon, <1>6, <1>8
  <2>2. QED
    BY Zenon, <1>2, <2>1 DEF IInv, QueueInv
<1>14. ConnsInv'
  <2> SUFFICES ASSUME NEW t \in Slots
               PROVE  /\ ConnInv(slots'[t].conn)
                      /\ slots'[t].used => slots'[t].fd \in Fds
                      /\ slots'[t].used /\ slots'[t].open => Alive(slots'[t])
    BY DEF ConnsInv, Alive
  <2>1. CASE t = s
    BY Zenon, <1>7, <2>1 DEF IInv, ConnsInv
  <2>2. CASE t # s
    BY <1>1, <1>7, <2>2 DEF IInv, ConnsInv
  <2>3. QED
    BY Zenon, <2>1, <2>2
<1>15. ServiceInv'
  BY SMTT(30), <1>2 DEF ServiceInv, Busy, Stage
<1>16. QED
  BY Zenon, <1>2, <1>10, <1>11, <1>12, <1>13, <1>14, <1>15 DEF IInv

-----------------------------------------------------------------------------
(* The steps that serve a slot: read, upgrade, drain and write.             *)

\* A step of the service of slot s keeps the invariant if it keeps the slot's
\* seat and leaves a sound driver, alive unless the connection is to be closed.
LEMMA ServeStep ==
    ASSUME IInv, NEW s \in Slots, slots[s].used, pc = "loop" \/ cur = s,
           NEW new \in SlotRecord, slots' = [slots EXCEPT ![s] = new],
           new.fd = slots[s].fd, new.used, ConnInv(new.conn), Len(new.hsbuf) <= HsCap,
           cur' = s, pc' \in Label, after' \in Label,
           pc' = "write" => after' \in {"upgrade", "drain", "close"},
           Stage' = "upgrade" => ~new.open,
           Stage' = "drain" => new.open,
           new.open => Alive(new) \/ Stage' \in {"close", "killed"},
           batch' \subseteq batch,
           Busy' => \A e \in batch' : e.fd # slots[s].fd,
           rx' \in [Clients -> Seq(Byte)],
           \A e \in batch' : e.fd # LISTEN => Readable(e.of)',
           UNCHANGED << rc, peer, interest, backlog, link, sent, gone, script, faults >>
    PROVE  IInv'
<1>1. /\ slots' \in [Slots -> SlotRecord] /\ slots'[s] = new
      /\ \A t \in Slots : t # s => slots'[t] = slots[t]
      /\ \A t \in Slots : slots'[t].fd = slots[t].fd /\ slots'[t].used = slots[t].used
  <2>1. slots \in [Slots -> SlotRecord] /\ new.used = TRUE /\ slots[s].used = TRUE
    BY ZenonT(60) DEF IInv, TypeOK, SlotRecord
  <2>2. QED
    BY ZenonT(60), <2>1
<1>2. TypeOK'
  <2>1. \A t \in Slots : Len(slots'[t].hsbuf) <= HsCap
    BY SMTT(30), <1>1 DEF IInv, TypeOK
  <2>2. cur' \in Slots \union {NULL}
    BY ZenonT(60)
  <2>3. \A e \in batch' : e.fd \in Fds \union {LISTEN} /\ e.of \in Clients \union {NoClient}
    BY ZenonT(60) DEF IInv, TypeOK
  <2>4. QED
    BY ZenonT(60), <1>1, <2>1, <2>2, <2>3 DEF IInv, TypeOK
<1>3. PoolMatchesKernel'
  <2>1. \A t \in Slots, c \in Clients : Holds(t, c)' <=> Holds(t, c)
    BY <1>1 DEF Holds
  <2>2. PoolMatchesKernel /\ peer' = peer /\ link' = link /\ interest' = interest
    BY Zenon DEF IInv
  <2>3. /\ \A t, u \in Slots :
               slots'[t].used /\ slots'[u].used /\ slots'[t].fd = slots'[u].fd => t = u
        /\ \A fd \in Fds : peer'[fd] # NoClient <=> \E t \in Slots : slots'[t].used /\ slots'[t].fd = fd
    <3>1. \A t \in Slots : slots'[t].used <=> slots[t].used
      BY Zenon, <1>1
    <3>2. \A t \in Slots : slots'[t].fd = slots[t].fd
      BY Zenon, <1>1
    <3>3. /\ \A t, u \in Slots :
                 slots[t].used /\ slots[u].used /\ slots[t].fd = slots[u].fd => t = u
          /\ \A fd \in Fds : peer'[fd] # NoClient <=> \E t \in Slots : slots[t].used /\ slots[t].fd = fd
      BY Zenon, <2>2 DEF PoolMatchesKernel
    <3>4. \A t, u \in Slots :
              slots'[t].used /\ slots'[u].used /\ slots'[t].fd = slots'[u].fd => t = u
      BY Zenon, <3>1, <3>2, <3>3
    <3>5. ASSUME NEW fd \in Fds
          PROVE  peer'[fd] # NoClient <=> \E t \in Slots : slots'[t].used /\ slots'[t].fd = fd
      <4>1. ASSUME peer'[fd] # NoClient PROVE \E t \in Slots : slots'[t].used /\ slots'[t].fd = fd
        <5>1. PICK t \in Slots : slots[t].used /\ slots[t].fd = fd
          BY Zenon, <3>3, <4>1
        <5>2. slots'[t].used /\ slots'[t].fd = fd
          BY Zenon, <3>1, <3>2, <5>1
        <5>3. QED
          BY Zenon, <5>2
      <4>2. ASSUME NEW t \in Slots, slots'[t].used, slots'[t].fd = fd PROVE peer'[fd] # NoClient
        <5>1. slots[t].used /\ slots[t].fd = fd
          BY Zenon, <3>1, <3>2, <4>2
        <5>2. QED
          BY Zenon, <3>3, <5>1
      <4>3. QED
        BY Zenon, <4>1, <4>2
    <3>6. QED
      BY Zenon, <3>4, <3>5
  <2>4. \A c \in Clients : link'[c] = "accepted" <=> \E t \in Slots : Holds(t, c)'
    BY ZenonT(60), <2>1, <2>2 DEF PoolMatchesKernel
  <2>5. /\ \A f, g \in Fds : peer'[f] # NoClient /\ peer'[f] = peer'[g] => f = g
        /\ \A fd \in interest' : peer'[fd] # NoClient
    BY SMT, <2>2 DEF PoolMatchesKernel
  <2>6. slots'[cur'].used
    BY ZenonT(60), <1>1
  <2>7. QED
    BY Zenon, <2>3, <2>4, <2>5, <2>6 DEF PoolMatchesKernel
<1>4. EventsAreFresh'
  BY SMTT(30) DEF IInv, EventsAreFresh
<1>5. QueueInv'
  BY DEF IInv, QueueInv
<1>6. ConnsInv'
  <2> SUFFICES ASSUME NEW t \in Slots
               PROVE  /\ ConnInv(slots'[t].conn)
                      /\ slots'[t].used => slots'[t].fd \in Fds
                      /\ slots'[t].used /\ slots'[t].open =>
                             \/ Alive(slots'[t])
                             \/ t = cur' /\ Stage' \in {"close", "killed"}
    BY DEF ConnsInv, Alive
  <2>1. CASE t = s
    BY Zenon, <1>1, <2>1 DEF IInv, ConnsInv
  <2>2. CASE t # s
    <3>1. slots[t].used /\ slots[t].open => Alive(slots[t])
      BY SMTT(30), <2>2 DEF IInv, ConnsInv, Stage
    <3>2. QED
      BY ZenonT(60), <1>1, <2>2, <3>1 DEF IInv, ConnsInv
  <2>3. QED
    BY ZenonT(60), <2>1, <2>2
<1>7. ServiceInv'
  BY SMTT(30), <1>1 DEF ServiceInv, Busy
<1>8. script' \in Scripts
  BY DEF IInv
<1>9. QED
  BY <1>2, <1>3, <1>4, <1>5, <1>6, <1>7, <1>8 DEF IInv

\* Goto and WriteThen in terms of the stage.
LEMMA GotoStage ==
    ASSUME IInv, NEW label \in Label \ {"write"}, Goto(label)
    PROVE  pc' = label /\ Stage' = label /\ after' \in Label
BY DEF IInv, TypeOK, Goto, Stage

\* After WriteThen the stage is the one given, written or not.
LEMMA WriteStage ==
    ASSUME IInv, NEW next \in {"upgrade", "drain", "close"}, NEW bytes, WriteThen(bytes, next)
    PROVE  /\ pc' \in {"write", next} /\ Stage' = next /\ after' \in Label
           /\ pc' = "write" => after' = next
<1>1. next \in Label
  BY DEF Label
<1>2. CASE bytes = << >>
  BY <1>1, <1>2 DEF IInv, TypeOK, WriteThen, Goto, Stage
<1>3. CASE bytes # << >>
  BY <1>1, <1>3 DEF WriteThen, Stage
<1>4. QED
  BY <1>2, <1>3

\* The driver of a slot after feed: sound, and no less alive than before.
LEMMA FeedOK ==
    ASSUME NEW c, ConnInv(c), NEW bytes \in Seq(Byte), NEW d, d = ws_conn_recv(c, bytes)
    PROVE  ConnInv(d) /\ d.state = c.state /\ d.failed = c.failed
<1>1. CASE recv_fits(c, bytes)
  <2>1. PICK at : at = c.msg_len + c.rx_len
    OBVIOUS
  <2>2. QED
    BY <1>1, <2>1, RecvOK
<1>2. CASE ~recv_fits(c, bytes)
  BY <1>2 DEF ws_conn_recv
<1>3. QED
  BY SMTT(30), <1>1, <1>2

\* How much a read takes: no more than there is, nor than there is room for.
LEMMA ReadSize ==
    ASSUME NEW have \in Nat, NEW used \in Nat, used <= HsCap, NEW open \in BOOLEAN,
           NEW room, room = IF open THEN ChunkCap ELSE HsCap - used,
           NEW n, n = IF room < have THEN room ELSE have
    PROVE  n \in Nat /\ n <= have /\ (~open => used + n <= HsCap)
<1>1. HsCap \in Nat /\ ChunkCap \in Nat
  BY IoAssumption
<1>2. CASE open
  BY <1>1, <1>2
<1>3. CASE ~open
  BY <1>1, <1>3
<1>4. QED
  BY <1>2, <1>3

\* One readable client: its bytes go to the request or to the driver.
LEMMA ReadInv == \A e \in batch : IInv /\ on_readable(e) => IInv'
<1> SUFFICES ASSUME NEW e \in batch, IInv, on_readable(e) PROVE IInv'
  OBVIOUS
<1>a. PICK s, c : s = slot_by_fd(e.fd) /\ c = peer[e.fd]
  OBVIOUS
<1>1. /\ pc = "loop" /\ e.fd # LISTEN /\ batch' = batch \ {e}
      /\ IF s = NULL THEN UNCHANGED << slots, pc, cur, todo, after, rx >> ELSE service_client(s, c)
      /\ UNCHANGED << rc, peer, interest, backlog, link, tx, sent, got, gone, script, faults >>
  BY ZenonT(60), <1>a DEF on_readable, kernel
<1>2. /\ e.fd \in Fds /\ c = e.of /\ c \in Clients /\ Readable(c)
      /\ \A f \in batch' : f \in batch /\ f.fd # e.fd
      /\ \A f \in batch' : f.fd # LISTEN =>
             f.fd \in Fds /\ peer[f.fd] = f.of /\ f.of \in Clients /\ Readable(f.of)
  BY ZenonT(60), <1>1, <1>a DEF IInv, EventsAreFresh, TypeOK
<1>3. CASE s = NULL
  <2>1. UNCHANGED << slots, pc, cur, todo, after, rx >>
    BY <1>1, <1>3
  <2>2. TypeOK'
    BY Zenon, <1>1, <2>1 DEF IInv, TypeOK
  <2>3. PoolMatchesKernel' /\ QueueInv'
    <3>1. PoolMatchesKernel'
      BY Zenon, <1>1, <2>1 DEF IInv, PoolMatchesKernel, Holds
    <3>2. QueueInv'
      BY Zenon, <1>1, <2>1 DEF IInv, QueueInv
    <3>3. QED
      BY Zenon, <3>1, <3>2
  <2>4. EventsAreFresh'
    BY ZenonT(60), <1>1, <2>1 DEF IInv, EventsAreFresh, Readable
  <2>5. ConnsInv' /\ ServiceInv'
    BY <1>1, <2>1 DEF IInv, ConnsInv, ServiceInv, Busy, Stage
  <2>6. QED
    BY SMTT(30), <1>1, <2>2, <2>3, <2>4, <2>5 DEF IInv
<1>4. CASE s # NULL
  <2>1. s \in Slots /\ slots[s].used /\ slots[s].fd = e.fd
    BY <1>4, <1>a, SlotByFdOK
  <2>a. PICK slot, room : /\ slot = slots[s]
                          /\ room = IF slot.open THEN ChunkCap ELSE HsCap - Len(slot.hsbuf)
    OBVIOUS
  <2>b. PICK n : n = IF room < Len(rx[c]) THEN room ELSE Len(rx[c])
    BY Zenon
  <2>c. PICK bytes : bytes = SubSeq(rx[c], 1, n)
    BY Zenon
  <2>2. /\ cur' = s
        /\ rx' = [rx EXCEPT ![c] = SubSeq(@, n + 1, Len(@))]
        /\ IF n = 0 THEN Goto("close") /\ slots' = slots
           ELSE IF slot.open THEN feed(s, slot, bytes)
           ELSE handshake_step(s, slot.hsbuf \o bytes)
    BY Zenon, <1>1, <1>4, <2>a, <2>b, <2>c DEF service_client
  <2>3. /\ slots \in [Slots -> SlotRecord] /\ slot \in SlotRecord /\ Len(slot.hsbuf) \in Nat
        /\ Len(slot.hsbuf) <= HsCap /\ ConnInv(slot.conn) /\ slot.hsbuf \in Seq(Byte)
        /\ rx \in [Clients -> Seq(Byte)] /\ rx[c] \in Seq(Byte) /\ Len(rx[c]) \in Nat
    <3>1. /\ slots \in [Slots -> SlotRecord] /\ slot \in SlotRecord /\ Len(slot.hsbuf) <= HsCap
          /\ ConnInv(slot.conn) /\ rx \in [Clients -> Seq(Byte)] /\ rx[c] \in Seq(Byte)
      BY Zenon, <1>2, <2>1, <2>a DEF IInv, TypeOK, ConnsInv
    <3>2. slot.hsbuf \in Seq(Byte)
      BY SMT, <3>1 DEF SlotRecord
    <3>3. Len(slot.hsbuf) \in Nat /\ Len(rx[c]) \in Nat
      BY SMT, <3>1, <3>2
    <3>4. QED
      BY Zenon, <3>1, <3>2, <3>3
  <2>4. /\ n \in Nat /\ n <= Len(rx[c]) /\ (~slot.open => Len(slot.hsbuf) + n <= HsCap)
    <3>1. slot.open \in BOOLEAN
      BY <2>3 DEF SlotRecord
    <3>2. QED
      BY Zenon, <2>3, <2>a, <2>b, <3>1, ReadSize
  <2>5. /\ bytes \in Seq(Byte) /\ Len(bytes) = n
        /\ SubSeq(rx[c], n + 1, Len(rx[c])) \in Seq(Byte)
    BY SMTT(30), <2>3, <2>4, <2>c, CutType
  <2>6. /\ rx' \in [Clients -> Seq(Byte)]
        /\ \A d \in Clients : d # c => rx'[d] = rx[d]
    BY Zenon, <2>2, <2>3, <2>5
  <2>7. \A f \in batch' : f.fd # LISTEN => Readable(f.of)'
    <3> SUFFICES ASSUME NEW f \in batch', f.fd # LISTEN PROVE Readable(f.of)'
      BY Zenon
    <3>1. f.of # c
      <4>1. peer[f.fd] = f.of /\ peer[e.fd] = c /\ f.fd # e.fd /\ c # NoClient
        BY Zenon, <1>2, <1>a, IoAssumption
      <4>2. \A g, k \in Fds : peer[g] # NoClient /\ peer[g] = peer[k] => g = k
        BY ZenonT(60) DEF IInv, PoolMatchesKernel
      <4>3. QED
        BY Zenon, <1>2, <4>1, <4>2
    <3>2. QED
      BY Zenon, <1>1, <1>2, <2>6, <3>1 DEF Readable
  <2>8. slot.used /\ (slot.open => Alive(slot)) /\ slot.fd = slots[s].fd
    BY ZenonT(60), <1>1, <2>1, <2>a DEF IInv, ConnsInv, Stage
  <2>9. ASSUME NEW new \in SlotRecord, slots' = [slots EXCEPT ![s] = new],
               new.fd = slot.fd, new.used, ConnInv(new.conn), Len(new.hsbuf) <= HsCap,
               pc' \in {"loop", "upgrade", "drain", "write", "close"}, after' \in Label,
               pc' = "write" => after' \in {"upgrade", "drain", "close"},
               Stage' = "upgrade" => ~new.open, Stage' = "drain" => new.open,
               new.open => Alive(new) \/ Stage' \in {"close", "killed"}
        PROVE  IInv'
    <3>1. /\ pc' \in Label /\ batch' \subseteq batch
          /\ \A f \in batch' : f.fd # slots[s].fd
      BY ZenonT(60), <1>1, <1>2, <2>1, <2>9 DEF Label
    <3>2. QED
      BY ZenonT(60), <1>1, <2>1, <2>2, <2>6, <2>7, <2>8, <2>9, <3>1, ServeStep
  <2>10. CASE n = 0
    <3>1. Goto("close") /\ slots' = slots /\ "close" \in Label \ {"write"}
      BY <2>2, <2>10 DEF Label
    <3>2. pc' = "close" /\ Stage' = "close" /\ after' \in Label
      BY ZenonT(60), <3>1, GotoStage
    <3>3. slots' = [slots EXCEPT ![s] = slot]
      BY SMTT(30), <2>1, <2>3, <2>a, <3>1
    <3>4. QED
      BY Zenon, <2>3, <2>8, <2>9, <3>2, <3>3
  <2>11. CASE n # 0 /\ slot.open
    <3>a. PICK conn, next : /\ conn = ws_conn_recv(slot.conn, bytes)
                            /\ next = IF recv_fits(slot.conn, bytes) THEN "drain" ELSE "close"
      OBVIOUS
    <3>b. PICK new : new = [slot EXCEPT !.conn = conn]
      BY Zenon
    <3>1. Goto(next) /\ slots' = [slots EXCEPT ![s] = new] /\ next \in {"drain", "close"}
          /\ next \in Label \ {"write"}
      BY Zenon, <2>2, <2>11, <3>a, <3>b DEF feed, Label
    <3>2. pc' = next /\ Stage' = next /\ after' \in Label
      BY <3>1, GotoStage
    <3>3. /\ ConnInv(conn) /\ conn \in Conn
          /\ conn.state = slot.conn.state /\ conn.failed = slot.conn.failed
      <4>1. ConnInv(conn) /\ conn.state = slot.conn.state /\ conn.failed = slot.conn.failed
        BY ZenonT(60), <2>3, <2>5, <3>a, FeedOK
      <4>2. QED
        BY Zenon, <4>1 DEF ConnInv
    <3>4. /\ new \in SlotRecord /\ new.conn = conn /\ new.fd = slot.fd /\ new.used = slot.used
          /\ new.open = slot.open /\ new.hsbuf = slot.hsbuf
      BY ZenonT(60), <2>3, <3>3, <3>b DEF SlotRecord
    <3>5. Alive(new)
      BY SMTT(30), <2>8, <2>11, <3>3, <3>4 DEF Alive, ws_lc_active
    <3>6. QED
      BY ZenonT(60), <2>3, <2>8, <2>9, <2>11, <3>1, <3>2, <3>3, <3>4, <3>5
  <2>12. CASE n # 0 /\ ~slot.open
    <3>a. PICK hsbuf : hsbuf = slot.hsbuf \o bytes
      BY Zenon
    <3>b. PICK new : new = [slot EXCEPT !.hsbuf = hsbuf]
      BY Zenon
    <3>1. hsbuf \in Seq(Byte) /\ Len(hsbuf) <= HsCap
      <4>1. hsbuf \in Seq(Byte) /\ Len(hsbuf) = Len(slot.hsbuf) + Len(bytes)
        <5>1. slot.hsbuf \in Seq(Byte) /\ bytes \in Seq(Byte)
          BY Zenon, <2>3, <2>5
        <5>2. QED
          BY <3>a, <5>1
      <4>2. QED
        BY Zenon, <2>4, <2>5, <2>12, <4>1
    <3>2. /\ new \in SlotRecord /\ new.hsbuf = hsbuf /\ new.fd = slot.fd /\ new.used = slot.used
          /\ new.open = slot.open /\ new.conn = slot.conn
      BY Zenon, <2>3, <3>1, <3>b DEF SlotRecord
    <3>3. slots' = [slots EXCEPT ![s] = new]
      BY Zenon, <2>1, <2>2, <2>3, <2>12, <2>a, <3>a, <3>b DEF handshake_step
    <3>4. \/ Goto("close")
          \/ Goto("loop")
          \/ \E reply : WriteThen(reply, "upgrade")
      BY Zenon, <2>2, <2>12, <3>a DEF handshake_step
    <3>5. /\ pc' \in {"loop", "upgrade", "write", "close"} /\ after' \in Label
          /\ pc' = "write" => after' = "upgrade"
          /\ Stage' \in {"loop", "upgrade", "close"}
      <4>1. "close" \in Label \ {"write"} /\ "loop" \in Label \ {"write"}
        BY DEF Label
      <4>2. CASE Goto("close")
        BY Zenon, <4>1, <4>2, GotoStage
      <4>3. CASE Goto("loop")
        BY Zenon, <4>1, <4>3, GotoStage
      <4>4. ASSUME NEW reply, WriteThen(reply, "upgrade")
            PROVE  /\ pc' \in {"upgrade", "write"} /\ after' \in Label
                   /\ pc' = "write" => after' = "upgrade"
                   /\ Stage' = "upgrade"
        BY <4>4, WriteStage
      <4>5. QED
        BY Zenon, <3>4, <4>2, <4>3, <4>4
    <3>6. QED
      BY Zenon, <2>3, <2>8, <2>9, <2>12, <3>1, <3>2, <3>3, <3>5
  <2>13. QED
    BY ZenonT(60), <2>10, <2>11, <2>12
<1>5. QED
  BY <1>3, <1>4

\* A service step that reads nothing: ServeStep with the network unchanged.
LEMMA InnerStep ==
    ASSUME IInv, Busy, cur' = cur, UNCHANGED << batch, rc, peer, interest, backlog, link, rx, sent,
                                                gone, script, faults >>,
           NEW new \in SlotRecord, slots' = [slots EXCEPT ![cur] = new],
           new.fd = slots[cur].fd, new.used, ConnInv(new.conn), Len(new.hsbuf) <= HsCap,
           pc' \in Label, after' \in Label,
           pc' = "write" => after' \in {"upgrade", "drain", "close"},
           Stage' = "upgrade" => ~new.open, Stage' = "drain" => new.open,
           new.open => Alive(new) \/ Stage' \in {"close", "killed"}
    PROVE  IInv'
<1>1. /\ cur \in Slots /\ slots[cur].used
      /\ \A e \in batch : /\ e.fd # slots[cur].fd
                          /\ e.fd # LISTEN => Readable(e.of)
  BY Zenon, ServiceFacts
<1>2. \A e \in batch' : e.fd # LISTEN => Readable(e.of)'
  BY Zenon, <1>1 DEF Readable
<1>3. rx' \in [Clients -> Seq(Byte)]
  BY DEF IInv, TypeOK
<1>4. PICK s : s = cur
  BY Zenon
<1>5. /\ s \in Slots /\ slots[s].used /\ cur' = s /\ slots' = [slots EXCEPT ![s] = new]
      /\ new.fd = slots[s].fd /\ batch' \subseteq batch /\ \A e \in batch' : e.fd # slots[s].fd
  BY <1>1, <1>4
<1>6. QED
  BY ZenonT(60), <1>2, <1>3, <1>4, <1>5, ServeStep

\* The upgrade: a fresh driver, open, with the bytes behind the blank line.
LEMMA FinishInv == IInv /\ finish_handshake => IInv'
<1> SUFFICES ASSUME IInv, finish_handshake PROVE IInv'
  OBVIOUS
<1>1. PICK slot, off, fresh :
          /\ slot = slots[cur] /\ off = find_sub(slot.hsbuf, BlankLine) + 4
          /\ fresh = ws_conn_open(ws_conn_init("SERVER"))
  OBVIOUS
<1>2. PICK bytes, base : /\ bytes = SubSeq(slot.hsbuf, off + 1, Len(slot.hsbuf))
                         /\ base = [slot EXCEPT !.conn = fresh, !.open = TRUE]
  BY Zenon
<1>3. /\ pc = "upgrade" /\ feed(cur, base, bytes)
      /\ UNCHANGED << batch, cur, rc, peer, interest, backlog, link, rx, sent, gone, script,
                      faults >>
  BY <1>1, <1>2 DEF finish_handshake, kernel, net
<1>4. Busy
  BY ZenonT(60), <1>3 DEF Busy
<1>5. /\ cur \in Slots /\ slots \in [Slots -> SlotRecord] /\ slot \in SlotRecord /\ slot.used
      /\ slot.hsbuf \in Seq(Byte) /\ Len(slot.hsbuf) <= HsCap
  BY <1>1, <1>4, ServiceFacts DEF SlotRecord
<1>6. bytes \in Seq(Byte)
  <2>1. BlankLine \in Seq(Byte)
    BY DEF BlankLine, CR, LF, Byte
  <2>2. off \in Nat
    BY SMTT(30), <1>1, <1>5, <2>1, FindSubType
  <2>3. QED
    BY Zenon, <1>2, <1>5, <2>2, CutType
<1>7. ConnInv(fresh) /\ fresh \in Conn /\ fresh.state = "OPEN" /\ ~fresh.failed
  <2>1. PICK start : start = ws_conn_init("SERVER")
    BY Zenon
  <2>2. ConnInv(start) /\ start.state = "CONNECTING" /\ ~start.failed
    BY <2>1, InitOK DEF Role, ws_conn_init
  <2>3. fresh = ws_conn_open(start) /\ fresh = [start EXCEPT !.state = "OPEN"] /\ start \in Conn
    BY <1>1, <2>1, <2>2 DEF ws_conn_open, ws_lc_handshake, ConnInv
  <2>4. ConnInv(fresh) /\ SameBuffers(start, fresh)
    BY Zenon, <2>2, <2>3, OpenOK
  <2>5. fresh.state = "OPEN" /\ fresh \in Conn /\ ~fresh.failed
    BY SMTT(30), <2>2, <2>3, <2>4 DEF Conn, ConnInv, SameBuffers
  <2>6. QED
    BY <2>4, <2>5
<1>8. PICK conn, next : /\ conn = ws_conn_recv(fresh, bytes)
                        /\ next = IF recv_fits(fresh, bytes) THEN "drain" ELSE "close"
  OBVIOUS
<1>9. ConnInv(conn) /\ conn \in Conn /\ conn.state = "OPEN" /\ ~conn.failed
  <2>1. ConnInv(conn) /\ conn.state = fresh.state /\ conn.failed = fresh.failed
    BY <1>6, <1>7, <1>8, FeedOK
  <2>2. QED
    BY Zenon, <1>7, <2>1 DEF ConnInv
<1>10. PICK new : new = [base EXCEPT !.conn = conn]
  BY Zenon
<1>11. /\ base.conn = fresh
       /\ new \in SlotRecord /\ new.conn = conn /\ new.open /\ new.used /\ new.fd = slot.fd
       /\ new.hsbuf = slot.hsbuf
  BY Zenon, <1>2, <1>5, <1>7, <1>9, <1>10 DEF SlotRecord
<1>12. /\ slots' = [slots EXCEPT ![cur] = new] /\ Goto(next) /\ next \in {"drain", "close"}
       /\ next \in Label \ {"write"}
  BY Zenon, <1>3, <1>8, <1>10, <1>11 DEF feed, Label
<1>13. pc' = next /\ Stage' = next /\ after' \in Label
  BY Zenon, <1>12, GotoStage
<1>14. Alive(new)
  BY Zenon, <1>9, <1>11 DEF Alive, ws_lc_active
<1>15. QED
  BY Zenon, <1>1, <1>3, <1>4, <1>5, <1>9, <1>11, <1>12, <1>13, <1>14, InnerStep

\* The echo handler changes the driver only to answer a Close.
LEMMA HandlerOK ==
    ASSUME NEW r, ConnInv(r.conn), NEW d, d = on_event(r).conn
    PROVE  ConnInv(d) /\ (r.ev.type # "CLOSE" => d = r.conn)
<1>1. CASE r.ev.type # "CLOSE"
  BY ZenonT(60), <1>1 DEF on_event, ws_io_send_message, ws_io_send_pong
<1>2. CASE r.ev.type = "CLOSE"
  <2>1. d = ws_send_close(r.conn, r.ev.close_code, NoKey, 32).conn
    BY <1>2 DEF on_event, ws_io_send_close
  <2>2. QED
    BY <1>2, <2>1, SendCloseOK
<1>3. QED
  BY <1>1, <1>2

\* One event: the driver stays alive unless the event ends the connection.
LEMMA DrainInv == IInv /\ drain_events => IInv'
<1> SUFFICES ASSUME IInv, drain_events PROVE IInv'
  OBVIOUS
<1>1. PICK c, r, d, out : /\ c = slots[cur].conn /\ r = ws_conn_poll(c)
                          /\ d = on_event(r).conn /\ out = on_event(r).out
  OBVIOUS
<1>2. PICK new, next : /\ new = [slots[cur] EXCEPT !.conn = d]
                       /\ next = IF is_terminal(r.ev.type) THEN "close" ELSE "drain"
  BY Zenon
<1>3. /\ pc = "drain"
      /\ slots' = [slots EXCEPT ![cur].conn = d]
      /\ IF r.ev.type = "NONE" THEN Goto("loop") ELSE WriteThen(out, next)
      /\ UNCHANGED << batch, cur, rc, peer, interest, backlog, link, rx, sent, gone, script,
                      faults >>
  BY <1>1, <1>2 DEF drain_events, kernel, net
<1>4. Busy
  BY Zenon, <1>3 DEF Busy
<1>5. /\ cur \in Slots /\ slots \in [Slots -> SlotRecord] /\ slots[cur] \in SlotRecord
      /\ slots[cur].used /\ ConnInv(c) /\ Len(slots[cur].hsbuf) <= HsCap
  BY Zenon, <1>1, <1>4, ServiceFacts
<1>6. slots[cur].open /\ ws_lc_active(c) /\ ~c.failed
  BY ZenonT(60), <1>1, <1>3, <1>5 DEF IInv, ServiceInv, ConnsInv, Alive, Stage
<1>7. PICK k : PollOK(c, r, k)
  BY <1>1, <1>5, PollResult
<1>8. ConnInv(d) /\ d \in Conn /\ (r.ev.type # "CLOSE" => d = r.conn)
  <2>1. ConnInv(d) /\ (r.ev.type # "CLOSE" => d = r.conn)
    BY ZenonT(60), <1>1, <1>7, HandlerOK DEF PollOK
  <2>2. QED
    BY Zenon, <2>1 DEF ConnInv
<1>9. ~is_terminal(r.ev.type) => ws_lc_active(d) /\ ~d.failed
  BY ZenonT(60), <1>6, <1>7, <1>8 DEF PollOK, is_terminal, ws_lc_active
<1>10. /\ new \in SlotRecord /\ new.conn = d /\ new.used /\ new.open /\ new.fd = slots[cur].fd
       /\ new.hsbuf = slots[cur].hsbuf /\ slots' = [slots EXCEPT ![cur] = new]
  <2>1. PICK old : old = slots[cur]
    BY Zenon
  <2>2. /\ old \in SlotRecord /\ old.used = TRUE /\ old.open = TRUE /\ d \in Conn
        /\ new = [old EXCEPT !.conn = d]
    BY Zenon, <1>2, <1>5, <1>6, <1>8, <2>1
  <2>3. /\ new \in SlotRecord /\ new.conn = d /\ new.used /\ new.open /\ new.fd = old.fd
        /\ new.hsbuf = old.hsbuf
    BY <2>2 DEF SlotRecord
  <2>4. slots' = [slots EXCEPT ![cur] = new]
    BY Zenon, <1>2, <1>3
  <2>5. QED
    BY Zenon, <2>1, <2>3, <2>4
<1>11. CASE r.ev.type = "NONE"
  <2>1. "loop" \in Label \ {"write"} /\ ~is_terminal(r.ev.type)
    BY <1>11 DEF Label, is_terminal
  <2>2. pc' = "loop" /\ Stage' = "loop" /\ after' \in Label
    BY Zenon, <1>3, <1>11, <2>1, GotoStage
  <2>3. Alive(new) /\ pc' \in Label
    BY SMTT(30), <1>9, <1>10, <2>1, <2>2 DEF Alive
  <2>4. QED
    BY Zenon, <1>3, <1>4, <1>5, <1>8, <1>10, <2>2, <2>3, InnerStep
<1>12. CASE r.ev.type # "NONE"
  <2>1. /\ next \in {"close", "drain"} /\ next \in {"upgrade", "drain", "close"}
        /\ next = "drain" => Alive(new)
    BY <1>2, <1>9, <1>10 DEF Alive
  <2>2. /\ pc' \in {"write", next} /\ Stage' = next /\ after' \in Label
        /\ pc' = "write" => after' = next
    BY SMTT(30), <1>3, <1>12, <2>1, WriteStage
  <2>3. pc' \in Label
    BY <2>1, <2>2 DEF Label
  <2>4. QED
    BY Zenon, <1>3, <1>4, <1>5, <1>8, <1>10, <2>1, <2>2, <2>3, InnerStep
<1>13. QED
  BY <1>11, <1>12

\* Writing, to a client that reads or to one that has left.
LEMMA WriteInv == IInv /\ (write_all \/ write_to_gone) => IInv'
<1> SUFFICES ASSUME IInv, write_all \/ write_to_gone PROVE IInv'
  BY Zenon
<1>1. /\ pc = "write" /\ pc' \in {pc, after, "close", "killed"}
      /\ UNCHANGED << slots, batch, cur, after, rc, peer, interest, backlog, link, rx, sent, gone,
                      script, faults >>
  BY DEF write_all, write_to_gone, kernel, net
<1>2. Busy
  BY <1>1 DEF Busy
<1>3. PICK new : new = slots[cur]
  OBVIOUS
<1>4. /\ cur \in Slots /\ new \in SlotRecord /\ new.used /\ ConnInv(new.conn)
      /\ Len(new.hsbuf) <= HsCap /\ slots' = [slots EXCEPT ![cur] = new]
  BY ZenonT(60), <1>1, <1>2, <1>3, ServiceFacts
<1>5. after \in {"upgrade", "drain", "close"} /\ pc' \in Label /\ after' \in Label
  BY <1>1 DEF IInv, TypeOK, ServiceInv, Label
<1>6. Stage' \in {after, "close", "killed"}
  BY Zenon, <1>1, <1>5 DEF Stage
<1>7. /\ after = "upgrade" => ~new.open
      /\ after = "drain" => new.open
      /\ new.open => Alive(new) \/ after = "close"
  BY Zenon, <1>1, <1>3, <1>4, <1>5 DEF IInv, ServiceInv, ConnsInv, Stage
<1>8. /\ Stage' = "upgrade" => ~new.open
      /\ Stage' = "drain" => new.open
      /\ new.open => Alive(new) \/ Stage' \in {"close", "killed"}
  BY <1>5, <1>6, <1>7
<1>9. QED
  BY Zenon, <1>1, <1>2, <1>3, <1>4, <1>5, <1>8, InnerStep

-----------------------------------------------------------------------------
(* The invariant.                                                           *)

\* Every step keeps the invariant.
LEMMA NextInv == IInv /\ [Next]_vars => IInv'
<1> SUFFICES ASSUME IInv, [Next]_vars PROVE IInv'
  OBVIOUS
<1>1. CASE Next
  BY SMTT(30), <1>1, ConnectInv, TrafficInv, SetupInv, WaitInv, AcceptInv, ReadInv,
     FinishInv, DrainInv, WriteInv, CloseInv DEF Next, run_loop, Environment
<1>2. CASE UNCHANGED vars
  <2>1. UNCHANGED << slots, pc, batch, cur, after, rc, peer, interest, backlog, link, rx, sent,
                     gone, script, faults >>
    BY SMTT(30), <1>2 DEF vars, loop, kernel, net
  <2>2. TypeOK' /\ script' \in Scripts
    BY <2>1 DEF IInv, TypeOK
  <2>3. PoolMatchesKernel' /\ QueueInv'
    <3>1. PoolMatchesKernel'
      BY Zenon, <2>1 DEF IInv, PoolMatchesKernel, Holds
    <3>2. QueueInv'
      BY ZenonT(60), <2>1 DEF IInv, QueueInv
    <3>3. QED
      BY Zenon, <3>1, <3>2
  <2>4. EventsAreFresh'
    BY ZenonT(60), <2>1 DEF IInv, EventsAreFresh, Readable
  <2>5. ConnsInv' /\ ServiceInv'
    BY <2>1 DEF IInv, ConnsInv, ServiceInv, Busy, Stage
  <2>6. QED
    BY SMTT(30), <2>2, <2>3, <2>4, <2>5 DEF IInv
<1>3. QED
  BY <1>1, <1>2

\* The inductive invariant of the server.
THEOREM IoInvariance == Spec => []IInv
<1>1. QED
  BY InitInv, NextInv, PTL DEF Spec

\* Types, and the bound on a request, for every size of the buffers.
THEOREM IoTypeCorrect == Spec => []TypeOK
<1>1. IInv => TypeOK
  BY DEF IInv
<1>2. QED
  BY <1>1, IoInvariance, PTL

\* The pool and the kernel agree: alloc_slot, on_accept and slot_close neither
\* leak nor share a descriptor, however connections end.
THEOREM PoolCorrect == Spec => []PoolMatchesKernel
<1>1. IInv => PoolMatchesKernel
  BY SMTT(30) DEF IInv
<1>2. QED
  BY <1>1, IoInvariance, PTL

\* A batch never goes stale, although run_loop closes and accepts while it
\* works through it.
THEOREM BatchFresh == Spec => []EventsAreFresh
<1>1. IInv => EventsAreFresh
  BY SMTT(30) DEF IInv
<1>2. QED
  BY <1>1, IoInvariance, PTL

\* drain_events polls only drivers that are open and have not ended.
THEOREM HandlerLive == Spec => []HandlerSeesLive
<1>1. IInv => HandlerSeesLive
  <2> SUFFICES ASSUME IInv, pc = "drain"
               PROVE  /\ slots[cur].used /\ slots[cur].open
                      /\ ws_lc_active(slots[cur].conn) /\ ~slots[cur].conn.failed
    BY SMTT(30) DEF HandlerSeesLive
  <2>1. cur \in Slots /\ slots[cur].used /\ slots[cur].open
    BY DEF IInv, PoolMatchesKernel, ServiceInv, Busy, Stage
  <2>2. QED
    BY <2>1 DEF IInv, ConnsInv, Alive, Stage
<1>2. QED
  BY <1>1, IoInvariance, PTL

-----------------------------------------------------------------------------
(* The server implements the abstract service.                               *)

\* The initial states correspond.
LEMMA InitMaps == Init => Svc!Init
<1> SUFFICES ASSUME Init PROVE Svc!Init
  OBVIOUS
<1>1. \A s \in Slots : slots[s] = NoSlot
  BY DEF Init
<1>2. Holder = [s \in Slots |-> NoClient] /\ Upgraded = {}
  BY SMTT(30), <1>1, FreshOK DEF Holder, Upgraded
<1>3. Past = {} /\ backlog = << >>
  BY DEF Init, Past
<1>4. QED
  BY SMTT(30), <1>2, <1>3 DEF Svc!Init

\* A step that keeps every seat, the queue and what became of the clients.
LEMMA Stutters ==
    ASSUME UNCHANGED << peer, backlog, link >>,
           \A s \in Slots : /\ slots'[s].used = slots[s].used /\ slots'[s].fd = slots[s].fd
                            /\ slots'[s].open = slots[s].open
    PROVE  UNCHANGED Svc!svars
<1>1. Holder' = Holder
  BY DEF Holder
<1>2. Upgraded' = Upgraded
  BY DEF Upgraded
<1>3. Past' = Past
  BY DEF Past
<1>4. QED
  BY SMTT(30), <1>1, <1>2, <1>3 DEF Svc!svars

\* What a client and its seat look like from the service.
LEMMA SeatFacts ==
    ASSUME IInv
    PROVE  /\ \A s \in Slots : /\ slots[s].used => Holder[s] \in Clients /\ Holder[s] # NoClient
                               /\ slots[s].used => Holder[s] = peer[slots[s].fd]
                               /\ ~slots[s].used => Holder[s] = NoClient
           /\ \A c \in Clients : Svc!Holding(c) <=> link[c] = "accepted"
           /\ \A c \in Clients : Svc!Waiting(c) <=> link[c] = "queued"
<1>1. ASSUME NEW s \in Slots
      PROVE  /\ slots[s].used => Holder[s] \in Clients /\ Holder[s] # NoClient
             /\ slots[s].used => Holder[s] = peer[slots[s].fd]
             /\ ~slots[s].used => Holder[s] = NoClient
  <2>1. /\ slots[s].used => Holder[s] = peer[slots[s].fd]
        /\ ~slots[s].used => Holder[s] = NoClient
    BY SMTT(30) DEF Holder
  <2>2. slots[s].used => slots[s].fd \in Fds /\ peer[slots[s].fd] # NoClient
    BY DEF IInv, PoolMatchesKernel, ConnsInv
  <2>3. peer \in [Fds -> Clients \union {NoClient}]
    BY SMTT(30) DEF IInv, TypeOK
  <2>4. QED
    BY Zenon, <2>1, <2>2, <2>3
<1>2. ASSUME NEW c \in Clients
      PROVE  Svc!Holding(c) <=> link[c] = "accepted"
  <2>1. \A s \in Slots : Holder[s] = c <=> Holds(s, c)
    BY SMTT(30), <1>1, IoAssumption DEF Holds
  <2>2. QED
    BY SMTT(30), <2>1 DEF IInv, PoolMatchesKernel, Svc!Holding
<1>3. \A c \in Clients : Svc!Waiting(c) <=> link[c] = "queued"
  BY ZenonT(60) DEF IInv, QueueInv, Svc!Waiting
<1>4. QED
  BY Zenon, <1>1, <1>2, <1>3

\* A client that connects joins the queue.
LEMMA ConnectMaps == \A c \in Clients : IInv /\ Connect(c) => Svc!Join(c)
<1> SUFFICES ASSUME NEW c \in Clients, IInv, Connect(c) PROVE Svc!Join(c)
  OBVIOUS
<1>1. /\ link[c] = "new" /\ backlog' = Append(backlog, c)
      /\ link' = [link EXCEPT ![c] = "queued"] /\ UNCHANGED << slots, peer >>
  BY DEF Connect
<1>2. ~Svc!Holding(c) /\ ~Svc!Waiting(c) /\ c \notin Past
  BY ZenonT(60), <1>1, SeatFacts DEF Past
<1>3. Holder' = Holder /\ Upgraded' = Upgraded
  BY SMTT(30), <1>1 DEF Holder, Upgraded
<1>4. Past' = Past
  <2>1. link \in [Clients -> {"new", "queued", "accepted", "refused", "closed"}]
    BY DEF IInv, TypeOK
  <2>2. \A d \in Clients : link'[d] \in {"refused", "closed"} <=> link[d] \in {"refused", "closed"}
    BY Zenon, <1>1, <2>1
  <2>3. QED
    BY <2>2 DEF Past
<1>5. QED
  BY Zenon, <1>1, <1>2, <1>3, <1>4 DEF Svc!Join

\* The head of the queue is seated in a free slot, or turned away from a full pool.
LEMMA AcceptMaps ==
    \A e \in batch : IInv /\ on_accept(e) =>
        \/ UNCHANGED Svc!svars
        \/ Svc!TurnAway
        \/ \E s \in Slots : Svc!Seat(s)
<1> SUFFICES ASSUME NEW e \in batch, IInv, on_accept(e)
             PROVE  UNCHANGED Svc!svars \/ Svc!TurnAway \/ \E s \in Slots : Svc!Seat(s)
  OBVIOUS
<1> DEFINE free == {f \in Fds : peer[f] = NoClient}
<1>1. PICK fd, c, s : fd = Lowest(free) /\ c = Head(backlog) /\ s = alloc_slot
  BY Zenon
<1>2. \/ UNCHANGED << slots, peer, interest, backlog, link >>
      \/ free # {} /\ backlog # << >> /\ Admit(fd)
  BY <1>1 DEF on_accept, kernel
<1>3. CASE UNCHANGED << slots, peer, interest, backlog, link >>
  BY <1>3, Stutters
<1>4. CASE free # {} /\ backlog # << >> /\ Admit(fd)
  <2>1. fd \in Fds /\ peer[fd] = NoClient
    BY Zenon, <1>1, <1>4, LowestOK
  <2> HIDE DEF free
  <2>2. /\ s = NULL => \A t \in Slots : slots[t].used
        /\ s # NULL => s \in Slots /\ ~slots[s].used
    BY Zenon, <1>1, AllocOK
  <2>3. /\ backlog' = Tail(backlog)
        /\ \/ /\ s = NULL /\ link' = [link EXCEPT ![c] = "refused"]
              /\ UNCHANGED << slots, peer >>
           \/ /\ s # NULL
              /\ slots' = [slots EXCEPT ![s] = NewSlot(fd)]
              /\ peer' = [peer EXCEPT ![fd] = c]
              /\ link' = [link EXCEPT ![c] = "accepted"]
    BY Zenon, <1>1, <1>4 DEF Admit
  <2>4. /\ c \in Clients /\ link[c] = "queued"
        /\ link \in [Clients -> {"new", "queued", "accepted", "refused", "closed"}]
        /\ slots \in [Slots -> SlotRecord] /\ peer \in [Fds -> Clients \union {NoClient}]
    BY Zenon, <1>1, <1>4, TailQueue DEF IInv, TypeOK
  <2>5. CASE s = NULL
    <3>1. \A t \in Slots : Holder[t] # NoClient
      BY Zenon, <2>2, <2>5, SeatFacts
    <3>2. Holder' = Holder /\ Upgraded' = Upgraded
      BY Zenon, <2>3, <2>5 DEF Holder, Upgraded
    <3>3. Past' = Past \union {c}
      <4>1. \A d \in Clients : link'[d] = IF d = c THEN "refused" ELSE link[d]
        BY Zenon, <2>3, <2>4, <2>5
      <4>2. QED
        BY Zenon, <2>4, <4>1 DEF Past
    <3>4. QED
      BY Zenon, <1>1, <1>4, <2>3, <3>1, <3>2, <3>3 DEF Svc!TurnAway
  <2>6. CASE s # NULL
    <3>1. /\ s \in Slots /\ ~slots[s].used /\ Holder[s] = NoClient
          /\ slots'[s].fd = fd /\ slots'[s].used /\ ~slots'[s].open
          /\ \A t \in Slots : t # s => slots'[t] = slots[t]
      <4>1. s \in Slots /\ ~slots[s].used /\ Holder[s] = NoClient
        BY Zenon, <2>2, <2>6, SeatFacts
      <4>2. slots'[s] = NewSlot(fd) /\ \A t \in Slots : t # s => slots'[t] = slots[t]
        BY Zenon, <2>3, <2>4, <2>6, <4>1
      <4>3. NewSlot(fd).fd = fd /\ NewSlot(fd).used /\ ~NewSlot(fd).open
        BY Zenon, <2>1, FreshOK
      <4>4. QED
        BY Zenon, <4>1, <4>2, <4>3
    <3>2. Holder' = [Holder EXCEPT ![s] = c]
      <4>1. peer'[fd] = c /\ \A f \in Fds : f # fd => peer'[f] = peer[f]
        BY SMTT(30), <2>1, <2>3, <2>4, <2>6
      <4>2. \A t \in Slots : slots[t].used => slots[t].fd \in Fds /\ slots[t].fd # fd
        BY ZenonT(60), <2>1 DEF IInv, ConnsInv, PoolMatchesKernel
      <4>3. \A t \in Slots : (IF slots'[t].used THEN peer'[slots'[t].fd] ELSE NoClient)
                                 = IF t = s THEN c ELSE Holder[t]
        <5>1. (IF slots'[s].used THEN peer'[slots'[s].fd] ELSE NoClient) = c
          BY Zenon, <3>1, <4>1
        <5>2. ASSUME NEW t \in Slots, t # s, slots[t].used
              PROVE  slots'[t].used /\ peer'[slots'[t].fd] = Holder[t]
          <6>1. slots'[t] = slots[t]
            BY Zenon, <3>1, <5>2
          <6>2. peer'[slots[t].fd] = peer[slots[t].fd]
            BY Zenon, <4>1, <4>2, <5>2
          <6>3. Holder[t] = peer[slots[t].fd]
            BY Zenon, <5>2, SeatFacts
          <6>4. QED
            BY Zenon, <5>2, <6>1, <6>2, <6>3
        <5>3. ASSUME NEW t \in Slots, t # s, ~slots[t].used
              PROVE  ~slots'[t].used /\ Holder[t] = NoClient
          BY ZenonT(60), <3>1, <5>3, SeatFacts
        <5>4. QED
          BY Zenon, <5>1, <5>2, <5>3
      <4>4. QED
        BY Zenon, <3>1, <4>3 DEF Holder
    <3>3. Upgraded' = Upgraded
      BY <3>1 DEF Upgraded
    <3>4. Past' = Past
      <4>1. \A d \in Clients : link'[d] = IF d = c THEN "accepted" ELSE link[d]
        BY Zenon, <2>3, <2>4, <2>6
      <4>2. QED
        BY Zenon, <2>4, <4>1 DEF Past
    <3>5. QED
      BY ZenonT(60), <1>1, <1>4, <2>3, <3>1, <3>2, <3>3, <3>4 DEF Svc!Seat
  <2>7. QED
    BY <2>5, <2>6
<1>5. QED
  BY Zenon, <1>2, <1>3, <1>4

\* Reading, polling and writing keep every seat.
LEMMA ServiceStutters ==
    IInv /\ ((\E e \in batch : on_readable(e)) \/ drain_events \/ write_all \/ write_to_gone)
        => UNCHANGED Svc!svars
<1> SUFFICES ASSUME IInv, (\E e \in batch : on_readable(e)) \/ drain_events \/ write_all
                              \/ write_to_gone
             PROVE  UNCHANGED Svc!svars
  BY SMTT(30)
<1>1. UNCHANGED << peer, backlog, link >> /\ slots \in [Slots -> SlotRecord]
  BY DEF on_readable, drain_events, write_all, write_to_gone, kernel, IInv, TypeOK
<1> DEFINE Kept == \A s \in Slots : /\ slots'[s].used = slots[s].used
                                    /\ slots'[s].fd = slots[s].fd
                                    /\ slots'[s].open = slots[s].open
<1>2. ASSUME NEW s, NEW conn, slots' = [slots EXCEPT ![s] = [slots[s] EXCEPT !.conn = conn]]
      PROVE  Kept
  BY Zenon, <1>1, <1>2 DEF SlotRecord
<1>3. ASSUME NEW s, NEW hsbuf, slots' = [slots EXCEPT ![s].hsbuf = hsbuf]
      PROVE  Kept
  BY Zenon, <1>1, <1>3 DEF SlotRecord
<1>4. ASSUME NEW s, NEW conn, slots' = [slots EXCEPT ![s].conn = conn]
      PROVE  Kept
  BY <1>1, <1>4 DEF SlotRecord
<1>5. slots' = slots => Kept
  OBVIOUS
<1> SUFFICES Kept
  BY Zenon, <1>1, Stutters
<1> HIDE DEF Kept
<1>6. CASE \E e \in batch : on_readable(e)
  <2>1. slots' = slots \/ \E s, c : service_client(s, c)
    BY Zenon, <1>6 DEF on_readable
  <2>2. ASSUME NEW s, NEW c, service_client(s, c)
        PROVE  \/ slots' = slots
               \/ \E bytes : feed(s, slots[s], bytes)
               \/ \E hsbuf : handshake_step(s, hsbuf)
    BY <2>2 DEF service_client
  <2>3. ASSUME NEW s, NEW bytes, feed(s, slots[s], bytes)
        PROVE  Kept
    <3>1. PICK conn : slots' = [slots EXCEPT ![s] = [slots[s] EXCEPT !.conn = conn]]
      <4>1. slots' = [slots EXCEPT ![s] =
                         [slots[s] EXCEPT !.conn = ws_conn_recv(slots[s].conn, bytes)]]
        BY <2>3 DEF feed
      <4>2. QED
        BY Zenon, <4>1
    <3>2. QED
      BY Zenon, <1>2, <3>1
  <2>4. ASSUME NEW s, NEW hsbuf, handshake_step(s, hsbuf)
        PROVE  Kept
    <3>1. slots' = [slots EXCEPT ![s].hsbuf = hsbuf]
      BY <2>4 DEF handshake_step
    <3>2. QED
      BY Zenon, <1>3, <3>1
  <2>5. QED
    BY Zenon, <1>5, <2>1, <2>2, <2>3, <2>4
<1>7. CASE drain_events
  <2>1. PICK s, conn : s = cur /\ conn = on_event(ws_conn_poll(slots[cur].conn)).conn
    OBVIOUS
  <2>2. slots' = [slots EXCEPT ![s].conn = conn]
    BY <1>7, <2>1 DEF drain_events
  <2>3. QED
    BY Zenon, <1>4, <2>2
<1>8. CASE write_all \/ write_to_gone
  BY Zenon, <1>5, <1>8 DEF write_all, write_to_gone
<1>9. QED
  BY Zenon, <1>6, <1>7, <1>8

\* The end of the handshake upgrades the seat being serviced.
LEMMA FinishMaps == IInv /\ finish_handshake => \E s \in Slots : Svc!Upgrade(s)
<1> SUFFICES ASSUME IInv, finish_handshake PROVE \E s \in Slots : Svc!Upgrade(s)
  BY Zenon
<1>1. PICK s, conn : /\ s = cur
                     /\ slots' = [slots EXCEPT ![s] =
                                     [[slots[s] EXCEPT !.conn = ws_conn_open(ws_conn_init("SERVER")),
                                                       !.open = TRUE] EXCEPT !.conn = conn]]
  <2>1. PICK base, bytes : /\ base = [slots[cur] EXCEPT !.conn = ws_conn_open(ws_conn_init("SERVER")),
                                                        !.open = TRUE]
                           /\ feed(cur, base, bytes)
    BY DEF finish_handshake
  <2>2. PICK s, conn : s = cur /\ conn = ws_conn_recv(base.conn, bytes)
    OBVIOUS
  <2>3. slots' = [slots EXCEPT ![s] = [base EXCEPT !.conn = conn]]
    BY <2>1, <2>2 DEF feed
  <2>4. QED
    BY Zenon, <2>1, <2>2, <2>3
<1>2. pc = "upgrade" /\ UNCHANGED << peer, backlog, link >>
  BY DEF finish_handshake, kernel
<1>3. /\ s \in Slots /\ slots[s].used /\ ~slots[s].open /\ slots \in [Slots -> SlotRecord]
  BY Zenon, <1>1, <1>2, ServiceFacts DEF IInv, ServiceInv, Busy, Stage
<1>4. /\ \A t \in Slots : slots'[t].used = slots[t].used /\ slots'[t].fd = slots[t].fd
      /\ \A t \in Slots : t # s => slots'[t].open = slots[t].open
      /\ slots'[s].open = TRUE
  BY Zenon, <1>1, <1>3 DEF SlotRecord
<1>5. Holder' = Holder
  BY Zenon, <1>2, <1>4 DEF Holder
<1>6. Past' = Past
  BY Zenon, <1>2 DEF Past
<1>7. Upgraded' = Upgraded \union {s} /\ s \notin Upgraded
  BY Zenon, <1>3, <1>4 DEF Upgraded
<1>8. Holder[s] # NoClient
  BY Zenon, <1>3, SeatFacts
<1>9. QED
  BY Zenon, <1>2, <1>3, <1>5, <1>6, <1>7, <1>8 DEF Svc!Upgrade

\* Closing gives the seat up.
LEMMA CloseMaps == IInv /\ slot_close => \E s \in Slots : Svc!Release(s)
<1> SUFFICES ASSUME IInv, slot_close PROVE \E s \in Slots : Svc!Release(s)
  OBVIOUS
<1>1. PICK s, fd, c : s = cur /\ fd = slots[cur].fd /\ c = peer[fd]
  OBVIOUS
<1>2. /\ pc = "close"
      /\ slots' = [slots EXCEPT ![s].used = FALSE]
      /\ peer' = [peer EXCEPT ![fd] = NoClient]
      /\ link' = [link EXCEPT ![c] = "closed"]
      /\ UNCHANGED backlog
  BY <1>1 DEF slot_close
<1>3. /\ s \in Slots /\ slots[s].used /\ slots[s].fd = fd /\ fd \in Fds
      /\ slots \in [Slots -> SlotRecord]
  BY SMTT(30), <1>1, <1>2, ServiceFacts DEF Busy
<1>4. Holder[s] = c /\ c \in Clients /\ c # NoClient
  BY SMTT(30), <1>1, <1>3, SeatFacts
<1>5. /\ peer \in [Fds -> Clients \union {NoClient}]
      /\ link \in [Clients -> {"new", "queued", "accepted", "refused", "closed"}]
  BY DEF IInv, TypeOK
<1>6. ~slots'[s].used /\ \A t \in Slots : t # s => slots'[t] = slots[t]
  BY Zenon, <1>2, <1>3 DEF SlotRecord
<1>7. Holder' = [Holder EXCEPT ![s] = NoClient]
  <2>1. \A f \in Fds : f # fd => peer'[f] = peer[f]
    BY ZenonT(60), <1>2, <1>5
  <2>2. \A t \in Slots : t # s /\ slots[t].used => slots[t].fd \in Fds /\ slots[t].fd # fd
    BY ZenonT(60), <1>3 DEF IInv, PoolMatchesKernel, ConnsInv
  <2>3. \A t \in Slots : (IF slots'[t].used THEN peer'[slots'[t].fd] ELSE NoClient)
                             = IF t = s THEN NoClient ELSE Holder[t]
    BY SMTT(30), <1>6, <2>1, <2>2, SeatFacts
  <2>4. QED
    BY Zenon, <1>3, <2>3 DEF Holder
<1>8. Upgraded' = Upgraded \ {s}
  BY Zenon, <1>6 DEF Upgraded
<1>9. Past' = Past \union {c}
  <2>1. \A d \in Clients : link'[d] = IF d = c THEN "closed" ELSE link[d]
    BY Zenon, <1>2, <1>4, <1>5
  <2>2. QED
    BY <1>4, <2>1 DEF Past
<1>10. QED
  BY Zenon, <1>2, <1>3, <1>4, <1>7, <1>8, <1>9 DEF Svc!Release

\* Setup, epoll_wait and the traffic of the clients are none of its steps.
LEMMA OtherStutters ==
    /\ io_setup \/ epoll_wait => UNCHANGED Svc!svars
    /\ \A c \in Clients : ClientSend(c) \/ ClientRead(c) \/ Leave(c) => UNCHANGED Svc!svars
<1>1. ASSUME UNCHANGED << slots, peer, backlog, link >>
      PROVE  UNCHANGED Svc!svars
  BY <1>1, Stutters
<1>2. QED
  BY Zenon, <1>1 DEF io_setup, epoll_wait, ClientSend, ClientRead, Leave, kernel

\* run_loop with the code's pool and the kernel's descriptors implements the
\* service: whoever is accepted, upgraded and dropped, in whatever order.
THEOREM ServiceRefinement == Spec => ImplementsService
<1>1. IInv /\ [Next]_vars => [Svc!Next]_(Svc!svars)
  <2> SUFFICES ASSUME IInv, [Next]_vars PROVE [Svc!Next]_(Svc!svars)
    OBVIOUS
  <2>1. CASE UNCHANGED vars
    <3>1. UNCHANGED << slots, peer, backlog, link >>
      BY <2>1 DEF vars, kernel
    <3>2. QED
      BY <3>1, Stutters
  <2>2. CASE Environment
    BY Zenon, <2>2, ConnectMaps, OtherStutters DEF Environment, Svc!Next
  <2>3. CASE io_setup \/ run_loop
    BY Zenon, <2>3, AcceptMaps, ServiceStutters, FinishMaps, CloseMaps, OtherStutters
       DEF run_loop, Svc!Next
  <2>4. QED
    BY <2>1, <2>2, <2>3 DEF Next
<1>2. QED
  BY <1>1, InitMaps, IoInvariance, PTL DEF Spec, ImplementsService, Svc!Spec
=============================================================================
