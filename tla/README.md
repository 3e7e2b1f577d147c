# Formal model of libws

libws is a freestanding C23 implementation of RFC 6455: a *sans-I/O* core that
turns bytes into events and back, and an epoll server on top of it. This
directory holds TLA+ modules for both, TLC configurations that check them on
small instances, and TLAPS proofs for every buffer size, byte stream, chunking,
pool size and set of clients. Paths below are relative to the repository.

## The system

| Part | State | Operations | Calls |
|---|---|---|---|
| frame codec, `src/framing/frame.c` | none | `ws_parse_header`, `ws_build_header`, `ws_classify_opcode`, `ws_close_code_sendable` | |
| masking, `src/util/mask.c` | none | `ws_mask` | |
| UTF-8, `src/framing/utf8.c` | none | `ws_utf8_valid` | |
| life cycle, `src/session/lifecycle.c` | `state`, `frag`, `sent_close`, `rcvd_close` (and `msg_len` on Close) | handshake, send_close, recv_close, start_frag, finish_frag | |
| driver, `src/session/stream.c` | `ws_conn`: the life cycle, one buffer shared by the message and the raw bytes, `close_code`, `failed` | `ws_conn_init/open/recv/poll`, `ws_send_message/pong/close` | all of the above |
| handshake, `src/framing/handshake.c`, with `src/crypto/*` | none | `ws_handshake_accept` | SHA-1, base64 |
| epoll runtime, `src/io/io_posix.c` | listener, epoll set, pool of 64 slots, each with a driver and an upgrade buffer | accept, upgrade, read and drain, `ws_io_send_*`, close | driver, handshake, kernel |
| echo server, `example/echo_server.c` | none | the event handler, the port argument | `ws_serve`, `ws_io_send_*` |
| trace, `src/trace.c`; memory, `src/util/mem.c` | none | | |

What makes it hard:

- **One buffer, two regions.** `msg_buf` holds the message so far in
  `[0, msg_len)` and the unparsed bytes in `[msg_len, msg_len + rx_len)`.
  Consuming a frame slides the tail over itself; every handler must keep the
  offsets, the lengths and the bytes in step, whatever is buffered behind.
- **Any chunking, any order of calls.** A frame may arrive byte by byte, several
  may arrive at once; the caller may poll, send, close or open between any two.
- **Crossing closes.** Both sides may send Close; an error may fall anywhere.
- **Pointers into the buffer.** An event's data is an offset that later moves of
  the buffer invalidate.
- **The caller's loop.** It feeds and polls until NONE; what NONE means decides
  whether data can be left behind.
- **One thread for everyone.** The server blocks in reads and writes; a batch of
  epoll events outlives the connections it names, and slots and descriptors are
  used again at once. Clients leave between any two system calls, and any call
  may fail.
- **Block boundaries.** SHA-1's padding, base64's tail, the 64 bytes of a key and
  the decimal port each have a length at which the next case begins.

`PROJECT.json` lists these as hazards, each at its line, with the properties
that would catch it.

## Modules

| Module | Models | Notes |
|---|---|---|
| `WsFrame` | `frame.c`, `mask.c` | operators named after the C functions; buffers are functions on `0..n-1`, built bytes are sequences |
| `WsUtf8` | `utf8.c` | the 256-entry table as ranges, the scan as a recursive function |
| `Utf8Ref` | – | UTF-8 by code points (RFC 3629), the reference |
| `WsEvents` | – | what an application is told, as a value; the close codes of RFC 6455 7.4 |
| `WsConn` | `stream.c`, `lifecycle.c` | each C function is an operator from the connection record to the record after it (and the event); `ev.data` is an offset into `msg_buf` |
| `Lifecycle` | `lifecycle.c` | the abstract specification: five steps in any order |
| `WsDriver` | one connection at work | one action per public call: `Open`, `Receive`, `Poll`, `Send` (message, pong, close) |
| `WsMeaning` | – | what RFC 6455 says a sequence of frames means, frame by frame, without a buffer: the reference for the driver and the server |
| `WsDelivery` | – | the delivery properties of one connection |
| `WsLoop` | `drain_events` of `io_posix.c` | the driver under the loop its callers run, with what the loop still owes (`due`) |
| `WsPair` | two drivers | a client's and a server's connection joined by two byte streams; `Say` (the three builders), `Read`, `Poll` |
| `WsUpgrade` | the request parsing of `io_posix.c` | `find_sub`, `extract_key`, `send_accept` |
| `WsIo` | `io_posix.c`, the handler of `echo_server.c` | the server's thread, the kernel and the clients |
| `Service` | – | the abstract specification of the server: a queue, seats, upgrades |
| `WsAccept` | `sha1.c`, `base64.c`, `handshake.c` | a 32-bit word is the set of its one bits |
| `AcceptRef` | – | SHA-1 by the second method of RFC 3174, base64 by bits |
| `EchoArgs` | `echo_server.c` | the port argument |
| `WsCodec`, `WsUtf8Check`, `WsAcceptCheck` | – | feed the parser, the validator and the handshake byte by byte |
| `MCWs...` | – | values for TLC |
| `WsConnProofs` | – | lemmas about the operations of `WsConn`, and about `WsUtf8` and `Utf8Ref` |
| `WsMeaningProofs` | – | lemmas about `WsMeaning`, and about a poll of a frame of a script |
| `WsSpeechProofs` | – | lemmas about what is said in `WsPair`: its frame, built and polled |
| `WsCodecProofs`, `WsDriverProofs`, `WsDeliveryProofs`, `WsPairProofs`, `WsIoProofs` | – | theorems about `WsCodec` and `WsUtf8Check`, `WsDriver`, `WsDelivery`, `WsPair` and `WsIo` |

Bytes are kept as bytes where a property needs them: the layout, the mask and
the payloads are what goes wrong in this code. Abstracted: tracing; return codes
that every caller drops; the C pointer to the buffer, which is the record's
field; `WS_MAX_MESSAGE`, which is the constant `Cap`. `ws_client_mask_key`, which
the caller sets per frame, is the constant `Key`. 64-bit lengths are naturals;
the parser's test of the top bit is made on the byte that holds it. `fwd_copy`
is a simultaneous assignment: at every call `dst < src`, so a byte is read
before it is overwritten. `ws_conn_init` starts from a zeroed buffer, as the
static pool does; no operation reads a byte that was not written.

In each module an operator under a comment that starts with *Slip* is a wrong
version of the definition after it, used to confirm that a property notices.

In `WsDriver`, `stream` is what the peer sends, with the offsets (`stops`) at
which it waits until everything is consumed; `fed` counts the bytes accepted;
`log`, `out` and `aligned` are history. `aligned` turns false when a message or
a Close ends with raw bytes behind it: see the first finding.

In `WsIo`, a step of the thread runs from one blocking or failing system call to
the next; `pc` says where it is. `io_setup` is the four steps of setup;
`epoll_wait` fills `batch` with every readable descriptor (the code's array has
room for all), and `on_accept`/`on_readable` take its members in any order, as
the kernel may report them. `service_client` is the read and what follows it up
to the next call: `handshake_step` to the first byte of the 101, `feed` to the
first poll. `drain_events` is one turn of the polling loop, the handler
included; `write_all` moves what fits in the client's socket buffer and waits
when it is full; `write_to_gone` has the three outcomes of a write to a client
that has left: taken, failed, or SIGPIPE, which ends the process. `slot_close`
ends the path. The kernel's side is `peer`, `interest`, `backlog`, `link`, `rx`
and `tx`; `accept` returns the lowest free descriptor. Clients follow scripts
of segments; one may wait for a number of reply symbols first. In requests and
responses, the header name `Sec-WebSocket-Key:` and the fixed head of the 101 are one
symbol each; the answer to a key is an operator parameter (`Accept`), and
`WsAcceptCheck` discharges what `WsIo` takes from it: every key the server cuts
from a request has an answer. The server's role is SERVER, as the example's.

In `WsPair` both applications may say anything, misuse of the builders included,
once what they said before is consumed: the pacing that the first finding makes
necessary.

## Runs

Passing:

| Run | Instance | Shows |
|---|---|---|
| `codec` | every FIN and opcode, three RSV values, lengths around 125/126 and 65535/65536, the top bit; or a text, of up to 4 bytes over 22 boundary bytes | `VerdictIsStable`, `AcceptedIsCanonical`, `BuiltIsAccepted`; `Utf8Exact` |
| `driver` | buffer of 12, chunks of 1, 4, 7, both roles, 21 streams of two or three frames, early polls, up to 2 frames sent into buffers of 3 or 16 | ten safety properties, among them the refinement `ImplementsLifecycle` |
| `deliver` | 404 scripts of two or three frames, legal and illegal, masked for a server and bare for a client, the peer waiting after each frame, after each but pings and pongs, after each message or never, chunks of 1, 2, 5 | `DeliveredToPatient`, `DeliveredInOutline`, `AlwaysAligned`, `EventuallyDelivered` |
| `pair` | each end says up to two things out of seven: text, binary of 126 bytes, ping of 125, Close, and a misuse of each kind; reads may leave the last 3 bytes for later | `HeardAsSaid`, `CloseNeedsBoth`, `EventuallyHeard`, `CrossingCloses` |
| `io` | three clients, two slots, three descriptors, a queue of two, one failing call, one client that may leave at any point, five casts of clients (see `MCWsIo`) | `TypeOK`, `PoolMatchesKernel`, `EventsAreFresh`, `RepliesAreExact`, `HandlerSeesLive`, `ImplementsService`, `SlotsComeBack`, `EveryoneIsServed` |
| `accept` | every prefix of a 121-digit text, of 66 spread bytes, of the test vectors and of five port arguments | `Sha1Exact`, `Base64Exact`, `AcceptExact`, `PortExact`, `KnownAnswers` |

Why these bounds: a frame of the driver's runs has 3 to 8 bytes, so chunks of 1
to 7 cut it before, inside and after the header, the key and the payload; two
frames show every pair of handlers, three a message with a control frame inside
it; a buffer of 12 can be exactly full, and overfull by one offer, behind a
message in progress. The output buffer of 3 is too small for every frame of the
client and for a server's Close. Above 125 bytes only the header differs, and
`codec` covers it, and `pair` has one frame beyond; TLC's integers have 32 bits,
so lengths stop at 2^17 in `codec`.

The server's instance has one client more than slots, so the pool fills and a
client is refused or let in after another has gone; one descriptor more than
slots, so that a refused client has one and a closed one is used again. The
upgrade buffer (14) is one short of the endless request, the driver's buffer
(10) one short of the long frame, the key's room (2) one short of the long key,
and a reply needs two writes into a socket buffer of 5. The casts mix an upgrade
cut inside the blank line with a frame in its tail, pings and messages,
fragments, an unmasked frame, a missing key, and a silent client.

In `accept`, 121 digits pass 55, 56, 63 and 64 bytes in the first block and 119
and 120 in the second, both as a message and, with the GUID, as a key; 66 bytes
pass the longest key.

Deadlock is checked in every passing run but `io`: a caller can always poll, and
a server whose clients have all been served waits in `epoll_wait` for ever.

Fairness of one connection (`LoopFairness` of `WsLoop`) is that of the loops in
`README.md` and `io_posix.c`: the connection is opened, the caller keeps reading
what the peer has sent, and after a read that the driver took it polls until the
first NONE, CLOSE or ERROR. Until the next read it need not poll again; it may,
and nothing is assumed of sending. `due` records that a poll is owed, and the last conjunct is
weak fairness of such a poll with its enabling condition written out.
As a poll that takes a fragment returns NONE, `EventuallyDelivered` is stated for
peers that wait after every frame but pings and pongs (`Unhurried`): a frame
behind a fragment is left in the buffer, which is what `left_behind` shows of
the server. `refused_header` grants the caller more (`FairSpec` of `WsDriver`: it
polls again as long as polling does something), and the error is still not
reported. `WsPair` assumes that each end reads and polls as long as that does
something; there each frame is whole, no fragment, and is sent once the one
before is consumed, so the first NONE after a read means that no whole frame is
buffered, and a loop that stops there does as much.

For the server, `FairSpec` says that the thread runs whenever it can go on
(`Waiting` is when it cannot: nothing readable, a full socket, or the process
has ended), and that a client that stays sends its segments and reads its
replies. The latter is needed: `write_all` blocks, so one client that stops
reading holds up everyone. No fairness is assumed of connecting, leaving or
failing. A descriptor whose registration failed is left out of `SlotsComeBack`
and `EveryoneIsServed`: `on_accept` drops that error, and the slot is lost.

Violations, each a statement of the repository that the code does not meet
(quotations in `PROJECT.json`):

| Run | Statement | What happens |
|---|---|---|
| `stated_layout` | layout of `stream.c:6` | `finish_message` zeroes `msg_len` and leaves the raw bytes behind the old message; the next poll parses the old message. A Close inside a message does the same. |
| `ping_payload` | `stream.c:229`, data valid until the next poll | `raw_consume` overwrites the payload before the poll returns |
| `masked_to_client` | `stream.c:251` and `259`, a client receives unmasked frames and the wrong side is an ERROR | `mask_ok` tests the server's side only; the client reports the message |
| `close_reply` | `ws.h:86`, reply with `ws_send_close` | the connection is already CLOSED, nothing is built |
| `refused_header` | `ws.h:87`, a violation is an ERROR | a refused header polls NONE for ever |
| `left_behind` | `io.h:48`, `on_event` is called per event; `ws.h:127`, NONE when no complete frame is buffered | a poll that takes a non-final fragment returns NONE; `drain_events` stops there, and a message read whole stays in the buffer until the client sends again |

That `ws_serve` "otherwise loops forever" (`io.h:50`) is not met either when a
write raises SIGPIPE; this has no run of its own, and the server's liveness properties are stated up to the end of the process.

Two more statements differ from the code in one line each and have no run:
an empty first fragment gives `frag` without `msg_len`, against SINV2 of
`spec/STREAM_REQUIREMENTS.md:76` (`AssemblyDiscipline` has the half that holds);
and the parser answers an incomplete header with -1 where `ws.h:45` says 0.

The delivery properties are stated around the first three: a peer
that waits, after each frame or after each message, and that masks no frame it
sends to a client (`BareToClient`), is served exactly.

## Proofs

The assumptions on the constants, each evaluated by TLC in the runs that use it:

- `CapAssumption`: `Cap` is a natural number;
- `DriverAssumption`: roles are roles, streams are sequences of bytes, chunks are
  positive; `SendAssumption`: the application sends Close with `ws_send_close`
  only;
- `StreamAssumption`: a stream is the bytes of a script of frames with payloads of
  up to 125 bytes, and is kept with what it means to each role;
- `LengthsAssumption` and `AlphabetAssumption`: lengths are natural numbers, the
  letters of a text are bytes;
- `PairAssumption`: the mask key is four bytes, a read may leave nothing behind;
  `OutCapAssumption`: a buffer has fewer than 2^63 bytes; `SpeechAssumption`:
  what is said has the fields of the event that is to report it;
- `IoAssumption`: descriptors are positive, 0 being the listener's; the pool, the
  buffers and the number of faults are natural numbers; clients send bytes.

**One connection.** `WsConnProofs` proves what each operation preserves;
`WsDriverProofs` lifts it to the specification. The invariants are not inductive
alone. `IInv` joins

- `ConnInv(conn)`: types; `msg_len + rx_len <= Cap`; the close bits match the
  state, *and* `rcvd_close => sent_close`, without which `ws_send_close` in an
  unreachable OPEN state with `rcvd_close` set would break the match; the
  assembly discipline;
- the types of the rest, and that the event points into the buffer;
- `ErrorIffFailed`, `LayoutHolds` and `NothingAfterTheEnd`, the last with what
  the log says about the state: an ERROR in it means `failed`, a CLOSE means
  CLOSED, which is what stops the next event.

A poll is followed down the call chain, one lemma per handler: `ReadyFrame` (a
ready frame lies inside the raw region and its header is well typed),
`DataOK`, `CloseOK`, `ControlOK`, `RouteOK`, then `PollResult`, which says that
a poll keeps `ConnInv`, makes a life-cycle step or none (`LcStep`), reports an
event that points into the buffer and, unless it slips, leaves the rest of the
raw bytes in place (`Keeps`). `OneCloseFrame` has an invariant of its own on top
(`OutInv`): what `build_frame` writes carries its opcode in the first byte
(`BuiltOpcode`), and a Close is built only in OPEN, where by `IInv` none has
been sent.

Proved, for every value of the constants: `TypeOK`, `CloseBitsMatchState`,
`AssemblyDiscipline`, `ErrorIffFailed`, `TooBigUnreachable`, `LayoutHolds`,
`NothingAfterTheEnd`, `OneCloseFrame`, `ClosedIsFinal`, and the refinement
`ImplementsLifecycle`.

**The header codec.** `WsCodecProofs` proves, for every byte stream and for
lengths of the full 63 bits, which no run reaches:

- `VerdictIsStable`, from `ParsedPrefix`: on two buffers that agree on the first
  `n` bytes `ws_parse_header` gives one verdict, once it gives any;
- `AcceptedIsCanonical`, from `ParsedBuilds`: what the parser accepts is, byte
  for byte, what `ws_build_header` writes for the header it returns, and that of
  a frame RFC 6455 allows unless the opcode is reserved (`route` refuses those);
- `BuiltIsAccepted`, from `BuiltParses`: whatever `ws_build_header` writes for a
  legal frame is accepted and read back unchanged.

`write_be` and `read_be` are loops over bytes: `Spells(buf, n, v)` says which
number `v` the first `n` bytes stand for, `SpellsMore` and `SpellsLess` take one byte
more or less, and uniqueness of the digits gives both directions.

**UTF-8.** `WsCodecProofs` also proves `Utf8Exact` for texts of any length over
any bytes, from `ValidIsUtf8` of `WsConnProofs`: `ws_utf8_valid` accepts exactly
the sequences that split into encodings of scalar values. `Table` reads the two
tables; `Scalar1` to `Scalar4` show, per length, that the guarded range of the
second byte is what excludes overlong forms, surrogates and values past
U+10FFFF; `OnlyAnnounced` shows that the first byte leaves one way to split. The
two scans are then compared from the back.

The recursive functions of all parts are reasoned about without an induction
scheme: the set of arguments at which a claim fails has a least element
(`LeastNumber`, from the library's theorem on well-founded orders), and the step
refutes it.

**Delivery.** `WsDeliveryProofs` proves the delivery properties: for every buffer
size, every script, legal or not, every choice of the places where the peer
waits, every chunking and every order of the caller's calls, sends included,

- `DeliveredToPatient`: a peer that waits after every frame, and masks none it
  sends to a client, gets exactly the events its frames stand for, in order,
  payloads included;
- `DeliveredInOutline`: every peer that masks none it sends to a client does, but
  for the payload of a ping or pong with frames behind it, until a message ends
  with bytes behind it;
- `AlwaysAligned`: to a peer that waits after each message the latter never
  happens, whatever it pipelines within a message.

They are stated for callers that open the connection before they poll it
(`~PollEarly`), as the loops of the repository do: a frame taken before that
fails the connection, whatever it means (the `driver` run and the theorems of
`WsDriverProofs` have such callers).

`DelInv` is inductive on top of `IInv`. While `aligned`, it says that

- `Placed`: the driver stands at the end of the first `k` frames, for some `k`.
  The bytes it consumed are theirs; the log is what they mean, exactly for
  a patient peer; and unless it failed the connection `Tracks` that meaning: the same
  message in progress, its bytes at the front of the buffer, closed or not.
  What the frames mean is here what they mean as taken (`AsTaken`): RFC 6455 has
  a client refuse a masked frame, and the driver takes it for a bare one. Without
  such frames the two are the same (`TakenAsSent`), and `AlwaysAligned` does not
  depend on it;
- `Waited`: the peer is past a place where it waits only if all before it was
  consumed. That is what leaves nothing behind a frame of a patient
  peer, or behind the last of a message of a polite one.

With `LayoutHolds`, the raw region is the script's bytes from frame `k + 1` on.
`WsMeaningProofs` says where the frames lie in the bytes of a script
(`FrameInStream`), what the parser reads of one, and that the two recursive
functions, `Encoding` and `Progress`, satisfy their equations. The step is
`PollTaken`: with a whole frame in front of the raw region, whatever message is
in progress before it and whatever bytes are behind it, a poll consumes just
that frame, says what `Takes` says of it, and tracks the meaning after it; or it
fails, and the meaning is dead. One lemma follows each handler: control frames
in place, data frames moved to the end of the message, and the whole message
checked as UTF-8 by `ValidIsUtf8`. `IdlePoll` is the poll with no whole frame in
front: it changes nothing that counts, and a header that is refused stays in
front. `TakesOne` joins the two.

**Two connections.** `WsPairProofs` proves `HeardAsSaid` and `CloseNeedsBoth` for
every buffer size, mask key, set of things to say and way of cutting the two
streams. Neither is inductive. `PairInv` says of each end `e`, whose peer said
`sp`:

- `Stands`: its driver satisfies `ConnInv`, has nothing assembled, is CLOSED
  exactly if its application heard a Close, and is past OPEN if it said one;
- `Flow`: one of three. *Idle*: nothing is under way, all of `sp` was heard and
  all of it is lawful. *Pending*: all but the last was heard, and the bytes in
  the buffer followed by those on the wire are exactly the frame of the last.
  *Broken*: the error is latched, and what was heard is what was said up to the
  first misuse, then the error.

In `WsSpeechProofs`, `BuiltIs` says what frame each builder writes; `Waits` that
no proper part of it is ready (by `PrefixParses`); `Whole` that all of it parses
to its header (`BuiltParses`); `PollHears` follows the poll of a whole frame
through unmasking, dispatch and assembly to the event; `PollTells` joins them:
the poll tells the application what was said, or the error if it was a misuse
(`ValidIsUtf8` is what makes the receiver's verdict on a text that of the
reference). `SayHeard`, `SaySpoken`, `ReadKeeps` and `PollKeeps` are the steps.

**The server.** The theorems of `WsIoProofs` are about any number of clients,
slots, descriptors and faults and any scripts. `IInv` joins `TypeOK`,
`PoolMatchesKernel` and `EventsAreFresh` with

- `QueueInv`: the queue holds exactly the clients that are queued, once each, so
  that an accepted client is not accepted again;
- `ConnsInv`: the driver of every slot satisfies `ConnInv`, and an open one is
  alive unless it is the current slot on its way to `slot_close`; this is
  where the proof uses `WsConnProofs`;
- `ServiceInv`: while a slot is serviced no event of the batch names its
  descriptor. It is what makes closing safe: the descriptor may be reused at
  once, and an event left over would be taken for the newcomer's.

There is one lemma per action; those of a serviced slot share `ServeStep` and
`InnerStep`. The searches (lowest descriptor, first free slot, first blank line)
rest on `LeastNumber`. Proved: `TypeOK`, `PoolMatchesKernel`, `EventsAreFresh`,
`HandlerSeesLive`, and `ImplementsService`: each step of the server joins,
seats, refuses, upgrades or releases one client of the abstract `Service`, or
leaves it alone.

**Only model-checked**: `Sha1Exact`, `Base64Exact`, `AcceptExact`, `PortExact`
and `KnownAnswers`, whose two sides are recursive operators; `RepliesAreExact`,
which compares whole conversations, the bytes of the 101 and of every reply, with
what is due for a client's script, and needs the delivery argument once
more for every slot, through reads that stop anywhere and the unread tail of a
request; and liveness
(`EventuallyDelivered`, `EventuallyHeard`, `CrossingCloses`, `SlotsComeBack`,
`EveryoneIsServed`), which is out of the prover's reach.

## Not modelled

- `ws_memcpy`, `ws_memset` and `ws_memcmp` (`src/util/mem.c`): they are the
  model's function updates and equality.
- Tracing (`src/trace.c`): formatting, off by default, changes no state.
- The entry stub of the example (`_start`), beyond the arguments it finds on the
  stack, and the system-call wrappers, beyond what the calls do.
- The client side of `io_posix.c` does not exist: `ws_serve` is the only entry, so the
  client role is covered by `driver`, `deliver` and `pair`.
- The benchmark and the tests.

Beyond these bounds: TLC's integers have 32 bits, so payloads of more than 2^31
bytes are seen by the theorems only; the server is checked with three clients,
its safety proved for any number, its liveness not. A read, write or accept that
a signal interrupts is a failed one, as the code takes it, and an interrupted
`epoll_wait` returns nothing. Several events for one descriptor in a batch do
not occur with the level-triggered registration the code makes.
