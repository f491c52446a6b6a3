# tcpover: a TLA+ verification project

tcpover carries TCP connections over websockets. A *server* (`server.go`)
either dials a target itself (direct mode) or pairs a client with an *agent*
behind a NAT that keeps a management websocket open and dials back on request
(forward mode). Clients run local listeners (SOCKS5, HTTP, mixed), pick an
outbound by rules, and speak wless, vless, shadowsocks/ssr or anytls, with or
without stream multiplexing (smux, or anytls sessions).

The project models first the parts in which goroutines, timers and connections
interleave, because that is what the repository's sequential code reads worst
and tests least, and then the protocols and containers those parts are made of.
Modules are translated from the Go, JavaScript and TypeScript source;
`PROJECT.json` maps every definition to its lines.

## Inventory

| Component | State | Operations | Interacts with | Hard because |
|---|---|---|---|---|
| Pairing server, `server.go` | `manageConn`, `groupConn`, `PairGroup{conn, done}` | `manageConnect`, `forwardConnect`, `directConnect`, `Upgrade` | agent (Link messages, dial back), `bufio.Relay` | one goroutine per connection, codes from the clock, registry entries outlive connections |
| Agent, `outbound/wless.go` (`PassiveResponder`) | its management connection | `manage` (dial, read, redial), `connectLocal` | server, local targets | redials while the server still has its old connection |
| Relay, `common/bufio/relay.go` | two copies, read deadlines | `Relay` | everything that forwards | two goroutines stop each other by deadline |
| Mux client, `mux/client.go` | `pool` of smux sessions | `openStream` | smux, outbounds | check, open, dial and store without a lock |
| Mux server and streams, `mux/server.go`, `mux/conn.go`, `mux/protocol.go` | `requestWritten`, `responseRead`, `responseWritten`, accept loop | `NewConnection`, `Read`, `Write` | smux, relay | headers sent lazily; requests read one after the other |
| anytls deadline, `anytls/pipe/deadline.go` | mutex, timer, cancel channel | `Set`, `Wait` | pipe | timer callbacks close channels without the mutex |
| anytls pipe, `anytls/pipe/io_pipe.go` | `wrMu`, `wrCh`, `rdCh`, `done`, `rerr`, `werr`, deadlines | `Read`, `Write`, closes, deadlines | recvLoop and stream readers | hand-over waits that nothing interrupts |
| anytls session pool, `anytls/session/client.go` | `idleSession`, `sessions`, `die` | `CreateStream`, dieHooks, `idleCleanup`, `Close` | sessions | ownership of a session passes between goroutines by hooks |
| anytls session and stream, `anytls/session/{session,stream,frame}.go` | `streams`, `die`, `buffer`, `synDone`, `peerVersion` | `OpenStream`, `recvLoop`, `Close`, `writeConn`, stream `Read`/`Write`/`Close` | pipe, peer | one receive loop for all streams, a watcher that closes everything |
| anytls padding, `anytls/padding`, `writeConn` | scheme, `pktCounter`, `sendPadding`, `buffer` | `GenerateRecordPayloadSizes`, `writeConn`, `UpdatePaddingScheme` | session, TLS connection | frames cut into records of random sizes, scheme replaced under way |
| anytls skip list, `anytls/skiplist` | nodes, levels, length | `Insert`, `Remove`, `Clear`, searches, walks | session pool | random levels, two implementations of every search |
| Listeners, `transport/listener*` | accept loops, a goroutine per connection, the channel `in`, net/http's client and its pipe | accept, first byte, SOCKS, HTTP keep-alive, CONNECT, upgrade, `handleTCPConn` | relay, outbounds | one connection passes between goroutines, and each may be the one to close it |
| Destination: `inbound`, `ctx`, `outbound`, `wless`, `vless`, `mux/protocol.go`, the server's readers | metadata | address codecs, choice of outbound and mux | all of them | byte-wide lengths, five address forms |
| SOCKS5, `socks5/socks5.go`, `common/auth` | | `ServerHandshake`, `ClientHandshake` | listeners | each end reads what it believes the other sent |
| LRU cache, `common/cache` | map, list, entries | `Get`, `Set`, `Delete`, `CloneTo` | HTTP listener | limits in size and age, entries shared by clones |
| shadowsocks, `shadowaead`, `shadowstream` | nonces, leftovers | `Read`, `Write`, `ReadFrom`, `WriteTo` | `server.go` (`SS`) | both ends count by themselves |
| ssr, `ssr/protocol`, `ssr/obfs` | record ids, buffers, phases | `Encode`, `Decode`, disguised `Read` and `Write` | nothing in the program imports it | padding arithmetic, reader and writer share buffers |
| Workers, `server/cloud.js`, `server/deno.ts` | `sessions`, `groupSocket`, `manageSocket`, mutex | mux, pairing, direct websockets | clients, agents | single threaded, with awaits between test and use |
| websocket connection, rules, client start-up, netip, mapstructure, protobytes, pool, ca | | | | not modelled, see below |

What makes each correct:

- *Pairing*: a relay joins a client with the connection its agent dialled for
  it and nothing else; nobody is parked without a partner on its way; a pair
  whose side is gone is cleared; a running agent is found.
- *Relay*: it ends only because one of its ends did, and then ends altogether,
  with everything it had read also written.
- *Mux*: the stream limit is overshot by a known amount only, no dialled
  session is lost; headers are taken off once; a silent stream delays no one
  but those behind it, and those only while it is silent.
- *Deadline and pipe*: no double close, no stale callback, bytes once and in
  order, every wait is answered, a close or deadline releases whoever waits.
- *Session pool*: a session has one user at a time, none is lost or left open.
- *Session*: data in order and before FIN, settings first, closed sessions
  stop, and padding never breaks a frame.
- *Listeners*: a connection has one owner at a time and is closed when its
  client has left.
- *Destination*: what is dialled is what was asked for, whichever way it takes.
- *Handshakes and records* (SOCKS, ssr, shadowsocks): what one end writes the
  other understands, at every size.
- *Containers*: the skip list is a map, the cache keeps what was used last.
- *Workers*: streams keep to their own connections, their ends are told, a
  first partner stays findable, the mutex is passed on.

`PROJECT.json` lists 40 hazards at their lines, each with the properties that
would catch it, or why there is none.

## Modules

| Module | Models | Composition |
|---|---|---|
| `Forward` | `server.go` 102-168, 196-222, 252-283 and `outbound/wless.go` 96-171 | server and agents composed; `Relay` appears as one step that ends |
| `Relay` | `bufio/relay.go` 44-65 | what `Forward` and `MuxStream` assume of a relay |
| `MuxPool` | `mux/client.go` | |
| `MuxStream` | `mux/server.go` 38-113, `mux/conn.go`, `mux/protocol.go` 179-195 | client ends, accept loop and relays of one session |
| `Listeners` | `listener.go`, `listener/mixed`, `listener/http`, `listener/socks` | listeners, dispatcher and jobs composed; a job's `Relay` is one state |
| `Destination` | `inbound`, `ctx/meta.go`, `outbound`, `wless`, `vless`, `mux/protocol.go`, the readers of `server.go` and of the agent | every inbound with every outbound |
| `SocksHandshake` | `socks5/socks5.go`, `common/auth` | client and server end over a connection |
| `Padding` | `padding/padding.go`, `writeConn`, the preamble of `anytls/client.go` | writer and scheme updates |
| `OrderedMap` | what the skip list promises | abstract specification |
| `SkipList` | `anytls/skiplist` | implements `OrderedMap` |
| `LruCache` | `common/cache/lrucache.go` | two caches joined by `CloneTo` |
| `Shadow` | `shadowaead/stream.go`, `shadowstream/stream.go` | writer and reader of a connection |
| `SsrProtocol`, `Obfs` | `ssr/protocol`, `ssr/obfs` | client against a server that speaks the same records |
| `WorkerMux`, `WorkerPair`, `WorkerDirect` | the handlers of `cloud.js` and `deno.ts` | composed by `Worker`, which routes a request to one of them |
| `Deadline` | what `PipeDeadline` promises | abstract specification |
| `PipeDeadline` | `pipe/deadline.go` | implements `Deadline` |
| `Pipe` | `pipe/io_pipe.go` | two instances of `Deadline` |
| `SessionPool` | `session/client.go`, with `Close`, `OpenStream`, `streamClosed` of `session.go` and the closes of `stream.go` | |
| `AnySession` | `session/session.go`, `stream.go`, `frame.go` | client and server session over a connection |
| `DeadlineProofs`, `PipeProofs`, `ForwardProofs`, `AnySessionProofs` | theorems about the module of that name | |
| `SessionPoolProofs` | theorems about `SessionPool` and the `SkipList` it keeps its sessions in | |
| `LinkProofs` | theorems about `Listeners`, `Relay`, `MuxStream`, `MuxPool` | |
| `WorkerProofs` | theorems about `WorkerDirect`, `WorkerPair` and `WorkerMux` | |
| `PartsProofs` | theorems about `Destination`, `SocksHandshake`, `LruCache`, `Padding`, `Shadow`, `Obfs` and `SsrProtocol` | |
| `MC*` | TLC instances | |

How state and actions correspond to the code:

- An action is what a goroutine does between two points where another can
  come in: a lock, a channel operation, an atomic, a call that blocks. `pc`
  variables hold where a goroutine is; they carry the names of the functions
  or of the statements they stand before. Deferred calls are part of the
  action that returns, or an action of their own where others can observe
  what lies between.
- `Forward`: each request *c* stands for the client's connection `Active(c)`
  and the connection the agent dials because of it, `Passive(c)`. A
  `PairGroup` is named after the connection whose handler made it. `clock`
  is the wall clock in the 0.1 ms units of the code's format string.
  `writing` records who is inside `WriteJSON`. A management connection and
  its server handler end independently: the handler notices at a ping only.
- `PipeDeadline`: channels and timers are numbered as they are made. A timer
  that has fired runs its callback as a step of its own (`TimerClose`).
- `Pipe`: data are positions in a Write's slice. A transfer on an unbuffered
  channel is one step of two goroutines. `torn` marks a Write of which a
  position was given out twice, skipped, or inside another Write's slice.
- `SessionPool`: a stream is named after the call that opened it. The two
  dieHooks, `Session.Close`, the reaper and `Client.Close` are taken apart at
  their locks, and so is a FIN: `recvLoop` takes the stream off the map (`PeerFin`,
  `taken`), unlocks, and closes it afterwards (`PeerFinClose`); only then does it
  look at `die` again (`LoopOn`, `ended`).
- `AnySession`: frames carry command, stream and a count instead of bytes;
  a data frame carries its number, a FIN the number of data frames before it.
  `held` is a frame `recvLoop` has read and stands on. `Session.Close` is one
  step here; its parts are in `SessionPool`.
- `MuxStream`: in a stream, 0 is the request or status and *k* the *k*-th
  payload.
- `Listeners`: `place` is where a connection's goroutine is, `job` where
  `handleTCPConn` is, for the connection itself or for the pipe through which
  net/http's client reaches the dispatcher.
- `Destination`: a name is its length and an address the form it is held in;
  indices that the code computes in a byte are computed modulo 256, and an index
  out of range is a crash. A trip is a destination and its way through the
  program; a run enumerates all of them.
- `SocksHandshake` works on bytes: each end consumes what the code consumes.
- `Padding`: the frames written are an interval of payload, and `given` says
  where each ends; a record is the part of it one `Write` sends, and the waste
  frame behind it.
- `SkipList`: `next` pointers per node and level; a new node's level is any of
  the levels the random source can give.
- `LruCache`: an entry is a number, the map and the list hold such numbers, so
  that a clone shares entries as the code's pointers do. `used` and `dropped`
  say which keys were used since a key was, and which keys nobody may count on.
- `Shadow`: a sealed block carries the nonce it was sealed with, and opens only
  under the same one. `SsrProtocol`: a record carries what was written and what
  a reader will take from its fields, `packID` and `recvID` are the code's;
  random lengths are drawn from `HeadSizes` and `PadLengths`, which are
  constants: TLC tries those around the limits, the proof allows any. `Obfs`: a
  token is one Write's data.
- Workers: JavaScript runs to the next await; each await is a step boundary. A
  frame of `WorkerMux` carries the id the server reads and, in `of`, the stream for
  which the client wrote it: `cloud.js` reads one frame at the wrong place, and
  what counts as another stream's frame is decided by `of`. A message handler
  that throws ends the `pipeTo`, which cancels its source, whose `cancel()`
  closes the websocket (`Throw`): from then on `send()` throws, in the readers
  (`DenoSendFails`, `CloudSendFails`), in `closeSession` and for a FIN that waits
  in `sendFrame`. In `deno.ts` a rejected promise is left over that nobody
  handles; the model stops the reader and leaves the rest as it is.

Definitions marked `mutant` are variants of the definition after them, each a
plausible slip in the code; with the variant in place TLC finds the property
named in `PROJECT.json` violated.

## Runs

| Run | Bounds | Shows |
|---|---|---|
| `MCForward` | 1 agent, 2 requests, 2 management connections, 2 clock values, requests and connections symmetric | `RelayJoinsClientWithItsAgent`, `ParkedMeansPartnerComing` as long as codes differ |
| `MCForwardLive` | 1 request, 2 management connections | `LinkedIsAnswered`, `BrokenPairIsCleared` |
| `MCForwardStaleDelete` | violation | the late `Delete` of an old handler makes a running agent "not running" |
| `MCForwardSameTick` | violation | two clients with one code are relayed to each other |
| `MCPipe` | pipe: 1 reader, 2 writers, slices up to 2, 2 channels per deadline; deadline: 2 setters, 3 timers, 4 channels | `DeliveredInOrder`, `ReportedIsDelivered`, `AnswerIsOwed`, `CloseReleasesEveryone`; `NeverClosedTwice`, `SetReturns`, `ImplementsDeadline` |
| `MCSessionPool` | 2 calls over 2 sessions, one kept idle | `ExclusiveSession`, `StreamsDieWithTheirSession`, `CloseReachesEverySession` |
| `MCAnySession` | 2 streams, 1 data frame each way, 1 frame in transit | `NoAlert`, `FinComesAfterData`, `ServerCloseReachesClient`, `ClosedSessionStops` |
| `MCAnySessionLateSyn` | violation | a SYN handled around `Session.Close` leaves a stream open |
| `MCLinks` | listeners: 2 clients, channel of 1, 2 requests; relay: 2 units each way, room for 1; pool: 2 calls, 2 sessions, limit 1; streams: 2, with 2 and 1 payloads each way | `OneOwner`, `LeftIsClosed`; `ClosedAfterTheLastWrite`, `OneEndEndsBoth`; `LimitOvershootIsBounded`; `OnlyPayloads`, `SpokenIsHeard` |
| `MCWorker` | 2 mux streams, the first with a short address, 2 payloads each way; 2 connectors and 2 dial-backs; 4 piped messages | `StreamsStayApart`, `ClientHearsRemote`, `RemoteEndIsTold`; `WaitingFirstIsFindable`, `LockIsPassedOn`; `PipedInOrder` |
| `MCParts` | skip list: 4 keys, 4 levels; cache: 3 keys, limit 2; names at and around every limit, 4 ports; all logins and addresses of the handshake; Writes up to 8400 bytes, padding of 0, 127, 128 bytes and the longest; 3 disguises; 7 seals; 5 frames under 2 schemes | `ImplementsMap`, `WalksAgree`; `RecentIsKept`; `DialsWhatWasAsked`; `HandshakeIsUnderstood`; `RecordsAreUnderstood`; `ObfsInOrder`; `SealsOpenInOrder`; `FramesSurvivePadding` |
| `MCSkipListRange` | violation | `FindRange` visits `last`, which its comment leaves out |

`MCPipe`, `MCLinks` and `MCParts` check several parts that share no state: an initial
state picks a part and only that part moves, so that a state of the run is a
state of one part. A module's type invariant is not checked by a run where it is
part of an invariant that is proved (`PipeDeadline`, `Pipe`, `MuxPool`, `Relay`,
`SessionPool`, `Forward`); in the other modules it documents the state.

Why the bounds are enough for what they are used for: every race named in the
hazards is between two or three parties, and every instance has that many: two
requests to share a code or cross each other, two management connections for
an agent that redials, two writers to compete for the mutex while a reader
takes a slice in pieces, two callers between whom a session passes while the
reaper and `Client.Close` look at it, two streams of which one holds the
receive loop, two calls to overshoot a limit. The lengths tried by `MCParts`
are those at which some byte, word or branch of the code changes. Counters
(ticks, sessions, streams, timers, channels, payloads) are capped in the
guards of the actions that raise them and named in the CONSTANTS. Runs with
`CHECK_DEADLOCK FALSE` are those in which the system may really stop, because
requests, sessions, streams, timers or channels are used up or everybody has
left.

### Findings

The four violation runs each state what a comment or a message of the code
says and show a behaviour in which it is not so; `PROJECT.json` quotes the
lines. The passing properties around them say what does hold: for instance
codes that differ are enough for correct pairing. `FindRange` is one of them: its
comment says that `last` is not included, it ends at `upperBound(last)`, and
`WalksAgree` states what it does. Four more behaviours the models reach
contradict no line of the repository and are hazards only: two handlers write to
one management websocket at a time (one may panic, or a Link is cut short or lost
without an error anybody looks at), an agent whose read fails with an error that
`IsClose` does not know goes on reading the broken connection, a session closed
by its receive loop can still be put into the idle pool (it costs a failed
`CreateStream` and is never shared: `ExclusiveSession`), and a stream that dies
before its dieHook is set does not give its session back.

The protocol parts, the listeners and the workers have more of that kind. We
know of no comment, message or test that they contradict; where a property would
be false because of one, the property names it as an exception, and the hazard
says so:

- *Destination*: `parseSocksAddr` adds in a byte, so a name of 253 bytes gets a
  wrong port and a longer one panics (`vless.ReadAddr` likewise); an IPv4 address
  given as text leaves through vless as 0.0.0.0; a user who asks for the mux
  session's special name gets a mux session.
- *Listeners*: mixed's failed `Peek` leaves the connection open; an upgrade whose
  dial fails relays with a nil connection and panics; `client.Do` has no timeout
  and does not notice that the client left; nobody closes a registered listener.
- *SOCKS*: a client with a user logs in even if the server chose no login, and
  does not look at the reply code.
- *shadowsocks*: the empty chunk after a finished `ReadFrom` uses two nonces of
  which the reader counts one.
- *ssr*: an empty first Write of auth_aes128 marks the head as sent without
  sending it; records decoded before a bad one are lost with it; a server's head
  that arrives in two pieces is an error or is taken for data; reader and writer
  of a disguise share flags and buffers without a lock.
- *anytls*: a Write of 64 KiB or more does not fit its length; a range of sizes
  excludes its greater end; a scheme whose packet 0 begins with a check mark
  announces 65535 bytes of padding and sends none, and one with sizes of 64 KiB
  and more does not fit the length of the preamble or of a waste frame.
  `FramesSurvivePadding` names all of these.
- *Workers*: `Buffer.size` of `cloud.js` is never initialised (cloud.js:15-24), so
  its length is NaN and no test of it holds: the request's message is taken for
  all that precedes the first frame, the two bytes of the mux version are read
  as the head of that frame, and the first stream of every mux websocket has no
  address that can be read and is never dialled. What `StreamsStayApart` says of
  `cloud.js` is about the streams after it. A SYN that waits for its address is
  merged with the next message, of whatever stream; `cloud.js` may read a second Blob as an address; in
  `deno.ts` the pairing mutex is held until a socket opens, a failed dial ends
  the whole mux websocket (in both programs so does a write to a connection that is
  broken), and the close of an old management socket forgets a newer
  registration.

### Fairness

Weak fairness, except for one kind of step, and only of steps a running
goroutine can take:

- `Forward`: handlers, the agent's reading of Links and its dials make progress
  (a dial succeeds or fails); a ping on a dead connection fails in the end.
  Nothing is assumed of clients, the clock, the network, the agent's noticing a
  broken connection (`AgentNotice`: not every error is one `IsClose` knows) or
  the redial. That a
  relay with a dead side ends (`RelayEnd`) is what `Relay` shows, for peers
  that read.
- `Relay`: both copies run, and peers read what they are sent. The code sets
  no write deadline, so a peer that neither reads nor breaks does hold a relay.
- `PipeDeadline`, `Pipe`: goroutines inside a call run; callbacks that have
  started finish. `Pipe` assumes of no one that they call Read or Write.
- `SessionPool`: as long as a call, a hook or a close that has begun can go on, some
  step of one of them is taken in the end (`GoesOn`). Users need not close their
  streams, FINs need not come. `CloseReachesEverySession` is of the form `<>[]`:
  from some point on, a client that was closed has left no session open.
- `AnySession`: receive loops, `OpenStream` and closes go on (a control frame
  waits five seconds at most). Nobody is assumed to read: that the client's
  streams are read, as a relay does, is a premise of
  `ServerCloseReachesClient`, and `ClosedSessionStops` does without it.
- `MuxStream`: the accept loop and the relays run. A client need never write.
- `Listeners`: handlers, jobs and the dispatcher run; a dial ends; the far end
  answers a request or breaks. Sending on the channel `in` is strongly fair: Go
  serves blocked senders first come, first served.
- `WorkerMux`, `WorkerPair`: callbacks that are due run (the message handler, a
  frame that waits in `sendFrame` is sent or fails, a reader sees the end of its
  connection), a socket that is
  upgraded opens or never will (`NeverOpens` is then the step it takes).

## Proofs

Checked by TLAPS for every value of the constants. What a theorem assumes is
in the named ASSUMEs of the modules, which TLC evaluates in the runs: bounds
are natural numbers, callers are finitely many, `None`, `NoOne` and the like
are none of the things they stand beside; `DestinationAssumption`: lengths and
ports are natural numbers; `SocksAssumption`: logins, addresses and commands
are made of natural numbers, and an address is what `ParseAddr` makes or has a
type that nobody knows; `SsrAssumption`: lengths are natural numbers and the
head of a first Write is an address of at most 259 bytes and at most 31 bytes
more, as `getDataLength` draws it. Three theorems have a hypothesis of their
own, about lengths that come from outside and that the code does not check when
it writes them, or refuses when it reads them:

- `EndsUnderstandEachOther` is about logins of at most 255 bytes a part (`Fits`):
  `ClientHandshake` puts the length into a byte.
- `FramesAreFoundAgain` is about schemes whose sizes fit in two bytes and whose
  packet 0 has no check mark (`SchemesFit`): `writeConn` and
  `createOutboundTLSConnection` write a size as it comes from the scheme, which
  the server sends, and a mark is -1.
- `RecordsAreTaken` is about servers whose records carry 1 to 4093 bytes
  (`RepliesFit`): `Decode` of the chains refuses a length of 4096, and waits for
  more when no more than four bytes have come.

The parts that `MCParts` puts side by side have a specification of their own
each (`ListSpec`, `LruSpec`, `PadSpec`, `ShadowSpec`, `ObfsSpec`, `SsrSpec`), and
the theorems are about that: it starts from every cipher, disguise, protocol or
set of options, where the run picks some.

Each theorem follows from an inductive invariant, whose parts are named and
whose preservation has a step or a lemma per action:

- `DeadlineProofs`. `NeverClosedTwice` and `NoStaleTimer` are not inductive:
  a callback closes a channel without the mutex, and that this is safe
  depends on what every Set before has left. `IInv` adds that the mutex is
  held by exactly the Set that is inside, that no number above `made` is in
  use, that the recorded timer's callback is over exactly when the current
  channel is closed (`LiveTimerMeansOpen`), that a Set that applies has no
  timer and that one that waits waits for a timer that fired. One step per
  action; `SetApply` is split by the kind of deadline. From `IInv`:
  `TypeCorrect`, `NoPanicNoStaleTimer`, and `Refinement`: each step of `Set`
  and of the timers is a step of `Deadline` or a stutter, under
  `gen <- cancel`, `closed <- cancel \in shut`, `armed <-` the recorded timer
  can still fire. `Pipe` uses `Deadline` on the strength of this.
- `PipeProofs`. `IInv` adds to the properties that one Write is between Lock
  and Unlock (`WritesAreSerial`), that a reader that has copied and not
  answered accounts for the difference between what was taken and what was
  acknowledged (`Progress`), and that positions stay within the slice. From
  it: `TypeCorrect`, `BytesAreDeliveredOnce`, `WritesReportDeliveries`,
  `AnswersAreOwed`.
- `SessionPoolProofs`. A session is handed from party to party (a lookup, a
  dieHook, the reaper, `Close`) without anyone looking at the others, so the
  invariant says where it can be: numbers above `counter` are in nobody's
  hands (a dialled session is new to all), idle and expired sessions are
  different ones, and a stream is registered before its hook is installed and
  stays so until it dies or a FIN takes it off the map (`StreamOfCall`), where it
  is in the hands of a `recvLoop` that has not ended and that closes it next:
  `CloseKillsEveryStream` says that nothing else outlives `Session.Close`. `getIdleSession` takes the session
  with the greatest number; that there is one needs a minimum of a non-empty
  set of numbers, taken from `WellFoundedInduction`.
  From it: `SessionsAreExclusive`, `CloseKillsEveryStream`.
  For `SkipList`, `ListIInv`: on every level, what follows a node is the least
  key behind it whose node is that high (`Linked`), no node is higher than
  `level` (`Capped`), a key has a value exactly when it has a node, and `len`
  counts them. What a search finds is a fixed point of a recursive function, so
  a lemma shows that a function with the closed form satisfies the recursion,
  and another that two such functions agree, by the least or greatest argument
  at which they would not. From it `ListIsAMap`, the refinement of `OrderedMap`
  (with the values that Find itself sees as the map), and `WalksTellTruth`.
- `ForwardProofs`. What holds whatever the codes are (`Control`): Links under
  way are all different, a Link is read once and dialled for once, both
  connections of a request carry the code its Link carried. What holds while
  no code is drawn twice (`Grouped`): the table holds the connection that came
  first until its partner is through, who waits alone is in the table under
  its code, a relay works on the group of its partner, and of a request that
  lost nothing one side waits exactly while the other is under way
  (`BothPending`). That distinct codes stay out of each other's way is used
  in the pairing step only: whoever is found under a code is the partner.
  From it: `ForwardTypeCorrect`, `ClientsMeetTheirAgents`, `ParkedIsExpected`.
- `AnySessionProofs`. `SettingsComeFirst`: until the settings have been read
  they are the first frame on the wire or, when that is empty, of the buffer;
  everything a client sends goes behind them.
  `FinIsLast`, an action property: on the line of a stream (the wire, and behind
  it the client's buffer) data frames come in the order of their numbers, a FIN
  stands behind those it counts and the SYN before all of them (`InOrder`). While
  a stream is open, the frames on its line are all those after the ones its
  reader has got or `recvLoop` holds (`Complete`), so that the FIN at the head of
  a line finds them read. What keeps this true of a stream that opens: before
  its SYN nothing of it was read (`Announced`), and before `OpenStream` nothing
  was written (`Causes`).
- `LinkProofs`.
  - `ConnectionHasOneOwner`: a connection is in the queue once, a goroutine
    that still serves has not closed, and what is queued or has a job was
    handed over and is open.
  - `RelayClosesLast`, an action property: where a copy is says how much of
    what it has read it must still write (`CopyAccounts`); only a copy whose
    destination was reset may be over with its buffer unwritten.
  - `PayloadsOnly`: a stream holds the header and then all payloads until the
    header is taken off, and from then on exactly the payloads between what
    has arrived and what was written; `requestWritten`, `responseRead` and the
    accept loop's place say which.
  - `LimitHolds`: the sum of a session's streams and the calls that have
    chosen it is the quantity to bound; choosing needs at most `Limit` streams
    at that moment, opening leaves the sum as it is, and the choosers are some
    of the finitely many calls.
- `WorkerProofs`. `PipesKeepOrder`: what was written and what is queued are one
  unbroken run of message numbers, and their count is the number of messages
  taken. `FirstStaysFindable`: who is between the test and its `onopen` holds
  the mutex, so that the test still holds when the entry is made.
  For `WorkerMux`, `MuxCtl` says where an id can be: announced by a SYN in the
  queue, waiting for its address, being dialled, or started, and at one of
  these only (`OneStage`), since a SYN comes once for an id (`SynOnce`) and the
  first two messages are the request and the first SYN (`QueueHead`). An id that
  is started has in `out` the data frames up to what the reader has passed on,
  and a FIN only once it is neither in `sessions` nor parked (`OutOf`).
  `ClientHearsTheRemote` follows, also for a websocket that is closed under its
  readers: nothing is sent any more, and `left` is what the last chunk misses.
  `MuxIInv` adds the data: the queue holds the pieces of a stream in order, behind
  its SYN (`Pieces`), a frame in the queue is of the stream it names and a SYN that
  waits is of a stream that is not yet dialled, or not any more (`Origin`: the
  misread SYN of `cloud.js` waits under the id 0 and takes its own stream's data
  with it), and as long as no waiting SYN has eaten a frame of another stream, what
  the server holds of a stream is its address and its first pieces and the queue
  holds the rest (`Apart`, `Pend`). `StreamsAreApart` follows.
- `PartsProofs`. `DestinationSurvives`: a way is a function of what was asked, so this is
  a lemma per codec about what it returns for any length and port, joined over
  the inbounds and outbounds. `EndsUnderstandEachOther`: by where each end
  waits, what is on the wire is exactly one of the messages it expects, or
  none (`ServerPart`, `ClientPart`); lemmas about sequences say what each end
  finds when it takes the other's message apart.
  - `RecentStays`: map and list hold the same entries, each once (`Agree`);
    the keys that lie behind a key were used since it was (`Behind`); a key that
    is gone was dropped, or made room for as many others as the cache holds
    (`Evicted`); what has expired counts as dropped (`Lapsed`). All of this of both
    caches at once, since a use of one renews entries the other shares
    (`Renewed`).
  - `FramesAreFoundAgain`: the records sent follow one another without a gap
    from the first byte (`Chained`), what is unsent begins where they end, and
    padding stands at ends of frames only (`Wasted`).
  - `SealsOpen`: what is under way between the ends is an unbroken run of
    blocks, and both counts are equal when it has been opened; an end mark is
    the only thing that shifts them (`UnderWay`).
  - `DisguiseLosesNothing`: of the writing side, which of the two callers stands
    where in `Encode` says who has the parked data and whether the head is out
    (`ObfsShape`, `ObfsWrite`); of the reading side, what was returned, what
    is left over and what arrives are one run of numbers (`ObfsRead`).
  - `RecordsAreTaken`: the client's records cover what was written under
    consecutive numbers (`UpInv`); on the server's side the first record that
    is not consumed is the one `Decode` awaits, of which less than all has come
    (`DownInv`). `Decode` takes as many records as have come in whole: a
    recursive function again, whose value for i records is stated and shown for
    every i by the least i at which it would fail.

Only model-checked:

- Liveness (`SetReturns`, `CloseReleasesEveryone`, `LinkedIsAnswered`,
  `BrokenPairIsCleared`, `CloseReachesEverySession`, `ServerCloseReachesClient`,
  `ClosedSessionStops`, `LeftIsClosed`, `OneEndEndsBoth`, `SpokenIsHeard`,
  `RemoteEndIsTold`, `LockIsPassedOn`): the prover does not handle fairness.

Every invariant a passing run checks is stated by a theorem. What recursive
functions compute (the searches of the skip list, `Decode`, running totals) is
proved for every argument by a least or a greatest counterexample, since the
induction theorems of the library, which take an operator as a parameter, cannot
be used. The type invariants of modules whose theorems rest on an invariant of
another form (`AnySession`, the workers, the parts) document the state only.

## Not modelled

- `Forward`: `/upgrade` (files), `?close`, the read-only endpoints; a panic in a
  handler ends that handler only, as net/http does it.
- `Relay` in `Forward`, `MuxStream` and `Listeners` is one step per end; its
  inside is module `Relay`.
- `AnySession`: heartbeats, received alerts, write deadlines of the connection.
  The pipe between `recvLoop` and a reader is a hand-over of whole frames.
- `MuxStream`: smux's flow control and keepalive, UDP requests.
- `wss`: a byte stream over messages of the websocket library; `rules`, which
  nothing imports; `client.go`, start-up and a client over standard input.
- Text: option, scheme and id parsing, HTTP header texts, user agents.
- Cryptography, TLS, dialling, single packets (UDP) of the proxy protocols.
- Library copies: `netip`, `structure` (mapstructure), `protobytes`, `pool`, `ca`.

## Plan

1. (done) `Forward`, `Deadline`/`PipeDeadline`, `Pipe`, `SessionPool`,
   `AnySession`, `Relay`, `MuxPool`, `MuxStream`; first theorems.
2. (done) `Listeners`, `Destination`, `SocksHandshake`, `SkipList` with
   `OrderedMap`, `LruCache`, `Padding`, `Shadow`, `SsrProtocol`, `Obfs`, and the
   workers.
3. (done) Theorems about every module: all invariants, the refinements of
   `Deadline` and `OrderedMap`, the action properties of `Relay` and `AnySession`.
4. (open) An abstract `Switch` (requests are joined to agents at most once) with
   `Forward` implementing it as long as codes differ; `IsClose` and the agent's
   read loop on it.
5. (open) The liveness properties, once a prover for them can be used here.
