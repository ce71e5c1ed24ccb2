# A TLA+ model of fq-client-go

fq-client-go is the Go client of the FQ database. A `Client` keeps a pool of TCP
connections to one server; a `ShardedClient` keeps one `Client` per server. Paths
below are relative to `src/`.

## 1. The system

| Part | Code | State | Operations |
|---|---|---|---|
| Connection pool | `conn_pool.go` | the channel `connections`, the WaitGroup, `closed` | `GetConnection`, `ReleaseConnection`, `Close` |
| Client life cycle | `client.go:113-139` | the pool | `New`, `Close` |
| Client methods | `client.go:141-724`, `inspect.go:155-186` | none | one each: write the command into a pooled buffer, take a connection, exchange, parse, release |
| Reconnect loops | `client.go:626-724`, `client.go:935-968`, `inspect.go:196-229` | `attempt` | retry after a connection error |
| TCP connection | `tcp_client.go:36-313` | the socket, `maxMessageSize`, the buffer pool | `Send`, `SendChunked`, `Stream`, `Reconnect`, `connect`, `hello` |
| Framing | `tcp_client.go:315-373` | none | `writeFrame`, `readFrameInto` |
| Sharded client | `sharded_client.go` | the shards | routing by key, `MDel`, `Scan`/`PScan`, `FlushDB`/`Truncate`, `Inspect`, streams, `NewSharded`, `Close` |
| Response parsers | `response.go`, `inspect.go:237-259` | none | one pure function per kind of answer |
| Command writers | `client.go:726-924`, `inspect.go:188-194` | none | formatting |
| Options, TLS | `options.go` | none | validation, loading certificates |
| Buffer pools | `bytes_pool.go`, `bytes_buffer_pool.go` | `sync.Pool` | `Get`, `Put` |

How they interact: a call takes a connection out of the pool, has the use of it to
itself, and puts it back in a deferred release whatever happened on the wire. The
pool does not look at the connection it gets back. A retry closes the connection,
dials, sends HELLO with the token, and writes the request again. `ShardedClient`
calls `Client` only; its streams run one goroutine per shard.

What makes it hard: calls and `Close` overlap on a channel and a WaitGroup; a
connection outlives the call that left something on it; a request that timed out
may have been applied; contexts end at any time; a page of a scan ends anywhere in
any shard; a server comes back with another message size, version or token; the
goroutines of a sharded stream race for one handler, one error
channel and one return value. `PROJECT.json` lists each hazard at its line.

## 2. Modules

| Module | Models | Steps |
|---|---|---|
| `ConnPool` | pool, `New`, `Close` | each access to shared memory by a call or by `Close` |
| `ConnLease` | what the pool promises: one owner per connection | each change of owner |
| `TCPClient` | one pooled connection, its calls, the reconnect loops, a server | each write, read, dial, handshake; each action of the server or network |
| `Connect` | options, `NewTCPClient`, `connect`, `hello`, `Reconnect`, message sizes | each dial, handshake, request; each restart of the server |
| `Frame` | `writeFrame`, `writeAll`, `readFrameSize`, `readFrameInto` | each `Read` and `Write` of the connection |
| `FrameChannel` | what framing promises: messages whole and in order | each message |
| `Response` | the parsers | (operators) |
| `Commands` | the methods of `Client`, the writers, the pool of command buffers | each use of the buffer, each answer |
| `ShardedScan` | `scan` and the cursor functions | each SCAN command |
| `ShardedCalls` | `NewSharded`, commands on one key, `MDel`, `FlushDB`, `Truncate`, `Inspect`, `Close` | each command sent to a shard, each connection opened |
| `StreamEvents` | `streamEvents`, `firstStreamError` | each access to mutex, channel, WaitGroup, context |
| `ConnPoolProofs`, `TCPClientProofs`, `ConnectProofs`, `FrameProofs`, `CommandsProofs`, `ShardedCallsProofs`, `ShardedScanProofs`, `StreamEventsProofs` | theorems (section 5) | |

`MC*` modules give constants their values. Operators whose comment begins with
"Faulty variant" are not used by any specification. Each is a plausible mistake
in the definition that follows it, with which the property named beside it in
`PROJECT.json` fails.

The modules rest on one another by assumption and guarantee. `ConnPool` shows that a
connection has one owner, so `TCPClient` makes calls one after the other. `TCPClient`
shows when an exchange ends, which is what the fairness of `ConnPool!Use` assumes, and
how `Client.stream` ends, which is what `StreamEvents` uses; that a command may be
delivered twice is what `ShardedCalls` uses. `Frame` shows that messages arrive whole
until an error strikes inside a frame, which `TCPClient` models as `skew` and `torn`.
`Connect` uses the handshake parser of `Response`.

### ConnPool

`idle` is the content of the channel, `wg` the WaitGroup's counter, `pc[p]` and
`held[p]` the place and the connection of call `p`, `cpc` the place of `Close`. Channel
operations have Go's semantics: a send blocks while the buffer is full and panics when
the channel is closed, a receive from a closed empty channel gives nil. The WaitGroup
panics when it is reused while `Wait` wakes up. `panicked` ends the program.

`QuiescentClose` is the contract under which closing is safe: `Close` is called once,
no call is inside `GetConnection` when it begins, and none starts before it returns.
Calls that hold a connection may overlap it. The repository does not state this
contract. Without it the model panics in several ways (send on a closed channel, nil
connection, reused WaitGroup, second close); the properties that hold all the same
are checked in `pool_racing`.

`ConnLease` is the abstract specification. `ConnPool!Owners` maps the slice of `New`,
the channel, the calls and the closed connections to one owner per connection, and
`ImplementsLease` says that every step of the pool is a step of `ConnLease` or
changes no owner.

### TCPClient

A request is identified by the call and by which of its writes it was. A frame carries
the request it answers, a status and a position. `skew` says that the client's read
position is inside a frame (after a partial read, or after a frame that is too large
and left unread), `torn` that it wrote part of a frame; reading or writing then gives
garbage. `ctx` is live, expired or cancelled: an expired one makes every read and write
fail because it is part of the socket's deadline, a cancelled one is only noticed by the
loops. Any read or write may also fail by itself: idle timeout, lost connection. A
handler of a stream may return an error; one that wraps `ErrConnClosed` makes
`Client.stream` reconnect and subscribe again.
A garbage read consumes one frame, which stands for whatever it would really consume.

Bounds: `MaxCalls`, `MaxChunks`, `SocketBuffer`, and `MaxBody`: a chunked call that reads
the garbage another call left may take it for chunks without end, so it stops growing
there. `MaxReconnect` is `maxReconnectAttempts`, 2 in the run. A stream's writes are
numbered 1 and 2 in turn, which tells a subscription from the one before it.

### Connect

Here frames are not lost or late; the subject is what a client keeps from one
connection to the next. `applyOptions` is an action that applies one option of the list,
so its loop is a sequence of steps; `build` yields the first error in the order of the
code. Files are good or bad. `maxMessageSize` and
the size of the pooled buffers are separate, as in the code. The server's settings
are its HELLO answer, a frame that `parseHelloResponse` parses, the tokens it
accepts and its transport; `Restart` changes them and cuts connections. A TLS client
cannot dial a plain server, and a plain client gets no HELLO answer from a TLS server.
HELLO and its answer have one size, `HelloSize`. `HelloFrames` is what a server may
answer to a token: its HELLO answer to one it accepts; without a token either that answer,
with the commands refused afterwards, or code 3000 (`integration_auth_test.go:311-323`
allows both); to a wrong token 3002 or 3003. `hello` makes `ErrAuthFailed` of 3002 only; any
other code comes back as a `ProtocolError` (`tcp_client.go:104-110`). `refusal` records the
code the server wrote, before any parsing.

### Frame

One direction of a connection. `Base` and `HeaderSize` stand for 256 and 4: with 2 and 2
a size still needs both digits of the header and can exceed it. `Power` gives the
digits their values, and `maxFramePayloadSize` is the largest number they can write. `net.Conn` takes and
yields any number of bytes. After an error the connection can be used again, as the
pool does when a context has ended; `whole` records that an error struck inside a
frame, or that a frame was refused with its payload unread. `FrameChannel` promises
nothing from then on. The server is taken to frame as the client does.

### Response and Commands

A frame or a command is a sequence of tokens: delimiters, words, and decimal numbers.
The numbers are the values around the widths the parsers use (16, 31, 32, 64 bits).
`ParseUint` accepts leading zeros, as Go does. In `Commands` two callers share the pool
of buffers: one makes every kind of call and gets every answer, the other interferes
through the buffers. Answers are all encodings of a set of values, every frame that
differs from one in a field, its delimiter or its status, errors, and answers
of other kinds. `CommandsTellApart` compares with every call over the same
arguments. Names contain no space: the code writes them as they are.

### Sharded modules

In `ShardedScan` a cursor is the list of its parts around the first separator, as
`strings.SplitN` sees it. A shard's own cursor is a position; a shard may return fewer
keys than asked, or none with a cursor that has moved (as a prefix scan does);
`OnlyWanted` picks the keys with the prefix, in order. The keys do not change during a walk.
A page of count 0 has no keys and returns whatever
cursor the first shard answered, which may be no cursor of the sharded client;
`WalkIsExact` and `WalkEnds` promise nothing of a walk that goes on from there.

In `ShardedCalls` every routing function is tried, indexes out of range included. Nobody
else writes the keys meanwhile. A command may be applied once, twice (after a retry) or,
when it fails, perhaps not at all. A shard is the set of its keys: `Incr` stands for the
commands that create an entry, `Get` for those that only read, `Del` for those that
remove one. FLUSHDB and TRUNCATE empty a shard (`integration_test.go:355-380`).
`NewSharded` opens connections one at a time.

`StreamEvents` abstracts `Client.stream` to events, a failing handler and an end of its
own. A return of nil from the closed channel is part of `Receive`; `FirstErrorReturned`
shows that it does not happen.

## 3. Runs

| Run | Shows | Bounds |
|---|---|---|
| `pool_racing` | one owner, bounded number open; implements `ConnLease` | 3 callers, pool of 2, 6 connections, any number of Closes, one after another |
| `pool_sized` | no panic, no release blocks, calls and `Close` return, `Close` closes everything | 3 callers, pool of 3, 4 connections |
| `pool_overflow` | **violated**: `Close` hangs | 2 callers, pool of 1 |
| `exchange` | HELLO first, own answers, no frames of an earlier subscription, whole bodies, bounded delivery; calls return, streams end at their deadline or when cut | 2 calls of any kind, 2 reconnects, 2 chunks |
| `exchange_stale` | **violated**: a call returns another call's answer | 2 calls |
| `connect` | requests within the server's limit, buffers that fit, transport and token as asked, `ErrAuthFailed` only for code 3002 and every other refusal as its code; the client recovers | 3 restarts, 2 reconnects, 7 server settings, 170 lists of options |
| `frame` | implements `FrameChannel`; frames written are read | 3 frames, 1 error, 2-digit header base 2 |
| `commands` | own command sent, commands told apart, answers kept, nothing invented, errors kept | 2 callers, 2 buffers, all methods |
| `scan_walk` | each key once, pages within count, cursors accepted, the walk ends | 3 shards, 6 keys, counts 0 to 3, 2 errors |
| `sharded_calls` | one database, results in input order, exact deletes, answers stand for all shards, no client left open | up to 2 shards, 3 keys, 2 operations, pool of 2 |
| `stream_fanin` | one handler at a time, errs never blocks, first error wins; return on the first error, no goroutine leaked once quiet | 3 shards |
| `stream_late_handler` | **violated**: handler entered after the return | 2 shards |

Why the bounds are enough. Three callers on a pool of two give one call too many, which
is where the pool changes its behaviour; six connections exceed the proved limit of
five. Two consecutive calls are needed for one to find what the other left, two
reconnects for a retry of a retry. Three restarts lead from a good server over one that
poisons or refuses to a good one with another limit. Three frames put a frame before and
after the one an error strikes. Two operations let one find what another left in the
shards. Two shards with keys around an empty one cover each way a page can end. Three
shards let one error be returned while a second sits in the channel and a third is on
its way.

`pool_racing` does not check for deadlock, because the blocked release of `pool_overflow`
is part of its behaviours; nor do `connect`, where a failed `NewTCPClient` is the end, and
`frame`, which ends with its last frame. The others check it.

Fairness. `ConnPool!Fairness`: goroutines that can run do run. `TCPClient!FairSpec`:
the calling goroutine runs, which includes that reads and writes end, since each has a
deadline. Nothing is assumed of dials, which have no timeout: `CallsReturn` and
`StreamEndsWhenCut` carry the premise `DialsEnd`. Nothing is assumed of the server;
`StreamEndsWhenCut` has the premise that connections do not live for ever, because a
cancelled context does not end a read. `Connect!FairSpec`: the client's code runs;
`Recovers` names what it needs of server and callers. `Frame!FairSpec`: bytes on the way
arrive, with finitely many errors.
`StreamEvents!FairSpec`: goroutines run, handlers return, a mutex is granted in
the end (Go's mutex hands over to waiters that starve), and a cancelled stream without
events ends (idle timeout). `ShardedScan!FairSpec`: the caller goes on, with
finitely many errors.

## 4. Disagreements found

* `pool_overflow`. `GetConnection` opens connections beyond the pool size, and
  `ReleaseConnection` puts all of them into a channel of that size. When more calls
  overlap than the pool has room for, a release blocks, its `wg.Done` never comes, and
  `Close` hangs. The usage shown in `README.md:6-14` has no limit on concurrent calls.
* `exchange_stale`. `sendWithReconnect` returns when the context has ended without
  closing the connection (`client.go:946-948`). The answer arrives later and the next
  call on this connection returns it as its own.
* `stream_late_handler`. `streamEvents` returns without waiting for its goroutines; the
  test at `sharded_client_test.go:256-268` reads what its handler wrote as if it did.

## 5. Proofs

Each theorem has the form `Spec => []Property` or `Spec => Abstract` and holds for every
value of the constants that satisfies the assumptions named. The runs show the same
properties on small instances; TLC also checked each inductive invariant there before
it was proved (`InStep` of `FrameProofs`, which speaks of functions on all integers, as the
equation between byte sequences that it stands for).

| Module | Theorem | States | Holds for |
|---|---|---|---|
| `ConnPoolProofs` | `TypeCorrect` | `TypeOK` | every finite set of callers, every positive pool size (`PoolAssumption`) |
| | `Ownership` | `Exclusive /\ NotShutInUse` | |
| | `OpenBounded` | `OpenBound` | |
| | `QuiescentNoPanic` | `NoPanic` | `QuiescentClose` |
| | `QuiescentCloseComplete` | `CloseIsComplete` | `QuiescentClose` |
| | `SizedReleaseNeverBlocks` | `ReleaseNeverBlocks` | `QuiescentClose`, at most `PoolSize` callers |
| | `PoolImplementsLease` | `ImplementsLease` | as above, and callers not named like a place (`CallerNames`) |
| `TCPClientProofs` | `CommandsAreAuthenticated` | `AuthenticatedFirst` | every number of calls, chunks and reconnects, whatever the server does (`TCPAssumption`) |
| | `AnswersAreOwn` | `OwnAnswer` | |
| | `FramesAreOwn` | `OnlyOwnFrames` | |
| | `RetriesAreBounded` | `AppliedPerAttempt` | |
| `ConnectProofs` | `RequestsFit` | `WithinServerLimit` | every set of servers and lists of options (`ConnectAssumption`) |
| | `FramesFitBuffers` | `BufferFits` | |
| | `OptionsAreDecisive` | `OptionsDecide` | |
| | `RefusalIsReported` | `AuthFailureReported` | whatever frames a server's settings hold |
| `FrameProofs` | `FramingImplementsChannel` | `ImplementsChannel` | every base, header width, size limit and payloads (`FrameAssumption`), so for 256 and 4 |
| `ShardedCallsProofs` | `ConnectionsAccountedFor` | `NoneLeftOpen` | every number of shards, keys and operations, every routing (`CallsAssumption`) |
| | `ShardsAreOneDatabase` | `OneDatabase` | |
| | `MDelAnswersInOrder` | `ResultsInInputOrder` | |
| | `MDelDeletesItsKeys` | `DeletesExactly` | |
| | `EveryShardAnswers` | `AllShardsAnswer` | |
| `ShardedScanProofs` | `PagesFit` | `PageWithinCount` | every number of shards, every content and set of counts (`ScanAssumption`) |
| | `WalksAreExact` | `WalkIsExact` | |
| `CommandsProofs` | `CommandsAreOwn` | `OwnCommandSent` | every set of callers, buffers and calls whose commands are token sequences (`CommandsAssumption`) |
| `StreamEventsProofs` | `HandlerIsExclusive` | `HandlerExclusive` | every finite set of shards (`StreamAssumption`) |
| | `SendNeverBlocks` | `ErrsNeverBlocks` | |
| | `FirstErrorWins` | `FirstErrorReturned` | |

None of the properties is inductive. The arguments:

**The pool.** The invariant is built in layers.

1. `TypeInv`: types, the control state (what `New` has done in each phase), and
   `WgCovers`: `wg` is at least the number of calls that owe a `Done`. Without it
   nothing keeps `wg` from going negative.
2. `Owned`: every connection is in at most one of: the slice of `New`, the channel,
   one call, the closed ones; and all were made. Gives `Ownership`.
3. `Count`: until `closed` is set the connections made are exactly those in `New`,
   in the channel, or with a call. Gives `OpenBounded`.
4. `Quiet` (with quiescent closing): `wg` is exact until `Close` has waited, and from
   then on no call is under way. Gives `QuiescentNoPanic`.
5. `Accounted`: every connection made is idle, held, with `New`, or closed. With `Quiet`
   it gives `QuiescentCloseComplete`.
6. `Sized`: with few callers exactly `PoolSize` connections exist, so an empty channel
   means `PoolSize` other holders and a full one none. Gives
   `SizedReleaseNeverBlocks`.

The refinement needs `TypeInv` and `Owned` only. `OwnerFacts` says which owner each place
gives a connection; then each action moves one connection, or none, from one place to
another, and that is a step of `ConnLease` or a stutter.

**The exchange.** `ConnControl`: while `connect` runs nothing is left of the connection
before, and outside it an open connection is one whose HELLO was accepted. That gives
`CommandsAreAuthenticated`. `RequestIds` says that all ids on the wire are of the calls
made so far, so that a new request is told from all others; `CleanCall` that a call
which found its connection clean shares it with nothing else: its request is unread,
being answered, or answered, and the chunks on their way continue those it has
appended. `Retries` counts the requests of a call that can still reach the server.

**Connecting.** `LimitAgreed`: while a connection stands the client's limit is that of
the server at its other end. `BufferAgreed`: the buffers have the size frames are checked
against. `OptionsApplied`: after k options the settings are what these k ask for, which
needs that `build` fails exactly on an unusable TLSConfig. `RefusalKnown`: a refused
HELLO leaves no connection, and `lastErr` tells of its code. It rests on what the parser
does with any frame: `RefusalRead`, a code up to `MaxErrorCode` is read as it was written,
and `RefusalWas`, a frame that is read as a refusal has its code where the server writes
one.

**Framing.** Message j of those sent, the one being written included, is ahead of the
reader as a header and a payload. `InStep`: the bytes the reader has of a frame, those on
the wire and those the writer still has are together the frames of exactly the messages
not yet delivered. A write or a read of any number of bytes moves the borders between
the three parts and not the bytes. When the header is complete it reads back as the size
that was written (`HeaderReadsBack`, an induction over the digits), so the reader takes
as many bytes as the message has. An error inside a frame makes `whole` false, from
where `FrameChannel` promises nothing.

**Sharded calls.** The invariant says how far the loop of the operation under way has
come: `ConnsAt` for `NewSharded` and `Close`, `KeyAt`, `MDelAt` (shards visited have none of
the keys left and their results are in place, the others are as they were) and `LoopAt`.
`Routed`, that a key is only on its own shard, is what lets one shard's answer stand
for the whole database.

**Sharded scan.** `Walked(i, c)` is what lies before cursor c of shard i. `Resumable`: the
caller has seen the wanted keys before the cursor it holds. `InPage`: what it has seen
and the page in progress are those before the place the loop has reached. A failed
command drops the page and leaves `Resumable` as it was. `Stray`: after a page of count 0
the caller may hold a cursor that is refused whenever it is passed back, and it has seen
what it had seen before. The end of a shard is the start of
the next (`WalkShard`), and before the end lies everything (`WalkEnd`).

**Commands.** `OneHolder`: a buffer is with one call at most, from Get to Put, and then not in
the pool. `OwnContent`: a buffer without a holder is empty, and one with a holder has
that call's command. So what Send reads, at first and after a reconnect, is the call's
own command.

**Sharded streams.** `MutexHeld`, `ErrsCounted` (each goroutine sends once, and errs is
closed after all have exited) and `FirstAtHead` (until something is received the first
error is the head of the channel, and it was sent before anything was cancelled).

Inductions over data. The induction theorems of the library take an operator, which the
provers cannot instantiate. `FrameProofs` and `ShardedScanProofs` use a form of their own
for a set of numbers (`SetInduction`: a set with 0 and all successors holds every natural
number), proved from the fact that `<` on the naturals is well founded. With it they
prove what the recursive functions `Power`, `PutUint32`, `Uint32` and `FlattenSeq` compute.

Only model-checked:

* everything under fairness (`CallReturns`, `CloseReturns`, `CallsReturn`,
  `StreamEndsWhenCut`, `Recovers`, `FramesArrive`, `WalkEnds`, `ReturnsOnFirstError`,
  `QuietShardsExit`): liveness and ENABLED are beyond the prover;
* the parsers and writers (`CommandsTellApart`, `AnswerKept`, `NothingInvented`,
  `ErrorsKept`): they compare concrete token sequences over concrete tables of words and
  numbers, which is a finite check and what TLC does.

## 6. Not modelled

Two `Close` calls that overlap: `Close` has one place, so a second one starts when the
first has returned. The struct types of an Inspect report and their json decoding, which is reduced to
decodes or does not. The accessors `Shard` and `ShardCount`. The contents of certificates
and the TLS handshake, which are library code. Memory: `scan` allocates a page for
`count` keys before any is read. Names with spaces, which the code does not
escape. The server is external: it is modelled as the client and its tests use it.

## 7. Plan

1. A composition of `ConnPool` and `TCPClient` for two callers and one shared connection,
   in which what one call leaves is found by another.
