# Verification of deskaone-sdk

TLA+ models of the concurrent and failure-prone parts of the Go SDK, TLC
configurations that check them on small instances, and TLAPS proofs of the main
invariants for every instance. Paths below are relative to the repository.

## The system

| Part | State | Operations | What makes it hard |
|---|---|---|---|
| `network/websocket_client.go` | `isClosed`, `mu`, the TCP client, its buffered reader | `WriteFrame`, `Close`, `ReadMessage`, `Listen`, `StartPing` | five kinds of goroutine share one socket; `Close` races `ReadMessage` |
| `network/tcp_client.go` | `conn`, `isClosed` | `Read`, `Write`, `WriteFull`, `Close`, `Listen` | an error marks the client closed without closing the socket |
| `network/websocket_reconnect.go` | `client`, `reconnects`, one `done` channel per connection | `Run`, `Current`, `Close`, `SendText` | users hold connections that `Run` replaces; `select` between context and loss |
| `storage/storage.go` | the map, `Path`, `BackupPath` | `Initialize`, `Set*`, `Delete`, `Clear`, `ImportJSON`, `MergeJSON`, `RestoreFromBackup`, `save` | crashes and failing writes inside `save` |
| `database/postgres/postgres.go` | server: database, `schema_migrations`, advisory lock; pool of sessions | `Open`, `EnsureDatabase`, `Migrate` | several processes; the lock belongs to a session, statements go to any |
| `network/http_client.go` | request, attempt and redirect counters, one socket per exchange | `Do`, `DoStream` | retries around redirects around exchanges, each failing anywhere |
| `network/dialler.go`, `tls_client.go`, `handler/*` | socket, deadlines, bytes read ahead | `NewTCPClientAutoTLS` and the proxy handshakes | four dialogues, nested deadlines, bytes glued to replies |
| `network/network_stream.go` | buffer, position, length; three channels | typed reads and writes, `Append`, `Add`, `AddError`, `CloseStream`, `Listen` | strings cut anywhere; a check of `closed` and a later send |
| `emitter/emitter.go` | handlers by id | `On`, `Once`, `Off`, `Emit`, `EmitAsync` | handlers are copied under the lock and called without it |
| `debouncer/debouncer.go` | the latest timer | `Call` | a timer that expired can no longer be stopped |
| `database/engine.go`, `scheduler.go`, `migration.go`, `sqlite.go`, `base_engine.go` | pool, tables, maintenance goroutine | `Open`, `Migrate`, `Save`, `SaveBatch`, `Upsert`, `UpsertBatch`, `Load`, `Close` | settings belong to one connection; every error path of a batch; `Close` beside jobs and writers |
| `proxy`, `logger`, `termcolor` | see *Not modelled* | | |

`ReconnectWebSocketClient` runs one `WebSocketClient` at a time; `WebSocketClient`
and `HTTPClient` sit on a `TCPClient` obtained from `NewTCPClientAutoTLS`.

## Modules

| Module | Models | Correspondence |
|---|---|---|
| `WebSocketClient` | one established client | one program counter per goroutine (listener, watcher, pinger, senders, closers); `mu`, `closed` (`isClosed`), `tcpClosed`, `conn`, the bytes on the wire by frame, the server's frames |
| `ReconnectWebSocket` | `Run` and its users | `Run`'s loop step by step, the field `client`, connections numbered by dial, the Listen goroutine, done channel, `isClosed` and socket of each |
| `Storage` | `Storage` and the two files | an operation changes the map and starts `save`; `save` is four steps (open/write of backup and of Path); crash and failure between any two, and a failing read in `Initialize` |
| `PgMigrate` | `Open`/`Migrate` in several processes | a pc per call, sessions of pools, the lock with owner and depth, rows and committed effects |
| `WebSocketReader` | what a client makes of the bytes it receives | the upgrade response and the frames its `bufio.Reader` swallowed, `readWebSocketFrameWithLimit`, the loop of `ReadMessage` with its fragments; payload bytes are numbered |
| `TCPClient` | one connected client | goroutines of `Listen`, its watcher, `ReadFull`, `Write`, `Close`; one socket, one read deadline |
| `HTTPClient` | one call of `Do` or `DoStream` | the three nested loops; every outcome of dialling, writing, reading head and body |
| `HTTPBody` | reading one body | the reader `buildHTTPBodyReader` picks, token by token of the chunk framing; `MaxBodySize`; whether a decompressor notices an early end |
| `NetworkStream` | the buffer | each operation as a function from stream to stream; a sender's stream whose bytes reach a receiver's in pieces |
| `StreamEvents` | the channels | a pc per goroutine of `Add`, `AddError`, `CloseStream`, `Listen` |
| `Emitter` | one event of an `EventEmitter` | per call of `Emit` the stage of each handler it copied; `known` is the assignment to `id` in `Once` |
| `Debouncer` | `Call` and its timers | the state of each timer; time is whether the delay has passed |
| `Database` | `DatabaseEngine` on SQLite and the writes of `BaseEngine` | `Open` statement by statement, with or without `AutoMigrate`; the steps of a `Save`, `SaveBatch` or `Migrate` on the connection it holds, the maintenance goroutine, `Close` |
| `Paging` | a walk with `Load` | one query per page while rows come and go |
| `Transport` | one dial | one pc value per blocking call of `dialViaProxy`, the handlers and `NewTLSClient`; the peer's bytes as numbers |
| `Dial` | what a dial promises | abstract specification that `Transport` implements (property `DialKept`) and that the dial steps of `HTTPClient` rely on |
| `Services` | `StreamEvents`, `NetworkStream`, `Emitter`, `Debouncer` and `TCPClient` side by side | each step is a step of one of them |
| `Engine` | `Database` and `Paging` side by side | each step is a step of one of them |
| `Frames`, `Bodies` | `WebSocketReader`, `HTTPBody` | the component under names no other one uses |
| `Parts` | `Services`, `Engine`, `Frames` and `Bodies` | one part moves at a time, the others rest in an initial state |
| `Induction` | lemmas | induction over numbers, recursive functions, sequences |
| `*Proofs` | theorems | see *Proofs* |
| `MC*` | instances for TLC | constants only; `MCParts` is the instance of `Parts` |

`WebSocketClient` leaves open what a frame makes `ReadMessage` do, and
`WebSocketReader` says it; `HTTPClient` leaves open how a body ends, and `HTTPBody`
says it. `StreamEvents` and `NetworkStream` are two sides of one type: `Add` appends
to the buffer of the one and sends a copy through the channel of the other.

Payloads, texts and headers are reduced to what the properties tell apart: a frame
is its kind, a stored value is JSON, a Go value that becomes JSON, or one that
does not marshal; an HTTP error is one that `isRetryableHTTPError` accepts or not.
Choices of the network, the server, the disk and the PostgreSQL server are
nondeterministic.

## Runs

| Run | Checks | Bounds, and why they are enough |
|---|---|---|
| `ws_safety` | `FramesWhole`, `OneFrameAfterClose`, `OneLateMessage`, `SocketAccounted` | one sender with two sends, one closer, two server frames: two late frames or messages would be possible |
| `ws_cancel` | `CancelEndsGoroutines` | listener, watcher and pinger with timeouts, one server frame, a server that may stall |
| `ws_write_error` (violation) | `WriteErrorEndsListen` | one sender, no read timeout |
| `reconnect` | `DialBound`, `CurrentFresh`, `OnlyLostStayOpen`, `CallbackOrder`, `CancelReturns`, `LossIsNoticed` | one user, whose `Close` may come between any two steps, `MaxReconnects` 1, three dials allowed by the bound (one more than the code may make), one message per connection |
| `reconnect_manual_close` (violation) | `ManualCloseStays` | one user, unlimited reconnects |
| `storage` | `OneIntactCopy`, `DiskFollowsMemory`, `RecoversUnlessCut` | two keys, one value of each class, two crashes, one failing file operation; a file torn at 16 bytes or before, at a cipher block or inside one |
| `storage_recovery` (violation) | `RecoversSaved` | one crash |
| `pg_migrate` | `AppliedOnce`, `AppliedInOrder`, `OkMeansApplied`, `OneSessionExcludes`, `EveryCallReturns` | two `Migrate` calls on one pool of two sessions, or two `Open` calls with pools of one; four directories (older, newer, edited, duplicated), one loss |
| `pg_shared_pool` (violation) | `MutualExclusion` | two calls on one pool |
| `http` | `SocketsAccounted`, `RequestFollowsTrail`, `CallReturns` | one retry, two redirects, three methods, statuses 200, 301, 303, 307 |
| `transport` | `DialKept`, `TunnelGranted`, `NothingLost`, `DialReturns` | every proxy type with and without credentials, TLS and timeout; header limit of 5 tokens, reads of up to 3, two bytes of the target |
| `parts` | see the next table | one of the nine parts moves, the others rest in an initial state |

What `parts` checks of each part:

| Part | Checks | Bounds, and why they are enough |
|---|---|---|
| `WebSocketReader` | `MessagesInOrder` | three frames of every kind with 1 or 3 bytes against a limit of 2: a message of two fragments with a control frame between them, a fragment or a sum that is too long, frames behind the response |
| `HTTPBody` | `BodyExplained` | content of up to three bytes in every framing and cutting into chunks, ended after every token, one token corrupted, no limit or 2 |
| `NetworkStream` | `StringsInOrder` | three strings of up to two bytes, an int32 of two digits of base 4, receivers of capacity 0, 1, 3: the buffer grows several times and a length can be negative or above `maxFrameSize` |
| `StreamEvents` | `ChunksInOrder`, `CloseReleasesAll` | one adder, one reporter, two closers, two listeners, channel of one, two chunks: the channel is full when it is closed |
| `Emitter` | `OnceRunsOnce` | two handlers, two calls of `Emit` or `EmitAsync` |
| `Debouncer` | `LatestCallRuns` | three calls |
| `TCPClient` | `SilenceExplained`, `CancelEndsListen` | a caller each of `Close`, `Write` and `ReadFull` with a timeout, one chunk from the peer |
| `Database` | `BatchAtomic`, `SettingsStay`, `CallsReturn`, `MaintenanceStops` | six configurations (pools of one and two, file and `:memory:`, with and without `AutoMigrate` and maintenance, each with some of the kinds of call), two clients, two calls of `Close`, batches of two, one tick, one connection dropped by the pool |
| `Paging` | `WalkComplete` | four keys, pages of two, three changes between pages |

Deadlock checking is off where calls end and nothing is left to do.

**Fairness.** `WebSocketClient`: a goroutine that can run runs, a deadline passes;
the server owes nothing. Its mutex is taken eventually by whoever
waits (sync.Mutex does not starve). `ReconnectWebSocket`: `Run` and the Listen
goroutines run, and a read on a closed client returns, which takes a read timeout
when a failed write came first (`ws_write_error`); cancelling and losing a
connection need not happen. `PgMigrate`: strong fairness
per call, since PostgreSQL serves a lock queue and pgxpool its waiters; errors and
losses need not happen. `HTTPClient`: connecting and reading are under deadlines;
the request is written without one, so it is assumed that the server drains it.
`Transport`: bytes that arrived are read, deadlines pass, `net.Dialer` keeps its
timeout; nothing else. `StreamEvents`: a send, a close and a `select` that can go on
do; `select` picks a ready case at random, so the closed `errCh` does not win for
ever. `Debouncer`: time passes and an expired timer's goroutine runs. `TCPClient`:
the goroutines of `Listen` run and a `Close` that swapped `isClosed` goes on; the peer
may stay silent. `Database`: strong fairness per client and for the maintenance
goroutine, since `sql.DB` serves its waiters in order and the tickers, once stopped,
leave a bounded number of ticks to win over `stop`; nobody has to call `Close`.

## What the runs found

Runs marked *violation*, with the text they contradict in `PROJECT.json`:

- a failed write marks the TCP client closed but leaves the socket open; without a
  read timeout `Listen` never ends and nothing reconnects (`ws_write_error`);
- `ReconnectWebSocketClient.Close` is followed by a reconnect (`reconnect_manual_close`);
- a crash that cuts the write of Path inside a cipher block makes `Initialize` panic, on
  every start, and one that leaves at most 16 bytes makes it start empty; both times the
  backup is whole and not used (`storage_recovery`);
- two `Migrate` calls on one pool can both hold the advisory lock (`pg_shared_pool`).

Close relatives, which the properties of other runs name as the exceptions they
have to make:

- `OnlyLostStayOpen`: a connection that `Run` lost to a failed read has `isClosed` stored
  (`websocket_client.go:385`), so no later `Close`, neither `Run`'s nor the user's, closes
  its socket; one whose write failed stays open as well. SDK_SPEC.md:82 says "Destroy or
  close the socket on failure.";
- `SocketAccounted` of `WebSocketClient`, `SocketsAccounted` of `HTTPClient` and
  `CancelEndsListen` of `TCPClient`: the sockets that a failed read or write leaves open;
- `RecoversUnlessCut`: the two cases of `storage_recovery`, and no other;
- `SilenceExplained`: a deadline set by `ReadFull` can end `Listen` without `onError`;
- `OneSessionExcludes` and `EveryCallReturns` hold only where every call has one session
  to itself; otherwise unlock may run on another session than lock;
- `MessagesInOrder`: a pong between fragments loses the message; a connection cut
  between two fields of a frame ends `Listen` as quietly as an orderly end;
- `BodyExplained`: a body cut short by EOF is returned as complete, and an empty body
  with `Content-Encoding: gzip` is an error;
- `StringsInOrder`: a failed `ReadString` has consumed the prefix, and `ensureCapacity`
  does not return on a stream made from no bytes;
- `CloseReleasesAll`: an `Add` that waits when `CloseStream` is called is released by a panic;
- `OnceRunsOnce`: two emitters that copied a handler run it twice, and one that runs
  it before `Once` assigned `id` leaves it registered;
- `SettingsStay` holds only for a pool of one connection that is never dropped: on every
  connection but the first, foreign keys are off and a `:memory:` database is empty;
- `MaintenanceStops`: the second `Close` panics;
- `WalkComplete`: a walk by offset over a table that changes may skip or repeat rows;
- two `Open` calls may both issue `CREATE DATABASE`, of which one returns the error
  (`EnsureCreate`); a failing read of Path makes `Initialize` start empty and save over it
  (`InitializeError`), which is why the properties of `Storage` stop at the first error.

## Proofs

All theorems hold for every value of the constants that satisfies the module's
ASSUME. Each proof shows an inductive invariant (`Inv` where no other name is given) and
derives the properties. Every invariant and action property of a passing run has a theorem.

- `WebSocketProofs`: `FramesWhole`, `OneFrameAfterClose`, `OneLateMessage`,
  `SocketAccounted`, for any number of senders and closers. The properties are not
  inductive: `Inv` adds that whoever is writing holds `mu` (`Mutex`), that a
  frame is incomplete only while its writer is flushing it, or for good after a
  failed write (`Flushing`), that the close frame is written only
  by whoever swapped `isClosed` (`Closing`), that a sender past its check has not
  put a late frame out yet (`Admitted`), and that a listener that delivered a late
  message is on its way out (`LateLeaves`).
- `ReconnectProofs`: `DialBound`, `CurrentFresh`, `OnlyLostStayOpen`,
  `CallbackOrder`, for any number of users and dials. `Inv` adds that the counter
  lags behind the dials by the connection `Run` holds (`Counting`) and that every
  other connection whose Listen was started is closed (`Listening`). For the sockets,
  `Sockets` says which connections there are and that the socket of a closed one is open
  only if `ReadMessage` was the first to store `isClosed` (`Tame`).
- `StorageProofs`: `OneIntactCopy`, `DiskFollowsMemory`, `PanicNeedsNull`, and
  `RecoversUnlessCut`. `Inv` says which file holds the last
  snapshot at each step of `save` (`Intact`) and that Path follows memory before
  the first failure (`InStep`); `Recoverable` lists what a first crash can leave: a whole
  Path, or one cut off beside a backup that holds the saved store.
- `TransportProofs`: `Transport` implements `Dial` (`DialKept`), and
  `DeadlinesCleared`. `Inv` says that there is no socket before the dial and an
  open one during the handshakes and after a success; every step either moves on
  with it open, succeeds, fails and closes it, or leaves the dial alone
  (`StepOutcome`), and each of these is a step of `Dial` or a stutter
  (`OutcomeStep`). `TunnelGranted` and `NothingLost` need a second invariant,
  `TunnelInv`: between a request and the end of its answer (`Asking`) the bytes read
  and on their way are, taken together, what is left of one reply of the proxy and
  behind it the payload so far, cut only by the peer's end (`Partway`); when the dial
  is quiet nothing is on its way; and afterwards what was read, held back and is on
  its way is the payload (`Whole`). That a handler leaves exactly the payload behind
  is then a fact about each form of reply: where its header ends, how long its
  address is.
- `PgProofs`: `AppliedOnce`, `AppliedInOrder`, `OkMeansApplied`, for any number of calls
  on any pools with any losses, and `OneSessionExcludes`. `Inv` adds that whoever is
  about to commit holds the only uncommitted row of its version (`CommitsFree`) and
  that whatever a call has passed in its loop is recorded with its checksum
  (`Passed`). For the lock a second invariant (`Held`) follows the session: with one
  session per call the lock is held once, by the session of a call that took it and has
  not given it back, and until a loss whoever works holds it. `AppliedInOrder` needs
  that the insertion sort sorts, for directories of any length (`SortMigrationsSorts`):
  a round puts the migration behind the last version that is not larger (`InsertDef`),
  which adds it to the elements (`InsertRange`) and keeps them ascending
  (`InsertAscends`); the rest is induction over the rounds.
- `HTTPProofs`: `SocketsAccounted`, `RequestFollowsTrail`, and `DialBound` (at most
  `RedirectLimit + 1` connections per attempt), for all limits and methods. `Inv` adds
  that `Do` has closed the body when it decides (`Sockets`); `Counting` gives every
  earlier attempt its share of the dials.
- `ServiceProofs`, for any number of goroutines and strings of any length:
  - `ChunksInOrder` for every capacity, and that a send panics only if `CloseStream` came
    between its check and its send (`PanicNeedsOverlap`). `EventsInv` adds that one
    goroutine closes the channels (`OneCloser`);
  - `OnceRunsOnce`. `EmitInv` adds that a handler that has reached `Off` is gone unless it
    raced (`Gone`), that without a race one call at most holds it (`OneHolder`), and who
    called it (`Called`);
  - `SilenceExplained`. `TcpInv` says who may have set the deadline (`DeadlineOwned`) and
    that a client which is closed without a report has one of the quiet causes, before
    `Listen` ends as well as after (`QuietSoFar`);
  - `EarlyWasMissed`, of `Debouncer`: the action begins within the delay of a `Call` only
    in a goroutine whose timer that `Call` came too late to stop. `DebounceInv` adds that
    no timer but the latest is armed, and that an older one which has expired was missed;
  - `StringsInOrder`. `StreamInv` says that the strings written lie one behind the other
    in the sender's buffer (`Layout`), that the receiver's buffer is a stretch of it, and
    that a reader which never slipped stands behind the last string it returned
    (`InPlace`). Below it: `ensureCapacity` reaches every size by doubling
    (`DoublingEnds`, `CapacityEnsured`), and reading an int32 undoes writing it
    (`Int32OfLE`) for every base and width.

Parts of `parts` that belong to a component above are proved beside it:

- `WebSocketProofs`:
  `MessagesInOrder`. `ReaderInv` says that as long as the server keeps to the protocol
  there is a history (`Trail`): what the server had begun and finished before each frame
  that is unread. What the reader has collected and delivered is the beginning of that
  history, so each frame read moves it along by one entry.
- `HTTPProofs`:
  `BodyExplained`. `BodyInv` places the reader (`Place`): the server sent the first `k`
  tokens of a framing `w`, token `bad` corrupted, of which `c` are read (`Cuts`,
  `Left`); the reader stands at the start of a chunk, inside one or behind it
  (`InChunks`), or in an unframed body (`InPlain`), and has collected the bytes before.
  `FramedChunks` shows that the framing of every cutting into chunks is such a `w`.
- `StorageProofs`:
  `BatchAtomic` and `SettingsStay`, for every pool size and batch length. `DbInv` ties
  the rows of a batch to the step its call is at and the connection it holds. `LoneInv`
  says that a pool of one which never dropped its connection has no other, so that every
  statement gets the one Open prepared (`LoneTakes`), and in whose database the tables are.
  `WalkComplete`. `WalkInv`: by key, no row that stays and is not beyond the cursor has
  been missed; by offset over a table at rest, the rows read are the first ones. Below
  it: every finite set of keys can be listed in ascending order, in one way (`Sortable`,
  `InOrderLists`).

`ServicesSpec` and `EngineSpec` implement the specification of each of their components
(`EventsRuns`, `DbRuns`, ...), and the properties are those of the run `parts`.

Where the argument is an induction over data, the library's induction theorems cannot be
used, since they take an operator as a parameter. `Induction` states induction about sets:
every nonempty set of numbers has a least element (`LeastNat`, from the library's facts on
well-founded relations), so a set that holds 0 and every successor is `Nat` (`NatInduct`,
`UpTo`), and a recursive function on `0..n` exists and satisfies its equation
(`Recursion`). Strings, bodies, pages and migration directories of any length rest on it.

Where a module states a `TypeOK`, its proofs show it (`TypeCorrect`).

Only model-checked: all liveness (`CancelEndsGoroutines`, `CancelReturns`,
`LossIsNoticed`, `EveryCallReturns`, `CallReturns`, `DialReturns`, `CloseReleasesAll`,
`LatestCallRuns`, `CancelEndsListen`, `CallsReturn`, `MaintenanceStops`), which is outside
the prover's reach. Of `LatestCallRuns` the half that is an invariant, `EarlyWasMissed`,
is proved.

## Not modelled

- `ProxyPicker`: a pick is one atomic increment modulo the length of a fixed list, or one
  random number under a mutex; an empty list is a failed dial of `Transport`.
- HTTP heads, URLs, the text of requests, WebSocket masking, JSON and AES: pure
  conversions; what they can refuse is a choice of the models.
- The unlocked `Append` of `NetworkStream.Add`: several adders race on the fields of the
  buffer. `NetworkStream` has one user on each side.
- A server that never drains an HTTP request: `Do` writes without a deadline, and no
  property of this call would survive it.
- `database` on PostgreSQL through `DatabaseEngine`, the loading of SQL files, and the
  single-statement queries of `BaseEngine`: SQL text around one call of `database/sql`.
- `TokenStore`, proxy URLs, logger, colours, example programs: no state or pure formatting.
- The composition of `ReconnectWebSocket` with `WebSocketClient`, and of `HTTPClient` with
  `Transport`: each uses what the other promises (`ReadReturn` on a closed client returns;
  a failed dial leaves no socket, `DialKept`) instead of running both.
