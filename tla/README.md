# A TLA+ verification of zar

zar is a client/server game platform in C++11 on Boost.Asio: the server `zard`
accepts TCP connections, logs users in and lets them create games; the client
`czar` reads commands from the terminal and sends them to a server. These
modules model the communication between them, the server's lobby, the client
application, logging and the start of the server. TLC checks them on small
instances. TLAPS proves, for all values of the constants, every invariant and every
action property that TLC checks on a passing run, and the refinements between the
modules up to their fairness.

Paths below are relative to `src/src/` of the repository.

## 1. The system

| component | state | operations | talks to |
|---|---|---|---|
| sender (`modules/communication/detail/sender`) | atomic `id_`, queue `messages_`, stream buffer `send_buffer_`, the send handler | `send_action`, `send_reply`, `send_message`, `send_queue_message` and its completion | posts to the strand, writes to the stream, calls the send handler |
| receiver (`detail/receiver`) | `input_buffer_`, the receive handler | `receive`, `receive_message`, the completion of a read | posts to the strand, reads the stream, calls the receive handler, then receives again |
| acceptor, connector (`detail/acceptor`, `detail/connector`) | handlers, resolver | accept; resolve, connect, retry over the endpoints | socket, handlers |
| connection (`detail/connection`) | the protocol: `direct`, `line`, `telnet`, `basic` or `compressed` | set and get | sender, receiver, strand |
| tcp socket, file (`communication/tcp_socket`, `file`) | the parts above joined | forward; `close()` | owner's handlers |
| message (`communication/message`) | type, id, contents | encode, decode per protocol | sender, receiver |
| strand (`lib/strand`) | optional `io_service::strand` | enable, disable, `strand_execute` | io_service |
| session (`modules/lobby/session`) | `status_`, `mode_`, `id_`, socket, handlers | accept, receive, send and the three completion handlers | tcp socket, lobby, game |
| lobby (`modules/lobby/lobby`) | `sessions_`, `games_`, thread pool | run, listen, accept and receive handlers, `user`, `game_create`, `game_list` | sessions, games, reaper |
| session reaper (`modules/lobby/detail/session_reaper`) | timer, reference to `sessions_` | run, reap | erases sessions |
| game, player (`modules/game`) | id, players (pointers to sessions) | construction takes the session over; commands | session |
| client application (`czar/application`) | buffering mode, `connected_`, socket, threads | input loop, `/connect`, signal handler | file, tcp socket, logger |
| logger, module logger (`modules/logging`) | level, mode, strand | log, sync and async mode, thresholds per module | io_service |
| configuration, options (`zard/`) | two singletons: options; threads, port, reap interval | parse, create, validate, `main` | lobby, module logger |
| enums and exceptions (`lib/string/enumerate`, `lib/exception`) | none | stream operators of an enum, macros that throw | everything |

### What is hard in it

* **Threads.** `tlobby::run` starts `threads` threads on one `io_service`. The
  handlers of one session are serialised by the strand of its connection;
  those of different sessions and the reaper are not, and there is no lock
  around `sessions_` and `games_`.
* **Callbacks.** Every operation is an asynchronous one whose handler continues
  it. A handler that throws skips what is behind it; `loop` (lobby.cpp:102-113)
  swallows the exception and goes on.
* **Failure.** A write can fail half way and leaves a remainder in the buffer,
  a read fails when the peer goes or the socket is closed, `close()` itself
  throws on a socket that is not connected any more, an accept can fail.
* **Lifetime.** Sessions are erased by a timer while operations that refer to
  them can be outstanding; a strand can be deleted while tasks wait in it; a
  posted log call outlives the call that made it.
* **Bytes.** A frame arrives in pieces or together with the next one, its
  contents may look like its end, and its length prefix has 32 bits.
* **Order of start and stop.** Options before the configuration, logging in
  the right mode for the number of threads, joining threads from one of them.

### What makes the components correct

* Sender: one write at a time; no message lost, doubled, reordered or reported
  for another; ids unique up to the wrap of the counter.
* Session: one read at a time, deaf after its end, reaped only when shut.
* Lobby: always one listening session and the accepted one is the back of the
  list, ids of users and games unique, mode, id and handler in step.
* Reaper: what is reapable is reaped.
* Receiver and codec: what is encoded is decoded, framed by protocol.
* Connector: one true report for each call.
* Client: no typed line is lost, one connection and one chain of reads, an
  orderly shutdown.
* Strand: tasks of one strand are serial and in order, strands are deleted once.
* Logger: one writer, the order of each thread, nothing lost; thresholds are
  what was asked for.
* Start-up: sensible settings whatever the file says, failures are told.

## 2. Modules

| module | models | abstract of |
|---|---|---|
| `Outbox` | what a sender promises: accept, then report each message once in order | `Sender` |
| `Sender` | `tsender` with its strand and its callers | |
| `SenderProofs` | theorems about `Sender` | |
| `SessionProofs` | theorems about `Session` | |
| `Connection` | one client connection as the lobby sees it | `Session`, and each session of `Lobby` |
| `Session` | one `tsession`, its socket, chain of reads, the `Sender` it owns, and the reaper against it | |
| `Lobby` | `tlobby`, the list of sessions, login and game creation, reaper | |
| `LobbyProofs` | theorems about `Lobby` | |
| `Codec` | `tmessage`: encode and decode for each protocol, as operators over bytes | |
| `Inbox` | what a receiver promises: messages once, in order, until a loss that is told | `Receiver` |
| `Receiver` | `treceiver` with `tconnection`, its peer and the bytes between them | |
| `ReceiverProofs` | theorems about `Receiver` and the operators of `Codec` | |
| `Connector` | `tconnector`, its two nested loops over the endpoints | |
| `Client` | `tapplication`: commands, buffering, connecting, receiving; extends `Connector` | |
| `ClientProofs` | theorems about `Connector` and `Client` | |
| `Strand` | `tstrand` with its owner, its users and what asio does | |
| `StrandProofs` | theorems about `Strand` | |
| `Logger` | `tlogger` in both modes | `ModuleLogger` |
| `ModuleLogger` | `tmodule_logger` and the macros; contains `Logger` | |
| `ModuleLoggerProofs` | theorems about `ModuleLogger`, and so about `Logger` in it | |
| `Shutdown` | `run`, `loop` and the signal handler of the client; contains `Logger` | |
| `Startup` | `toptions`, `tconfiguration` and `main` of the server | |
| `ProgramProofs` | theorems about `Startup` with `Enumerate`, and about `Shutdown` | |
| `Enumerate` | the stream operators of enums and the macros that throw, as operators that `Startup` calls | |
| `MCLobby` | symmetry sets for TLC | |
| `MCReceiver`, `MCStartup` | messages at the edges of the protocols, numbers at the edges of the types | |

`Session` composes: it instantiates `Sender` with the one strand as caller and
the session's send handler as handler, one that throws when `close()` does.
`Lobby` is large enough that the insides of a connection are replaced by the
variables of `Connection`. That this is fair is checked from both sides:
`Session` implements `Connection` (`ImplementsConnection`), and what `Lobby`
does to each session is what `Connection` allows (`ImplementsConnections`).

`Client` extends `Connector`, whose variables are those of its socket, with calls
that may overlap and a handler that is set; `ModuleLogger` and `Shutdown`
instantiate `Logger`, the first adding thresholds and names around its steps, the
second deciding when its setters run and on which thread. Definitions that would
have the same name in two modules of which a third knows both carry that of their
module: `ConnectorInit`, `ShutdownNext`.

Names of variables and actions follow the source; `map` in `PROJECT.json` gives
the lines of every definition. A handler is one action as long as nobody else
can see its middle, otherwise it is split at those places, with a `pc`.

### Sender

A caller's `send_action` is entered (`SendAction`), increments the atomic
counter until it is not 0 (`IncrementId`, once per increment: the increment is
atomic, the loop of sender.cpp:43-44 is not) and posts (`Post`); `send_reply`
takes the id of the message it answers (`SendReply`). `RunSendMessage` is
`send_message` run by the strand. `WriteSucceeds` and `WriteFails` are the
completion of `async_write`: the stream took all or only a part of the buffer
(`Transfer`, `Remainder`), the front is reported (`Completed`), then the
handler returns and the next message is sent (`HandlerReturns`), or it throws
and the rest of the completion is skipped (`HandlerThrows`). `async_write`
consumes what it transferred, so the remainder of a failed write is sent ahead
of the next message: a message is in the buffer as long as one byte of it is.
`SetProtocol` may come between any two steps, and `SendQueueMessage` encodes the
front with the protocol of the moment (`Encode`): `direct` has no bytes for it,
`compressed` throws. That exception comes behind the push or the pop and ahead
of the write, so that the queue is not empty, nothing is being written, and no
message that follows is ever sent. `threw` says what threw, the send handler or
the encoding; `Outbox` calls a sender after either `jammed`.
`allocated`, `posted` and `reported` are history variables.

### Session

`status_`, `socket_`, the handler `running` on the strand, posted and outstanding
reads, and the sender's variables. `AcceptSucceeds` and `AcceptFails` are
`session_accept_handler` with the lobby's handler; `HandlerSends` and `HandlerEnds`
finish the running handler: it ends with `receive()`, which the strand runs later
(`RunReceive`). `ReadFails` sets `disconnected` and the chain of reads ends.
`WriteFails` closes the socket and sets `reapable`, or `close()` throws, in that
order. From there on the reaper, which is `Reap` on another thread, can erase the
session, so that the rest of the completion, the pop and the next write, is a step
of its own (`CompletionEnds`, with `running` "send" between the two). All it does to
the sender is in that step, because nobody but the strand sees those variables. What
handlers of an erased session would do is undefined; in the model they no longer
run.

### Lobby

`sessions_` is the list, with the listening session at its back. `SetStatus`,
`Welcome`, `Receive`, `CreateSession`, `Listen` are the lines of
`accept_handler`, each of which takes `sessions_.back()` anew. `user` is split
between its check and its set, `game_create` between check, the constructor of
`tgame` (which takes the session over and answers `OK`) and the two halves of
`push_back`, whose race is represented as a lost update. The completion of a
failed write is split behind the status it sets (`SendFails`), which the reaper
may see before the sender goes on (`SendGoesOn`). The reaper walks the
list one element per step. At most `Threads` handlers, the reaper's included,
are in progress at a time. With one thread each handler runs to its end before
another one starts; with two they interleave. A reaped session stays in the
model as `freed`.

### Receiver and codec

`Codec` has `encode()` and the decoding constructor for a byte of any base and
any values of the four letters that mean something. `AnyMessage` is what a `tmessage`
can hold; a number and its bytes in network order are converted by the weights
`Place`, a recursive function. `Receiver` starts with the
chain of reads posted, as `receive()` leaves it. `ReceiveMessage` starts a read
by protocol, `BytesArrive` is the stream: a read for a terminator takes all it
can get, one of a number of bytes no more than that. `ReceiveLength`,
`ReceiveSucceeds`, `DecodeFails` and `ReceiveFails` are the handlers; the receive
handler may throw in the call with a message and in that with an error. The
message is decoded by the protocol of the moment, and `SetProtocol` may come
between any two steps. The peer is a `tsender`; it may go at any time, with any
part of the bytes that are on their way. `taken`, `sent` are history variables.

### Connector and client

A call is `posted`, `resolving`, `connecting`, `done`. `first` is the iterator
that `asio_connect` was given, `at` the one of Asio's loop inside
`async_connect`. `Try` closes and opens the socket, which fails the attempt of
another call. `asio_connect_handler` (`ConnectFails`) advances `first`, so that
endpoint k is tried up to k times. Without a handler, an error of the resolver
falls through to a connect from the end, and the iterator moves past it:
`undefined`.

In `Client` a line typed is its number. `Execute` is one call of `execute()`,
except that `/connect` stops between its test of `connected_` and that of
`connect()`, because the connect handler runs in another strand. `thrown` is
what left `execute()`: the receiver's `receive()` is then skipped, which is
why no line is heard after it. `reads` counts reads of the socket that wait and
that failed. When the server closes the connection (`gone`) the socket stays
connected for the client, its read fails, and `connected_` stays as it was.

### Strand

Strands of Asio are numbers. `EnableOwn`, `EnableGiven`, `Disable` and
`Destroy` are the owner's; `Execute` and `ExecuteWrapped` are the two
`strand_execute`, called by any thread, also from inside a task;
`OperationEnds`, `RunStrand` and `TaskEnds` are Asio's. To use a deleted strand
sets `undefined`, after which nothing happens. The interface lets an owner call
`strand_disable` on its own and go on; the program calls it only in the
destructor of a connection. Both are steps of the model, and the history
variable `disabled` tells them apart.

### Logging

A message is its number. `Log` is the test of the threshold with the preprocessing,
`Dispatch` the test of `strand_`, `Post` its second read, `DoLog` the start of
`do_log` on whatever thread, `WriteEnds` its end with the postprocessing.
`set_sync_mode` is two steps, the delete and the assignment. `Setters` and `Logging`
restrict the use to what `logger.hpp` allows; `Shutdown` uses the steps without that
restriction, and `Post` may then find the strand deleted or null (`undefined`);
nothing is modelled after that. In `ModuleLogger` the name a call is made with is
destroyed when `log` returns (`ended`); `stale` are those read after that.

### Shutdown

Thread 0 is the main one. `SetSyncMode`, `StopService` and `Join` are the signal
handler, on the thread that happens to get it. A thread that joins itself gets a
`system_error`, which `loop` catches and logs; the threads behind it in
`threads_` are not joined, and `std::terminate` ends the program when the
application is destroyed (`Finish`).

### Startup and Enumerate

`Parse` is one turn of the loop over the arguments; `Create`, `Validate` and
`Lobby` follow, and `Catch` is the end of `main`. The file is chosen when it is
read: missing, broken, or for each number absent, junk or one of `Numbers`, and
for the level absent, empty, one of the levels or something else. A negative
number wraps the way a stream reads it into an unsigned.

`Enumerate` holds the operators of `enumerate.tpp` over the list of an enum.
`Startup` uses them where the server does: the text of the level is converted by
the input operator, whose exception leaves `create()`, and the log writes the
type of the exception that ended `main` with the output operator. `told` is what
was written.

## 3. Runs

| run | instance | question | properties |
|---|---|---|---|
| `sender` | 2 callers, 4 messages, ids modulo 3, replies to the id 2, protocols `telnet`, `direct` and `compressed`, set at any time, a handler that throws | is each message sent and reported once, in order and truly, whatever write fails, whatever throws and whoever calls? | `TypeOK`, `WriteInFlight`, `WireConservation`, `ReportConservation`, `SuccessIsOnWire`, `IdGap`; implements `Outbox` with its liveness |
| `session` | 4 messages, 5 commands | does the session keep reading just as long as it is connected, and look to the lobby like a connection, and is it shut when it is reaped? | `ReapedIsShut`, `ChainOfReads`, `ClosedComesToRest`; implements `Connection` |
| `lobby_thread` | 3 sessions, 2 of them faulty, 2 users, 2 games, 1 thread | does the server go on serving, with modes, handlers and games in step? | `TypeOK`, `ModesMatch`, `ListensAgain`, `RefusedIsReaped`; each session behaves like `Connection` |
| `lobby_threads` | 4 sessions, 1 of them faulty, 2 users, 1 game, 2 threads | what survives when handlers interleave without a lock? | `AcceptsBack`, `ListenLoop`, `Sharers` |
| `receiver` | all five protocols and 1 change between them, 2 messages out of 4 at the edges, a handler that throws | does what was sent arrive, once and unchanged, or is its loss told? | `ReadChain`, `BytesConserved`, `Delivered`, `LossIsTold`; implements `Inbox` |
| `connector` | 2 calls, 4 endpoints, with a handler and without | does every call end in one true report, in bounded tries? | `IterationBounded`, `ReportsAreTrue`, `EachCallReports` |
| `client` | 4 lines, 2 calls, 2 endpoints, 1 message of the server | what happens to what the user types? | `LinesKept`, `OnlyOverlapHarms`, `LinesExecuted` |
| `strand` | 2 threads, 2 strands of its own, 1 of another, 3 tasks | is what is executed with a strand serial, and the strand alive? | `Serialised`, `Ownership` |
| `module_logger` | 2 threads, 2 streams, 2 modules, 1 registration, thresholds trace and information, `LOG_T` and `LOG_W`, 2 messages | is what passes the threshold written, once and in order? | `WrittenInOrder`, `DispatchedIsWritten`; implements `Logger` |
| `module_logger_names` | the same with 1 module | is the name of a module alive when it is written? It is not: violated | `NamesAreAlive` |
| `shutdown` | main thread and pool of 2, 2 messages | does a signal end the client, on whatever thread it is handled, as long as logging does no harm? | `OrderlyOnMain`, `ProgramEnds` |
| `startup` | up to 4 arguments, all files over 6 boundary numbers, 0 or 4 cores | what does the server start with, and how does it end when it cannot? | `ServesAsAsked`, `EndsAsAsked`, `ReadsBack` |

The properties are stated, with the code they are about, at the end of each
module. Where several conjuncts answer one question they are one property, and
that of a module without a `TypeOK` of its own in the list includes it.

### Bounds

* `MaxSends` (messages over one connection): four messages cover a write with a
  remainder, a message encoded behind it, one waiting and one posted at a time.
  In `receiver` two: a frame with the next one behind it in one read, and the
  two ends of a terminator in two reads.
* `IdModulus` stands for 2^32. With 3 the counter wraps inside a run, with two
  callers between the increments of its loop. 8 in `session`, where ids play no
  part and must not wrap.
* `ReplyIds`: the last id, which comes before 0.
* `Protocols`: one that has bytes, which `line` and `basic` are like, the one that
  has none and the one that throws. The server sets none, so that `session` has
  the first only.
* `MaxCommands`: more than the sender can answer, so that reads go on in every
  state of the sender.
* `Sessions`: one more than clients, for connections are accepted while there
  is a session left to create. Three clients in `lobby_threads` are one more than
  the threads, which is what `Sharers` needs to say something.
* `Faulty`: the sessions whose connection can fail. Two in `lobby_thread`, so that
  one is reaped while the other, or the reliable one, is in use; one in
  `lobby_threads`, where the question is what handlers do to each other.
* Symmetry is used in `lobby_threads` only, which checks invariants.
* `Base` (values of a byte) and `WordBytes` (bytes of a word): 3 and 2, so that a
  length prefix has 9 values and 8 is the longest frame that fits. LF, CR and the
  letter A have the three values, and R shares that of LF: contents, ids and
  lengths collide with terminators and types as often as they can. The messages
  of `MCReceiver` are an empty one, the longest that fits, one that is a byte too
  long, and one with a terminator in its contents.
* `Endpoints`: four have a first, a last and two in between, for both loops; two
  in `client`, which is not about them.
* `Calls`: two, the second of which is the one too many.
* `MaxTyped`: four lines hold `/start`, a line, `/end` and a `/connect` or one
  line more.
* `MaxCreated` and `MaxTasks` of `strand`: a strand, the one that replaces it,
  one task running, one behind it and one posted from inside the first.
* `MaxLogged`: one message in a call and one in the queue or being written.
* `Thresholds` and `Letters`: a level below a threshold and one at it, among them
  the macro whose level is not that of its name.
* `PoolSize` (4 in the code): with 2 the signal is handled by the main thread,
  by the first of the pool, which has one to join behind itself, or by the last,
  which has one before itself.
* `UnsignedMax`, `ShortMax` stand for the bounds of the types, in their order,
  and the numbers of the file are -1, 0, 1, the bound of the port and one more, and
  one more than the bound of the others.
* `MaxArguments`: four hold `-h`, `-f` and the two files that are one too many.

### Deadlock

It is checked in `Lobby`, which goes on for ever. All other instances end: their
messages are sent, their calls made, their bounds reached, the program has
terminated, or the behaviour is undefined.

### Fairness and why

* Running handlers and posted calls proceed (weak fairness): `loop` calls
  `run()` for ever, also after an exception.
* A started write ends, with or without an error, when the peer reads, leaves,
  or its host stops answering. A read need not end, except on a socket that was
  closed, where Asio aborts it.
* The reaper's timer expires. With all threads busy it has to wait, but the
  `io_service` serves its handlers in order of arrival: strong fairness of
  `ReaperWakes` in `Lobby`.
* In `Receiver` bytes that were written arrive, unless the connection is lost; in
  `Connector` resolving and connecting end, if need be by a timeout of the
  system. The client's server need neither send nor close.
* In `Logger` and `Shutdown` each thread goes on with what it is in, some thread
  runs what is posted, and a signal that was raised is delivered. That the main
  thread joins or is joined is not assumed: a thread waits for another to be
  `done`.
* No fairness for clients: they need not connect, send or leave.
* That the loop around the id counter ends is not claimed beyond what the
  number of messages bounds: in principle the increments of one caller could
  all hit 0.

## 4. Proofs

### The sender

`SenderProofs` proves, for every set of callers, every `IdModulus >= 2`, any
`ReplyIds` within the ids, any number of messages, handlers that throw or not and
any protocols, all six safety invariants of `Sender`, and that it implements the
safety of `Outbox`. Assumptions: `IdModulusAssumption`, `ReplyIdsAssumption` and
`ProtocolsAssumption`, by which `telnet`, that a connection starts with, is one of
them.

* `TypeCorrect`, `OneWriteAtATime`: `TypeOK` is not inductive alone: a
  completion takes the front and the tail of the queue, which needs that a
  write implies a message. `TypeInv` adds `WriteInFlight` and that a message
  for which the handler or the encoding threw stays at the front (`FrontStays`).
* `ReportsInOrder`: `ReportConservation` with `TypeInv`. A completion moves the
  front from the unreported to the reported messages (`MoveFront`); running
  `send_message` moves it from the strand to the queue.
* `NothingLost`: `WireConservation` with `TypeInv`. What a write takes and what
  it leaves are the buffer (`TransferKeeps`); the next message moves from the
  waiting ones to the buffer (`CompletionMoves`), unless its encoding throws, and
  then it goes on waiting at the front.
* `SuccessMeansWritten`: both conservations give the posted messages as two
  concatenations. Their lengths put the last written message where the front
  is (`WrittenIsFront`).
* `IdsComeRound`: `IdGap` is strengthened to `Cyclic`: ids less than a round
  apart differ by their distance or by that less a round, and the counter is at
  the last id or past 0.
* `RestsWhenDone`: a sender that has met no exception of its handler or of
  `encode()` and has no call on its strand and no write outstanding has reported all
  that was posted, and has left on the stream or in the buffer all of it.
  `WriteInFlight` says that the queue is empty then, the two conservations the rest.
  It is what is safe in the fairness of `Outbox`.
* `ImplementsOutboxSafety`: a completion is `Report`, because the front is the
  posted message after the reported ones; a post is `Accept`; the rest
  stutters.

### The session

`SessionProofs` proves, for any number of messages and commands and every
`IdModulus >= 2`, what `session` checks apart from liveness, and it carries the
theorems of the sender over. Assumptions: `IdModulusAssumption` and
`MaxCommandsAssumption` of `Session`.

* `SendsAsSender`: every step of the session is one of `Sender` with the strand as
  its one caller, or leaves the sender's variables alone.
* `SessionIsToldTheTruth`: hence the invariant behind `SuccessMeansWritten` holds
  of a session (`SendingHolds`). `SessionProofs` instantiates `SenderProofs`, whose
  copy of the actions is shown to be that of `Session` first (`SameStep`).
* `OneChainOfReads`, `OnlyShutIsReaped`: `ChainOfReads` counts the links of the
  chain, and every action moves one link or ends it. It is inductive together
  with `TypeOK`, `OpenedFirst` (nothing is asked of a socket before the connection
  is there, and an accept handler that runs is one of a connected session) and
  `ReapableIsShut` (a session is reapable after its socket was closed or before it
  was opened). The latter two give `ReapedIsShut`: what is destroyed never had a
  connection, or its socket was closed and its accept handler is over. More is not
  true: the reaper can be between the two steps of a failed write.
* `SessionIsConnection`: each action of the session is one of `Connection` or
  changes nothing of what the lobby sees. The mouth needs the sender's invariant:
  that a completion finds a message, and that nothing is written once a handler
  threw, make a completion one of a busy mouth (`SenderState`). The ears need
  `ChainOfReads`: a failed read was the only link, so that the ears shut. This is
  the theorem that entitles `Lobby` to use `Connection` for its sessions.

### The connector

`ClientProofs` proves of `Connector`, for any set of calls that may overlap and any
number of endpoints (`ConnectorAssumption`: at least one), that endpoint `k` is
tried at most `k` times in a call and how an iterator gets past the end
(`IterationIsBounded`), and that a call has reported once when it is done and not
before (`OneReport`, the first conjunct of `EachCallReports`). That the numbers of
tries are small is not inductive; what is, is that they follow from the two
iterators: `Passed` gives the tries of an endpoint for each position of the outer
and the inner loop (`Looping`). A call that did not resolve and goes on without a
handler is apart from that (`Lost`), it tries nothing. `TryKeeps` is the one step
that all three ways to the next endpoint share, and it also covers the calls it
aborts.

`HandlerHearsTheTruth` is `ReportsAreTrue`. Its invariant `OwnerInv` says that, as
long as requests do not overlap, one call is active (`OneActive`), and that the
socket is connected just when that call has the result "ok" and is the call's own
from its first try on (`SocketOf`). A report then ends the only active call, so
that what it says of the socket is what the call did to it.

### The client

`ClientProofs` goes on with `Client`, for any number of lines and calls and any number
of endpoints (`ClientAssumption`: at least one line):

* `NoLineIsLost`: `LinesKept` is not inductive: a line that is sent must not overtake
  those in the buffer. `LinesInv` adds that there are none unless the client is
  buffering and connected, and `connected_` is never reset, so that what was buffered
  can be sent at `/end`. The lines in what was sent are those of its parts
  (`FlattenAppend`).
* `ClientIsConnector`: every step of the client is one of `Connector` or changes
  nothing of it. A step of `Connector` is one only as long as the behaviour is
  defined; that it always is here follows from `ConnectorInv` and the handler being
  set (`DialInv`, `IteratorsInRange`). So all that is proved of a connector holds of
  each `/connect`.
* `OnlyOverlappingHarms`: `ChainsInv` says that a call that reported started one chain
  of reads at most, and a chain has one link: a posted receive, a waiting read or a
  failed one. So there are no more links than calls that reported, however those
  overlap. `AloneInv` says where that link is as long as requests do not overlap:
  only one call can have reported then (`OneLink`), and until the server closes the
  connection a client that takes itself for connected has one, with its link on it
  (`Heeded`). It rests on `OwnerInv` of the connector. After a loss nothing of the
  kind is true (section 5).

### The start of the server

`ProgramProofs` proves of `Startup`, for any widths of the types, numbers of a file,
defaults and hardware that `StartupAssumption` allows:

* `ServerServesAsAsked`: `GetConfigures` shows that reading a number, which wraps,
  gives a number of its type, and the one that was written when that is in range.
  The invariant then says for each stage what is known: after `create` numbers of
  their types, after `validate` ones to serve with.
* `EnumsReadBack`: the lists of the enums name no two values alike
  (`ExceptionsDiffer`), so that a text that was written is read as the value it was
  written for.

* `ProgramEndsAsAsked`: `EndInv` adds to that what the arguments read so far decided
  (`ParseInv`: the options are those of the arguments before `next`, and no two of
  those are files), which exceptions each stage can throw (`ThrownInv`), and that
  the end was told (`EndedInv`). That a fatal message is logged needs the level
  of the file to be one of the levels, whichever one (`FatalIsLogged`).

### The end of the client

`ProgramProofs` proves of `Shutdown`, for a pool of any size:

* `EndsOrderlyOnMain`: `OrderlyOnMain` says nothing of the threads that have been joined;
  `ShutdownInv` does. One thread at most handles the signal, and it alone stops the
  `io_service` or waits for another (`SignalInv`). The threads of the pool are started
  in their order and are in `threads_` until the main thread has joined all of them
  (`PoolInv`). A thread of the pool that handles the signal never gets past itself
  (`JoinInv`).
* `CleanJustOnMain`: the program ends cleanly just when the main thread handled the
  signal: the converse of what the run checks, and the reason why the end is bad
  on any other thread.
* `NobodyWaitsForAWaiter`: while a thread joins the others, the `io_service` is stopped and
  none of the others stops it or waits. It is what is safe in `ProgramEnds`, which claims
  an end only for runs in which no log call uses the deleted strand.

### The lobby

`LobbyProofs` proves, for any finite set of sessions, any names and any number of
threads of at least one, what both runs of `Lobby` check apart from liveness.

* `LobbyTypeCorrect`, `BackIsAccepted`, `ServerListens` share one invariant,
  `LobbyInv`: the list has no session twice and none that was erased (`ListInv`);
  what each session is at each step of its handlers (`SessionInv`); and there is one
  session that listens, or one accept handler, and it is the back of the list
  (`AcceptInv`). Steps that leave the list alone change one session (`LocalStep`,
  `LocalKeeps`); the reaper takes one out of the list, and never the back one that
  waits (`ListShrinks`, `ReaperKeeps`).
* `AsManyAsThreads`: that the holders of a name are at most `Threads` is not
  inductive. `ShareInv` is: the holders of a name together with the handlers that
  passed its check and have not used it yet are at most `Threads`: for a user id
  `Claims`, for the name of a game its `Places` in the list and its `Makers`. A
  check that passes starts with no holder, and not more handlers than threads run
  (`ThreadInv`).
* `ModesAlwaysAgree`: the first two conjuncts of `ModesMatch` hold for any number of
  threads. `ModesMatchWithOneThread` adds the third, on the assumption
  `Threads = 1`, which is how it is stated and checked: `MasterInv` says that a game
  master has one game in the list or is the handler that is about to store it.
* `LobbyUsesConnections`: every step of the lobby is one of `Connection` for the
  session it is about and changes no other's. With `SessionIsConnection` this
  closes the argument of section 2: what is proved of `Session` is true of the
  sessions of the lobby.

### The strand

`StrandProofs` proves, for any threads and any number of strands and calls:

* `StrandsAreOwned`: `Ownership` becomes inductive (`OwnInv`) by saying that a pointer
  to a strand that is not owned and not another's remains only after
  `strand_disable`.
* `StrandsSerialise`: `SerialInv` has four parts. No task runs twice and no two of one
  strand run, on whatever threads (`RunningOnce`); the tasks of a queue are of its
  strand and in the order of their numbers (`QueuedInOrder`); those that began did so
  in that order (`BegunInOrder`) and before those that are queued
  (`BegunBeforeQueued`).

### The loggers

`ModuleLoggerProofs` proves, for any finite set of threads, any modules, streams and
sets of levels:

* `MessagesAreWrittenInOrder`: `WrittenInOrder`, of `Logger` within `ModuleLogger`.
  `ModeInv` is what the rules of logger.hpp for the setters come to: in synchronous
  mode only the main thread is in a call and it never gets to post, in asynchronous
  mode no thread writes itself. `PlaceInv` says that each message is in one place,
  and counts them; `OrderInv` that the messages of a thread follow each other from
  what is written over the queue to the call the thread is in, which is why a change
  of mode cannot reorder them.
* `ModuleLoggerIsLogger`: every step is one of `Logger` whose threshold is the lowest
  of those asked for. `RequestedInv` says that the levels of the modules are what
  was asked for; a step that registers a module or sets a level is a
  `SetThresholdLevel` (`SettersRefine`), the others are those of `Logger`.
* `StreamIsKept`: a message that was dispatched for a stream stays dispatched for it, or
  is written to it, whatever the stream is set to meanwhile. It is what is safe in
  `DispatchedIsWritten`.

### The receiver and the codec

`ReceiverProofs` proves, for bytes of any base, words of any length, any letters, any
messages a `tmessage` can hold and any number of them, the safety properties of
`Receiver`. The library's induction theorems are out of the prover's reach; the first
part of the module replaces them by facts about sets: a set of numbers that has
zero and the successor of each element has all (`SetInduction`), and a function
given by a start and a step exists and satisfies its equations (`Recursion`). The
facts about the recursive functions of the model are proved with those.

* Codec: `WordOfValue` and `ValueOfWord` say that the conversions of a number to
  network order and back are inverse; `LineParsed` and `BasicParsed` that decoding the
  first frame of a stream gives the message it was made of, if the protocol can
  carry it, whatever comes behind the frame; `LineFrame` and `BasicFrameOfDecoded`
  the converse, that what was decoded encodes to the bytes it was decoded from.
* `ReceivingIsAChain`: `ReadInv` adds to the chain what each kind of read wants and has
  (`ChainInv`).
* `NothingIsInvented`: `BytesInv` adds that the stream moves from the wire over the
  buffer to what was taken (`StreamInv`), and that the frames taken are those of the
  messages handed over, up to a length that was taken ahead (`FrameInv`).
* `ReceiverImplementsInbox`: `InboxInv` says that what was handed over is what the
  peer sent, up to the first message the protocol cannot carry (`Carried`). With `BytesInv`
  the bytes behind the frames handed over begin with the frame of the next message
  (`NextFrameOfStream`), which the read that completes then decodes (`HandsOver`).
* `NothingIsWithheld`: with a protocol that is not changed, a connection that stays and a
  handler that does not throw, a receiver whose read waits for bytes that are not on
  their way has handed over all that the protocol can carry. It needs one part more
  (`GotInv`: a read of a number of bytes counts all that are in the buffer); then the
  frame of the next message, if there is one (`NextFrameIsThere`), is enough for any
  read to end (`FrameIsComplete`). It is what is safe in `Delivered`.

### Only model-checked

Liveness under fairness: the fairness of `Outbox`, `ClosedComesToRest`,
`ListensAgain`, `RefusedIsReaped`, `Delivered`, `LossIsTold`, that a call reports in
`EachCallReports`, `LinesExecuted`, `DispatchedIsWritten` and `ProgramEnds`. They
need ENABLED, which the prover does not handle. `RestsWhenDone`, `NothingIsWithheld`,
`StreamIsKept` and `NobodyWaitsForAWaiter` are the parts of them that can be said
without fairness: that the system does not come to rest, or its threads to wait for
each other, in the wrong place.

`NamesAreAlive` is violated by the code, and so no theorem (section 5).

## 5. Where the code and its comments differ

One difference has a run, because it is a matter of when threads do what:

* The posted log call of a module logger has a reference to the name it was
  called with, a temporary that is gone by then (module_logger.cpp:99), while
  module_logger.hpp:132-134 promises the values stored during dispatching
  (`NamesAreAlive`). The macros give it a literal, of which the call makes the
  temporary.

The others are part of the models the way the code has them, and the properties
are stated so that they hold of it:

* Sender. `encode()` throws for the protocol `compressed`, which is not implemented
  (message.cpp:128-130; validate.tpp documents the exception). It leaves the queue of
  the sender stranded: with a message at the front, no write, and every message that
  follows waiting behind it, also when the protocol is set to another one
  (`WriteInFlight` says that only an exception does that). The program sets no such
  protocol.
* Session. A session made reapable by a failed write is set to disconnected again
  by the read that `close()` aborts, and is then never reaped (`ClosedComesToRest`
  says that it is that or reaped before). The reaper may also be faster than the rest
  of the completion that closed the socket and erase the session under it
  (session.cpp:184 ahead of sender.cpp:112-115), or under a command it had buffered:
  `ReapedIsShut` does not claim otherwise. When `close()`
  throws in the send handler the completion is cut short: the front stays in
  the queue and nothing is sent or reported on that connection again; it is the
  `jammed` mouth of `Connection`.
* Lobby. With two threads two games can get one name, and two users one id;
  `Sharers` says how far that goes: one holder per thread. The constructor of a game
  binds its `this` to the receive handler of the session (game.cpp:44-49), but it is
  that of a temporary (lobby.cpp:76) that is destroyed once it was moved into the
  list; the handler reads no member of it, so that the model shows no difference.
  A game keeps a pointer
  to a session that was erased. Disconnected sessions stay in the list, and the
  ids of clients that left stay busy. After a failed accept the server never
  listens again: `session_accept_handler` returns without calling the lobby's
  handler, whose `listen()` would follow; `ListenLoop` shows that this is the only
  way in which the server stops listening.
* Receiver. receiver.hpp:68-70 says that receiving continues as long as there is
  no error. A handler that throws ends it too: `receive()` (receiver.cpp:217)
  comes after the call of the handler (receiver.cpp:214). In the client every
  command that is refused throws, so that it is the last line that is read
  (`LinesExecuted`).
* Client. client.tex:53-54 of the design says that the last end of line of a buffer
  is not sent; it is (application.cpp:155-157). connector.hpp:73-74 asks for one
  connect request at a time, but `/connect` tests `connected_`
  (application.cpp:160), which is set only when the request has ended
  (application.cpp:229); a second one then can even fail the assertion of
  `connect()` (application.cpp:202). `OnlyOverlapHarms` shows that nothing goes
  wrong with the connection as long as requests do not overlap and the server stays.
  `connected_` is reset nowhere: after the server has closed the connection and the
  read of the client has failed, `/connect` is still refused as busy, which
  exception.hpp:52-56 says can be retried later, and lines for the server are
  accepted and go nowhere. `OnlyOverlapHarms` excepts a loss for this, and
  `LinesKept` ends at what was given to the socket.
* Strand. strand.hpp:76-77 says that code is executed directly when the strand is
  disabled; `strand_disable` leaves `strand_` set (strand.cpp:52), and a deleted one
  is used. `Ownership` shows that no harm comes of it where a connection leaves
  the disabling to its destructor, which is all the program does.
* Logging. level.hpp:77-78 says that fatal messages are always logged; one that is
  in the queue when the `io_service` is stopped is not. `LOG_W` logs at the level of
  `LOG_I` (log.hpp:188): a threshold of warning silences warnings.
* Shutdown. logger.hpp:42-43 demands the asynchronous mode while there are threads,
  and :59-63 calls logging thread-safe as long as no setter is called in that mode,
  and `tmodule_logger` a wrapper that protects it. The signal handler sets the
  synchronous mode (application.cpp:212) before it stops and joins the threads, and
  nothing protects the strand (module_logger.cpp:51-56): a log call that has tested
  `strand_` posts to one that was deleted, or to null. TLC reaches that state
  (`undefined`); `ProgramEnds` says that every run without such a call ends, and
  nothing of those with one. Handled on a thread of the pool, the signal
  ends in `std::terminate`: `OrderlyOnMain` claims an orderly end for the main
  thread only.
* `ENUM_FAIL_RANGE` never throws the `internal_failure` it is written to throw:
  formatting the message throws first.

## 6. Not modelled

* `tlobby::stop()`: nothing calls it.
* `game_list` changes nothing; its answer is one of those of `Answer`.
* Data races as such: operations on the `std::list` of sessions are atomic in
  the model, the race of two `push_back` is a lost update, explored as long as the
  game that is stored is at most one place behind the end of the list: further on
  it would bring to life whatever is there. What handlers of an erased session do
  is undefined and not explored.
* The wording of messages, the text `concatenate` and the formatting helpers
  produce, and the contents of the help text.
* `lib::tstrand` is never moved while it is in use, and `strand_enable` is
  modelled without `bad_alloc`.
* An empty file after `-f`, which the second one that follows replaces without an error.
* What follows a log call that uses a deleted strand.
* The map that numbers threads for the log (czar.cpp:107) is used without a
  lock; it has no effect a model of messages could show.
* Player: its setters are called by nobody and nothing reads its role.
* What a session that was erased with operations outstanding or in the middle of a
  completion does (`ReapedIsShut` says which sessions are erased): all of it is
  undefined, and nothing in the repository says when erasing is safe.
* The unit tests; what they call is in `Enumerate`.

## 7. State of the plan

The components of section 1 are modelled as far as section 6 says. Every invariant,
action property and refinement of the passing runs is proved for all values of the
constants that its module allows, liveness and the fairness of the refinements
excepted, which remain with TLC. One hazard has no property, the
pointer of a game to an erased session: nothing in the repository follows it.
