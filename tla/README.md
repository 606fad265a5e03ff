# lib3dprnet: models, checks and proofs

lib3dprnet is a C++ library for programs that talk to a Repetier-Server (a 3D
printer host): over one websocket for requests and events, and over HTTP for
uploads. This directory holds TLA+ modules that model the library, TLC
configurations that check them on small instances, and TLAPS proofs.
File names below are relative to `src/` of the repository, so
`service.cpp` is `src/repetier/service.cpp`.

## 1. Inventory

| Part | Code | State it keeps | Operations | Used by |
|---|---|---|---|---|
| Client | `client.cpp`, `client.hpp` | `connected_`, `pending_` (callback id, handler, timer), `lastCallbackId_`, `subscriptions_`, the stream | `connect`, `send`, `close`, `subscribe`; inside: `receive`, `handle_message`, `handle_callback`, `handle_event`, `handle_error`, `handle_timeout` | Service |
| Service | `service.cpp`, `service.hpp` | `client_`, `connected_`, `pending_`, `retry_`, `queued_`, seven signals | four queries, five commands, `upload`, `on_*`; inside: `connect`, `send`, `send_next`, `handle_connected`, `handle_login`, `handle_sent`, `handle_error` | Frontend, applications |
| Frontend | `frontend.cpp`, `frontend.hpp` | `printers_`, `allPrinterData_`, `mutex_`, five signals | `requestPrinters`, `requestModelGroups`, `requestModels`, `on_*`; inside: `handlePrinters`, `handleModelGroups`, `handleModels` | applications |
| Upload | `upload.cpp`, `upload.hpp` | one coroutine; the writer's `state_`, `field_`, `file_` | `uploadModel` | Service, applications |
| Types | `types.cpp`, `types.hpp` | none | `from_json`, `to_string`, `Printer::state` | all |
| Encoding, errors | `encoding.cpp`, `error.cpp` | none | UTF-8 conversions, error codes | types, Upload |
| Logging | `logging.cpp`, `logging.hpp` | static level, output, mutex; the buffer of `localtime` | `threshold`, `output`, `log` | all |
| Portability headers, test programs | `core/*.hpp`, `filesystem.cpp`, `test/` | none | | |

**How they interact.** Everything runs on one `io_context`. A component starts
coroutines (`asio::spawn`) and timers on it and is called back by them. Service
owns one Client at a time, destroys it in its error handler and makes a new one
when the reconnect timer fires. Frontend is a Service (by inheritance), connects
slots to its signals and is called from inside the callbacks of its requests.
`Frontend::request*` may be called by other threads and lock `mutex_`, which
the io thread holds while it runs Frontend's handlers. A message passes through
Client (`handle_message`), a callback or subscription of Service, the decoders
in `types.cpp` with the conversions in `encoding.cpp`, and a signal, in one
stack of calls: an exception anywhere in it ends the receive loop. All
components log, from any thread, through static members of `Logger`.

**What is hard.**
Completions that are already queued when an object is closed or destroyed;
a five second timer racing the response; requests that outlive the
connection they were sent on, and logins that are left behind in the queue;
error handling that differs by the type of the exception; a cache that is
refreshed only by the events and answers that arrive. `PROJECT.json` lists
every hazard with its line (`hazards`) and the properties that cover it.

**What makes each part correct.**
- *Client*: a callback runs at most once, for the response to its own request;
  a request that was written ends; the error handler runs once; `close()`
  leaves nothing behind.
- *Service*: calls complete once each and in order; none is lost with a
  connection; none is sent before the login or twice on a connection; the
  service reconnects with a growing delay and in the end completes everything.
- *Frontend*: while the connection lasts whatever is stale is about to be
  refreshed; the cache converges; what the application is told, on whatever
  thread, never goes back.
- *Upload*: the body is well formed for every set of fields and every file;
  success means the whole file; the handler runs once.
- *Service on Client*: each believes of the other what it is; no handler comes
  unexpected; no assertion of `send` fails; the fairness assumed follows.
- *Messages, Types, Encoding*: handlers run in the order of what they handle and
  none is left out while the loop goes on; only ill-formed data ends it;
  different printers stay different; numbers keep their value.
- *Logging*: lines are whole and in the order of their times; tags line up.

## 2. Modules

| Module | Models | Lines stand for |
|---|---|---|
| `RequestQueue` | what Service promises the application | calls complete one at a time, in order, once |
| `ClientPromise` | what Client promises its owner | one action per handler that Service gives the client, and per call it makes |
| `Service` | `ServiceImpl`, over `ClientPromise` | one action per member function or callback |
| `ServiceProofs` | theorems about `Service` | |
| `Client` | `Client::Impl`, the handler queue of the io thread, kernel, network and server | one action per completion handler, and per completion |
| `ClientProofs` | theorems about `Client`, among them that it implements `ClientPromise` | |
| `Stack` | `ServiceImpl` over `Client::Impl`, by instances of `Service` and `Client` | one action per handler of the client, with what it calls in the service |
| `StackProofs` | theorems about `Stack`, from those about its two parts | |
| `Types` | the `from_json` functions, `Printer::state`, `encoding.cpp` | operators from JSON to outcomes: a value, an exception, undefined behaviour |
| `TypesProofs` | theorems about the conversions and the decoders | |
| `Messages` | `handle_message` with the subscriptions and callbacks of `ServiceImpl`, over `Types` | one action per message |
| `MessagesProofs` | theorems about `Messages`, from those about the decoders | |
| `Logging` | `Logger`, used by several threads | one action per step of `log()` that other threads can tell apart |
| `LoggingProofs` | theorems about `Logging` | |
| `Upload` | `uploadModel` and `upload_body::writer` | one action per wait of the coroutine and per exit of `get()` |
| `UploadProofs` | theorems about `Upload` | |
| `Frontend` | `FrontendImpl`, over the queue `RequestQueue` describes | one action per slot, and the server's side |
| `FrontendProofs` | theorems about `Frontend` | |
| `MC*` | small instances for TLC | |

The layers meet in the abstract modules: `Client` is shown to implement
`ClientPromise` (`PromiseSpec`), `Service` is written with the actions of
`ClientPromise` (`Link!Post`, `Link!Answered`, ...) and shown to implement
`RequestQueue` (`InOrderSpec`), and `Frontend` uses a queue that behaves like
it. `Stack` closes what is left between the first two: there Service runs over
Client itself, each handler of the client is one step of both, and what the
abstract layer assumed is checked (`ViewsAgree`, `FairnessJustified`).

Definitions whose comment begins with *Seeded fault* are not part of any
specification. Each is a copy of a definition with one plausible mistake in it
and is listed under `mutants` in `PROJECT.json`, with the property that must
fail when it takes the place of the original.

### State and code

`Service`: the variables up to `timer` are the members of `ServiceImpl`
(`connected`, `pending`, `retry`, `queued`, and `slots` for "the signal is not
empty"); `timer` is the `steady_timer` that `handle_error` keeps alive in its
own lambda; `client` and `inflight` are those of `ClientPromise`; `calls`,
`done`, `sent`, `faults` are history. A request is a number and a kind. The
kinds differ in what their callback does to the response: check `"ok"`
(`Checked`), decode it, or ignore it (`Unread`). An event that makes the service
send a query is `HandleEvent`; the others only forward data and change nothing,
unless they cannot be decoded (`GarbledEvent`). A slot or handler of the
application that calls the service again leaves the state that a call right
after it leaves: the front entry is still marked pending while its handler runs
(`service.cpp:258-259`), so the new request is only appended. A kind in
`Undumpable` carries a string that is not UTF-8, so `dump()` throws inside
`send` (`client.cpp:93`) and the request is never written. `upload` does not
touch the queue and is `Upload`.

`Client`: `ops` are the operations somebody waits for, `ready` the completions
the io thread has not run. `Completes` moves an operation from one to the
other, the `Handle*` actions run the head of `ready`. Destroying or closing a
socket, or destroying or replacing a timer, turns what is in `ops` into aborted
completions but does not touch `ready`: that is the contract of the library,
and the reason for most of the difficulties here. `outstanding`, `closing` and `answered`
belong to the owner. The name lookup, the TCP connection and the handshake are
one operation (`DialOp`): they are waited for one after the other and fail alike.
A request reaches the server in the step in which its write completes: the
completion of the last write is queued by the same system call, before any
response can be read.

In `Client`, `CloseEnds` and `CloseAborts` are the two ends of `async_close`:
after a read or a write failed it may end as aborted, which `handle_error`
ignores.

`Upload`: `state`, `field` and `block` are `state_`, `field_` and the position
of `file_`. A call of `get()` falls through the cases of a `switch`; the
`Get*` actions are its five ways out, and `GetFieldUndefined` is the sixth: the
result of an `operator<<` without a return statement is used
(`upload.cpp:122`), where a behaviour may end (phase `"undefined"`). The library looks at the error code
before it sends the buffer, which is why `GetFails` sends nothing although the
code falls through to the closing boundary.

`Frontend`: a list is the number of the change at the server that made it so,
0 for one the frontend has not heard of; a printer that is removed and added
again has lists of a new number. `printers_` is a set. The slug in a list of
printers is converted by `from_json` (`types.cpp:110`), that of an event or a
request is not: `ToUtf8` says what the conversion makes of each slug, the cache
has `Converted` keys, a handler looks for what it is given (`Names`), and a
query by a slug the server does not know is answered or, if it is for groups,
refused (`ServerRefuses`), which ends the connection (`HandleRefusal`). `wire` is what the server has sent: answers and events in
one sequence, for there is one connection. A list of printers makes the service
ask for two lists of every printer (`Refresh`), in the handler itself. The
request methods of other threads take two steps, for they hold `mutex_` while
they call the slots (`asking`); `told` is what the slots were given last.

`Stack`: the variables of both, without a copy. A call of `Client::send` by
`send_next` is the io thread's next step (`SendOwed`), for nothing else runs
in between; the handlers of the client are combined with the actions of
Service they call (`Handler`). A new client starts when the completions of the
old one have run: they are queued before the timer's.

`Types`, `Messages`: a JSON scalar or array is a record that names its type, an
object a function from member names. A string is the sequence of its bytes,
because what happens to bytes is the point; one that the code only compares, such as the name of an event, is
a `Word`. `Dumpable` is what `dump()` asks of a string. `Json` is the set of values that messages consist of. `delivered` are the handlers that
ran with the value each was given, `due` those that should have, `loop` what
became of the receive loop. A response meets the pending query only if it has
its callback id (`IsAwaited`); any other is dropped. The decoders keep the order in which members are
read where it decides what happens: an unknown controller id throws before a
missing temperature does, and a conversion runs (and may be undefined) before
a later member is missed.

`Logging`: `call` is how far each thread is in `log()`, `written` the pieces in
each stream. `tm` is the static buffer `localtime` returns.

### What is assumed

- One thread runs the `io_context`, once, and the application calls Service
  from it. Handlers run one at a time in the order in which they were queued, and
  `asio::spawn` runs a coroutine up to its first wait before it returns. From
  other threads only Frontend's locked methods are safe; the commands are not.
- The library completes every waiting operation of a destroyed socket or timer
  with `operation_aborted`.
- Undefined behaviour and an exception that leaves `run()` end a behaviour
  (`fate`, `loop`, `phase`). Every property of `Client`, `Frontend`, `Stack`,
  `Messages`, `Upload` and `Logging` holds up to that point; the violation runs are about reaching it.
- The owner of a client is Service: it sends one request at a time and destroys
  the client in the error handler. It may also call `close()`, which Service
  never does.
- In `Stack` the server answers each request once; late, repeated and unexpected
  responses are in `Client`.
- The clock of the logger is not set back while it runs. A pointer is read and
  written as a whole, so a racing `threshold()` takes effect or does not; after a
  race of `output()` nothing is claimed.
- In `Types` a product of doubles that should be a whole number may have been
  rounded to just below it. Whether an operator without a return statement
  returns is up to the build: both outcomes are in the model.
- The server sends answers and events in the order of what they report. Asked
  for the groups of a printer it does not have it may refuse, finitely often:
  a refusal counts as a loss in `Frontend`, and what one that never ends does is
  `RefusedIsRetriedForever` of `Service`. Otherwise it answers, for
  such a printer with an empty list, and so it always does for models, whose
  answer `request_models` does not check.
- No two slugs are converted to the same one, which is proved of the conversion
  (`RoundTrip`). That slugs are ASCII is *not* assumed, except where a property
  or a theorem says so.

## 3. Runs

| Run | Instance | Shows |
|---|---|---|
| `service` | 3 calls of 4 kinds, one refused always and one that cannot be encoded, 3 faults of all four sorts; fair | types; the front of the queue is what the client works on; login before calls; nothing lost, nothing sent twice on a connection; few logins; a delay that does not shrink; `Service` implements `RequestQueue`; calls complete and the service reconnects, unless it is stuck; a refused call is retried for ever without a delay |
| `client` | 3 requests, 3 messages, `close()` at any moment; fair | types; the assertions of `send` hold whenever the owner may send; callbacks match; pending requests are timed and end; after `close()` nothing is in flight; `Client` implements `ClientPromise` |
| `client_errors_reported` | 1 request, 1 message | *violated*, see below |
| `client_no_use_after_error` | 1 request, 1 message | *violated* |
| `client_stale_timeout` | 1 request, 1 message | *violated* |
| `stack` | 2 calls of 3 kinds, one refused always and one that cannot be encoded, 2 errors; fair | Service and Client agree; no assertion fails, no handler is unexpected and no answer meets a request it is not for; the server receives the calls in order; the fairness of Service follows from that of Client, network and server |
| `messages` | 2 messages out of some hundred | order of handlers, what ends the loop, what becomes of names, slugs, states and times; the slug of every printer can be sent back |
| `logging` | 3 threads, 3 calls, 2 levels, 2 streams, tags of 0 to 26 characters; fair | whole lines in the order of their times, tags that line up, calls that end |
| `upload_all` | 3 fields in every order, files of 0 to 3 blocks, unreadable from any block on, an error at every step | the body, the verdict and the handler |
| `frontend` | 2 printers that come and go, one whose slug is kept and one whose slug is converted into another, 2 changes, 2 losses or refusals, 2 requests on other threads; fair | what is stale is noticed, what is gone too; what the application is told never goes back; the cache and the application's view converge |
| `frontend_encoding` | 1 printer whose slug is not ASCII, 1 change, no loss | *violated* |
| `frontend_outage` | 1 printer, 2 changes, 1 loss | *violated* |

**Bounds.** `MaxCalls`, `MaxFaults`, `MaxErrors`, `MaxSends`, `MaxMessages`,
`MaxBlocks`, `MaxChanges`, `MaxLosses`, `MaxRequests`, `MaxTime` (of `Logging`)
bound the application, the adversary and the data,
never the code. Three calls are a front, a neighbour and one that is added
while the two are there; three faults leave two old logins in the queue while
a third connection fails, and let `retry` pass its first steps. Three requests
and messages allow an answer to the first while the third is pending, and
a repeated one. Two printers make one that stays beside one that changes; two
changes let one happen before the first list or between list and answers, and
one after. With three changes and one loss the properties of `frontend` were
checked once, outside the five minutes of a run, for slugs that are kept and
for a mixed pair. Three blocks are a first, a middle and a last.

In `stack`, two errors give a first connection, one that fails after the first
and one that works. `MaxSends` 5 and `MaxMessages` 7 never get in the way: a
connection sees at most three logins and two calls, and `Notifies` lets the
server send one message more than requests were sent, so there is always
room for the answers, which the fairness needs. In `messages`, two messages are
a query's response and an event, or two events in two lists; what one message
does to the next is only to end the loop or to use up the pending query.
`MaxInt`, `MaxSize` and `MaxTime` (of `Types`) are small, so that numbers on both
sides of the ranges of an `int`, a `size_t` and a duration fit a model checker's
integers; to the proofs they are any natural numbers. In
`logging`, a third thread waits while one writes and one changes the stream.

`CHECK_DEADLOCK FALSE` stands in every configuration because the bounded
environments stop, and because the code may rightly stop too: a closed client,
an ended upload.

**Fairness.** Service: the reconnect timer fires (`WF Reconnect`), a
reachable server accepts connections and answers (`WF HandleConnected`, `WF` of the
three outcomes of a response), and the client's timer fires for a client that stopped
reading (`DeafTimeout`; `PendingEnds` checks that in Client). Faults are not
fair and are bounded: progress is claimed once they stop. From a garbled reply
and from a request that cannot be dumped the service does not recover by
itself (below): the liveness properties exempt this state, `Stuck`, and
nothing else. Stack: the io thread runs, timers fire, what is sent arrives and is
answered; from this `FairnessJustified` derives the four conditions above.
Logging: every thread runs on, which makes the mutex fair enough, because calls
are bounded. Client: the io thread runs what is queued, and timers fire; reads,
writes and connections are *not* assumed to end. Upload: all steps are fair,
because the code has no timeout of its own; what a server that stops answering
does to an upload is listed as a hazard. Frontend: the service logs in, the
server answers, messages are handled, and the slots of the application return.
Losses and refusals are not fair and bounded, and `Converges` speaks of the
first connection, where none has happened.

### What the violated runs show

- `client_errors_reported`: a message that cannot be parsed or decoded ends the
  receive loop with a warning (`client.cpp:135-137`). `client.hpp:36` promises
  a call of the error handler. Events stop unnoticed; if the message was the
  response to the pending request, the service stays `pending_` for ever
  (`Service!GarbledReply`). A request that cannot be dumped (`client.cpp:93`)
  leads to the same state.
- `client_no_use_after_error`: a completion queued with success, or with an error
  other than `operation_aborted`, before the error handler destroyed the client,
  runs on the destroyed object. The owner is used as Service is
  (`ServiceSpec`: it never calls `close()`). In the trace a write fails and the read fails
  behind it; the handler of the write destroys the client (`service.cpp:296`),
  and the completion of the read is left to run.
- `client_stale_timeout`: `handle_timeout` does not compare its callback id. A
  timer that expired while the response waited in the handler queue reports a
  timeout of a request that has been answered.
- `frontend_outage`: nothing is refreshed after a reconnect, and Frontend's
  `on_reconnect_` is never fired. A printer added during an outage is therefore not in the
  cache, and the first change of one of its lists makes `at()` throw
  `std::out_of_range`, which nothing below `run()` catches.
- `frontend_encoding`: no outage is needed for a printer whose slug is not
  ASCII. Its key in the cache is the converted slug (`types.cpp:110`); an event about
  it carries the slug as it is (`client.cpp:189`, `service.cpp:241-242`), so
  does the query the event causes, and `at()` does not find its answer's
  printer.

  `AnswersFindTheirPrinter`, which both refute, is proved for where it holds:
  on the first connection, while no printer is removed (the answer about a
  removed one may still be on its way) and every slug is ASCII.

## 4. Proofs

A theorem holds for every value of the constants that the module's assumption
allows, so for any number of calls, requests, messages, faults, printers,
threads and blocks: the bounds of section 3 are constants like any other.

| Module | Proved, as consequences of `Spec` | Assumed |
|---|---|---|
| `ServiceProofs` | `TypeOK`, `FrontIsPending`, `LoginBeforeCalls`, `SentOncePerConnection`, `NothingLost`, `LoginsBounded`, `BackoffNeverShrinks`; `Service` implements `RequestQueue` | `ConstantsAssumption` |
| `ClientProofs` | `TypeOK`, `SendPrecondition`, `CallbackMatches`, `PendingIsTimed`, `ClosedIsQuiet`; `Client` implements `ClientPromise` | `ClientAssumption` |
| `StackProofs` | Service over Client implements `RequestQueue`; `ViewsAgree`, `OwedIsAccepted`, `EveryHandlerExpected`, `ServedInOrder` | `StackAssumption`: those of both |
| `LoggingProofs` | `TypeOK`, `LinesWhole`, `TagsLineUp` | `LoggingAssumption` |
| `UploadProofs` | `TypeOK`, `BodyInOrder`, `SuccessIsComplete`, and that success means every field was sent | `UploadAssumption`: the fields are finitely many |
| `FrontendProofs` | `TypeOK`; `ToldNeverOlder`; `OutdatedIsNoticed` until the first loss; `AnswersFindTheirPrinter` until the first loss if no printer is removed and no slug is changed by the conversion | `FrontendAssumption`; `~Removals` and `ToUtf8[p] = p` for the last |
| `TypesProofs` | of the operators: `FromUtf8` inverts `ToUtf8` for every string (`RoundTrip`), what `ToUtf8` returns can be dumped (`ConvertedIsDumpable`), ASCII is kept, an `int` and a `size_t` are in range, a print time is off by at most one unit, every decoder yields a value of its type or throws | `TypesAssumption` |
| `MessagesProofs` | `TypeOK`, `HandledInOrder`, `EndsForAReason`, `PrintersTold`, `PrintTimesExact` | `MessagesAssumption`, `TypesAssumption` |

Each module about a specification states an inductive invariant, `IInv`
(`Inductive` in `MessagesProofs`), that TLC checked before it
was proved; each action has a lemma that it preserves the invariant, with a
step for each part it can disturb. Facts about sequences and sets that several
steps need are lemmas of their own.

**Service.** The invariant describes the shape of the queue: some logins, then
exactly the calls that are not completed, in the order they were made, where
the completed ones are an initial segment of all calls. From the shape follow
the others: the front is a login until all logins are through, so no call can
be sent before `connected`; the entry the client works on is the front and is a
login or the oldest uncompleted call; `done` grows by the next number only,
which is the step of `RequestQueue`; what was sent on this connection is at most
the oldest uncompleted call after completed ones, in order. That logins are
bounded needs one more part, which ties them to the faults seen: every attempt
adds a login, and an attempt ends without removing it only by a fault, since a
login is not one of the kinds the server refuses for ever. The delay is the
delay of an earlier `retry`, and `RetryTimeout` is monotone.

**Client.** The invariant says how the operations in `ops`, the completions in
`ready`, the pending request and the flags belong together, for as long as the
client is of use (`~Over`): until the handshake is done there is only the dial;
there is one read, either in flight or completed; a dial, a write or a closing
handshake is in flight or completed, once; the write is that of the outstanding
request, which is the last one sent; what completes after `close()` does nothing.
An operation that is cancelled completes as aborted, so an aborted completion is
that of a timer, or of a read that the closing handshake cancelled: that is why
`handle_error` may ignore it without losing an error. The refinement goes
action by action: an action either leaves what the owner sees alone (`Aside`),
or is the action of `ClientPromise` named in its lemma. `up` and `deaf` differ
by whether the one read is there, which is what `OneRead` is for.

**Service over Client.** `StackProofs` has no invariant of its own for the two
parts: it takes the lemmas of `ServiceProofs` and `ClientProofs` by instance. By the way
`Stack` is built every step
is a step of `Service` or leaves its variables alone, and is a step of `Client`
or makes a new one, which starts as the first did. What is to be shown is that
the two fit: a handler of the client must find Service in a state that expects
it, or `Stack` would leave out what the code does. To this it adds what each
believes of the other (`Views`) and what the server received (`Received`): the
completed calls, at most the next one, and that one if it is in flight and
arrived. So what `ClientPromise` hides is shown to be harmless: the queue that
Service promises (`KeepsQueue`) is kept over the client it really uses.
A last invariant, `Fitting`, follows an answer on its way, from the server over
the wire and the completion queue to the callback: only a request that could be
encoded is ever written or received, and an answer to the outstanding one is one
of those this request can be given. With `Views` it says that no completion
reaches a service that does not expect it, and that the callback finds its
request at the front of the queue with the pending mark set
(`EveryHandlerExpected`). The property names the guard of each handler instead of
saying ENABLED, which the prover does not handle and the bounds of a run would
blur.

**Logging.** The thread that holds the mutex is the only one in the middle of a
line, in the stream in use, and no piece in any stream is later than a time
that was taken under the mutex and is still to be written. This holds until
`output()` races (`fate`); lines written before stay whole. That tags line up is
a lemma about `buildTag`, for a name that fits and for one that is cut.

**Upload.** The parts handed out are the first ones of the one whole body, as
many as the cursors of the writer say; `result = "ok"` requires the exit of
`get()` that hands out the last one.

**Frontend.** The messages on the wire are in the order of what they report.
A list of printers on the wire that is wrong about a printer is followed by one
that is right; an answer that is out of date is followed by an event, or by a
list, which makes the frontend ask again. With that `OutdatedIsNoticed` is
inductive until a connection is lost or an answer refused, when the wire is
emptied. All of this is proved for any injective conversion: a
printer is in the cache under its converted slug, and only the lists of one
whose slug the conversion changes may stay out of date, for the frontend asks
for them by a slug that is not the server's.

That the application is never told something older holds with any losses and
with printers that come and go. It needs `told = cache`, that a request thread
read under the lock what the cache still is, and `Behind`: the cache is never
ahead of an answer on the wire about a printer it knows, nor an answer of the
server. A printer that is added again has a later number than all it had before,
so it cannot be confused with its former life.

That an answer finds its printer needs more of the order of things (`Steady`):
while printers are only added, each list on the wire holds the ones before it
and the cache, and an answer about a printer, or a request for its lists, exists
only when the printer is in the cache, in a list that is on the wire before it,
or will be in the answer to an older request for the list. A connection that is lost
takes these lists along, a removal makes a later list smaller, and a converted
slug is not the one in the event: each hypothesis is needed, for TLC refutes
the property without any one of the three.

**Types.** What a conversion does to every string needs induction over data,
and the library states induction with an operator as parameter, which these
provers cannot instantiate. `TypesProofs` states it over sets instead
(`Induction`, `SeqInduction`): a set of numbers, or of strings, that contains the
first and with each the next contains all, which follows from the least
element of its complement. From this come the laws of `FlattenSeq`, which the
conversions are built of, and from those `RoundTrip`: a string is recovered from
its conversion, so different names stay different; and `ConvertedIsDumpable`:
whatever the bytes, the conversion is well-formed UTF-8. Frontend sends the
converted slug back at once, and a request that cannot be dumped would leave the
service stuck (`Stuck` of `Service`): its own refresh never does that, which is
a part of `PrintersTold`.

**Messages.** The ways a list of things done one after the other can turn out
(`Each`) are a recursive function, whose facts come by the same induction. Each
decoder yields a value of its type from well-formed data, and throws a reason
from anything else. The invariant: while the loop reads, the handlers that ran
are those that were due, each with the value its data stands for; when it has
ended they are the first of those due, and the next one had a reason to end it.
`PrintersTold` and `PrintTimesExact` follow from that and from what the decoders
do to one printer and one model.

**Only model-checked.** Everything with fairness: `EveryCallCompletes`,
`Reconnects`, `RefusedIsRetriedForever`, `PendingEnds`, `HandlerRunsOnce`,
`Converges`, `EveryCallLogged`, `FairnessJustified`: the prover does not handle
fairness. `OutdatedIsNoticed` is claimed until the first loss or refusal only: TLC
refutes it after one, and `frontend_outage` shows the effect.

## 5. Not modelled, and why

- The destructors of Service and Frontend, and uploads that outlive them: the
  reconnect timer and the upload keep raw references. Neither code nor documentation says
  when a service may be destroyed, so there is no property to check; the
  models end with the io context.
- Calls into Service from other threads: data races on `queued_` and `client_`
  have no meaning to model beyond "do not".
- Locks of the application: whether a slot that runs under Frontend's `mutex_`
  deadlocks depends on code that is not here.
- `from_json` of `Endpoint`, the names that `to_string`, `controller_name` and
  `defaultGroup` give, error codes and their texts: functions of constants that
  no control depends on. `prnet_errc::not_ok` is 0, so a slot that converts the
  code of a refusal to `bool` sees no error; the library itself never does.
- A logged argument whose `operator<<` logs again (the mutex is recursive for it).
- JSON that a model of types and members does not tell apart: objects where an
  array of events is expected, Booleans where an `int` is.
- The bytes of the multipart body, of JSON syntax and of the websocket protocol.
- The test programs are written for an older interface and are not built
  (`CMakeLists.txt:65-68`).

## 6. Plan

Done: `RequestQueue`, `ClientPromise`, `Service`, `Client`, `Stack`, `Logging`,
`Upload`, `Frontend`, `Types` and `Messages`. Every safety property that a
passing run checks is proved too.

Next: that Frontend over `Service` sees the queue it assumes, as `Stack` shows
it for Service over Client.
