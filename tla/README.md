# Formal models of beast2

TLA+ modules for the parts of this repository that carry its own logic: the HTTP
and HTTPS servers of the library (`src/src`, `src/include`) and the command line
client `burl` (`src/example/client/burl`), the largest program built on it; and the
two smaller clients with a protocol of their own, `get` and `jsonrpc`.
Everything below names source files relative to the repository, with the prefix
`src/` used in `PROJECT.json` left out.

## 1. Inventory

### The library

| part | state | operations | interacts with |
|---|---|---|---|
| `http_worker` | parser with its buffer, serializer, `route_params` (request, response, route and session data, body source and sink), type-erased read stream | `do_http_session` | router (dispatch), the worker that owns it |
| `http_server` | vector of workers, each an `http_worker` with a socket | construction, `worker::run`, `worker::do_session` | `corosio::tcp_server` accepts into a worker's socket and launches it |
| `https_server` | the same, plus one TLS stream per session | handshake, wiring, session, TLS shutdown, clean-up | the same, and `corosio::tls_stream` |
| `logger`, `log_service` | sections by name under a mutex | `get`, `get_sections` | none |
| `format`, `route_rule`, `endpoint`, `error` | none (pure) | formatting, pattern parsing, value types | none |

What is hard: a worker object is reused for connection after connection, so all
that it owns must be reset or rewired on every way out of a session; reads split
and join requests; a peer may leave at any moment; the pool is bounded and there
are no timers.  What makes it correct: nothing of one request or connection shows
in the next, streams that are used are alive and belong to the connection,
requests are dispatched in order and at most once, a worker always comes back,
and nobody starves.

### burl

| part | state | operations | interacts with |
|---|---|---|---|
| `task_group` | `max_`, list of cancellation signals, a timer used as a condition variable | `async_adapt`, `async_join`, `close`, `emit` | `co_main` waits on it, completion handlers of tasks call it |
| `co_main`, `main` | loop over URLs, exception kept for the end, signal set | start, interrupt, exit | `task_group`, `retry` |
| `retry` | retries left, back-off timer, clock | attempt, wait, give up | `perform_request` |
| `perform_request` | stream, parser, request, URL, referer, trust, redirects left, output file | connect, send, follow a redirect, reconnect, receive, clean up | `connect`, `async_request`, cookie jar, any_ostream |
| `async_request` | serializer, parser, Expect: 100-continue state, timer | write, read header, race of timer and reader | `any_stream` |
| `connect` | socket | proxy handshakes (HTTP CONNECT, SOCKS5), TLS | `any_stream` |
| `any_stream` | rate limits and what is left of them | read, write, shutdown | `perform_request` |
| `cookie_jar` | cookies, and the cookie file between runs | add, make_field, clear, save, load | `perform_request`, `co_main` |
| options | `operation_config`, TLS context, pending request patterns | `parse_args`, request generator | `co_main` calls the generator; every other part reads the configuration |
| glob | stack of generators, tokens | next URL, `interpolate` | the request generator |
| message, utils, progress meter | small or none | formatting | `perform_request` |

What is hard: all of it runs in one thread, but as many coroutines whose steps
interleave; time-outs and interrupts are delivered as cancellation and may find a
coroutine at any suspension point; a transfer may be retried or redirected any
number of times, and state set up for the first request is edited for the next.

### The other clients

| part | state | operations | interacts with |
|---|---|---|---|
| `get` | one TLS stream, used plain or secured and reconstructed; parser, serializer, redirects left | a chain of callbacks from resolve to shutdown | the servers it is redirected to |
| `jsonrpc` | one connection, HTTP parser and serializer, JSON parser, the last id | connect, call, shutdown | one server |
| `visit` | as `get` | demonstration of type-erased buffers | |

What is hard: `get` reuses a connection with the rest of an old response on it, and
decides by flag and not by type whether a stream is secured; `jsonrpc` reuses its
parsers after errors of every kind, and cannot know that the response it reads is
the one to its request.

## 2. Modules

| module | models | proofs |
|---|---|---|
| `BoundedService` | abstract: what the task group promises, with all mechanism left out | |
| `HttpServer` | `http_worker`, `http_server`, `https_server`, and `tcp_server` as they use it | `HttpServerProofs` |
| `TaskGroup` | burl's `task_group`, `co_main`, `retry`, `main` | `TaskGroupProofs` |
| `Transfer` | burl's `perform_request`, repeated by `retry` | `TransferProofs` |
| `ExpectContinue` | burl's `async_request` | `TransferProofs`, last section |
| `CookieJar` | burl's `cookie_jar` and its file, over several runs of burl | `CookieJarProofs` |
| `Dialer` | abstract: what a caller of `connect()` relies on | |
| `Connect` | burl's `connect`: rewriting, proxies, TLS | `ConnectProofs` |
| `Glob` | burl's URL patterns: generators, stack machine, `interpolate`, and a reference definition | `CommandLineProofs` |
| `CommandLine` | burl's `parse_args` and the request generator, which runs `Glob` | `CommandLineProofs` |
| `GetClient` | the get client | `GetClientProofs` |
| `JsonRpc` | the JSON-RPC client | `JsonRpcProofs` |
| `MCHttpServer`, `MCTransfer`, `MCCookieJar`, `MCConnect`, `MCCommandLine`, `MCJsonRpc` | instances for TLC: forms of request, options, URLs, Set-Cookie fields, documents | |

`TaskGroup` implements `BoundedService` (`GroupSpec`): a URL is admitted at most
once, at most `Cap` are in service, none is admitted after the service was closed.
(The servers make the same promise, but it is kept by `corosio::tcp_server`, outside
of this repository, and is therefore not a property here.)  `Connect` implements
`Dialer` (`DialSpec`), on which the step `Connect` of `Transfer` rests: the caller's
stream is replaced at the very end or not at all.  `CommandLine` refuses the
combinations of options that `ConfigsAssumption` of `Transfer` leaves out, and
composes `Glob` with the pairing of URLs, outputs and uploads.

In every module an operator with the comment "Fault:" in front of a definition is
a variant of it with a plausible mistake.  No specification uses it; it is there
to show that the properties would notice (`mutants` in `PROJECT.json`).

### HttpServer

One step is what runs between two suspension points of a worker's coroutine.
`pc[w]` is the suspension point: `idle` in the pool, `handshake` (TLS),
`reading` in `read_header`, `dispatching` in the router, `tls_shutdown`, and
`raised` when an exception has ended the coroutine.  The other functions of `w`
are the members of the worker object; `ssl` and `stream` name the connection a
TLS stream was made for, so that a reference into a stream that was destroyed can
be told from one into the present stream.  A peer's bytes are units, a header or
a body; `ReadRequest(w, k)` takes in any number `k` of those that have arrived.

| action | code |
|---|---|
| `RunPlain`, `RunTls` | `worker::run` and `do_session` up to the first suspension |
| `HandshakeDone`, `HandshakeFailed`, `TlsShutdownDone` | `https_server.cpp`, `do_session` |
| `ReadRequest`, `ReadBadTarget`, `ReadError`, `DispatchDone` | `http_worker.cpp`, `do_http_session` |
| `Handler...` | route handlers, as the server example writes them |
| `Stop` | the signal handler of the server example |
| `Connect`, `Send`, `Disconnect` | the peers |

`parser.reset()` discards what the parser has buffered; that is Boost.HTTP's
behaviour, modelled from how the loop relies on it.  Bytes of a body where a
header is expected are a read error.  A worker whose coroutine ended with an
exception stays `raised`: what the accept loop does with it is decided outside of
this repository.

### TaskGroup

burl runs in one thread, so a step is one completion handler.  `mpc` is where
`co_main` is suspended; the states `..._queued` stand for a handler in the queue
and `..._wait` for a wait on the timer `cv_`.  `css` is the list of cancellation
signals, `max` is `max_` (0 once closed), `cancelled[r]` the cancellation state of
a `retry` coroutine.  `MainStart`, `AdaptFails`, `AdaptProceeds` and `JoinResumes`
are the handlers of `co_main`; `TaskStart`, `AttemptFinal`, `AttemptRetry`,
`DelayOver` and `DelayCancelled` those of `retry`; `Signal` is the signal set in
`main`.  An attempt has an outcome; how it gets there is `Transfer`'s subject.

### Transfer

A step is what runs between two `co_await`s of `perform_request`.  A URL is its
origin, the resource a sequence of units, a response what the function looks at
(`Response`).  Connections are numbered; `held` says of which connections the
parser has bytes, `unread` that a body stands in front of the next header.
`file` outlives an attempt, everything else is set anew by `Retry`.
`ConfigsAssumption` has the combinations of options that `parse_args` refuses.
`--range` is its first unit.  A file to upload is refused at once (`Upload`), and
`AfterBody` and `Finish` are the end of the function, reached with a body that was
received or ignored.
URLs that do not parse, which fail before the output is opened, are left out.

The initialiser of `output_path` (`main.cpp` 404-421) reads the object that it
initialises.  `ResumeFrom` is therefore a choice between what the code gives if
the copy is elided and a garbage path that names no file.

### ExpectContinue

The writer chain (timer, then body) and the reader chain (header, and another one
after a 100) of `async_request`, the cancellation of the whole, and a server that
may send a 100, a final response, or nothing, and may leave.  A timer that has
expired or was cancelled has its handler queued (`timer = "queued"`) and can no
longer be stopped.  The server sends at most one 100: `async_request` would take a
second one for the final response.  After a cancellation the timer's handler, which
ignores its error code, starts the body's write all the same, and that write is not
cancelled any more.

### CookieJar

`Receive` is `extract_cookies` with `parse_cookie`'s conditions and `add`;
`Request` is `set_cookies`, and `Field(url)` what `make_field` sends; `Start`,
`Save` and `Leave` are the beginning of `co_main` (read the file,
`clear_session_cookies`) and its ends with and without writing the file.  `Line`
and `Parsed` are the two conversions of the file format: a flag is a word, no
expiry is 0 and any other one is cut to whole seconds of 32 bits, a value is not
empty, a tab ends a field, and a line with a `#` in front is a comment unless it is
`#HttpOnly_`.  The clock is finer than a second (`Second` ticks), as is what Max-Age
gives.  A run reads any set of files.  After a Set-Cookie field that is not valid
the rest of its response is skipped, which is the same as if it had not been sent.
Each cookie has the
number of the Set-Cookie field it came from (`serial`), which is history: the
properties compare what would be sent with what the server said in `log`.

Host names are sequences of labels and paths sequences of characters, since
`path_match` picks one by its index.  Both builds, with and without libpsl, are
explored.  The jar is a set: the order of its list is only that of the Cookie
field, and identical entries, which reading the same cookie from two files would
give, are not told apart; different entries of one name are.

### Connect

A step is what runs between two `co_await`s of `connect()` or of a proxy's
handshake; a request and its answer are one step.  `given` is the URL passed in,
whose host is `org_host`, and `url` what the rules of `--connect-to` and `--resolve`
make of it.  A rule of `--connect-to` is parsed (`ConnectRule`), converted to a pair of
`urls::url` (`AsUrls`) and then applied (`Redirected`).  The conversion starts from the
text of each authority, which to `urls::url` is a scheme and a path: both URLs come
out without host and port, and no rule has an effect.  `far` is where bytes written to the socket arrive: with SOCKS5 what the
proxy makes of a host with its length in one byte and a port in two.  Of a SOCKS5
reply `unread` counts the bytes still in the socket and `asked` those that
`conn_resp_tail` has room for.  Any await may fail (`AwaitFails`), which is also how
`--connect-timeout` is seen.

### Glob and CommandLine

`parse_args` awaits nothing and is one step, `Accept` or `Refuse`; the operators in
front of it, named after the members of `operation_config`, are what it computes.  An
argument is an option, its value in the form the code looks at, and whether the value
can be used at all.  Payload is a sequence of pieces with their place on the command
line, so that one that is lost, repeated or overwritten shows.  The generator then
proceeds one iteration of its loops at a time (`Return`, `Descend`, `Retreat`,
`NextPattern`) over the machine of `Glob`, whose state is the stack and the tokens of
the code.  An index of `interpolate` that `std::stoul` cannot hold throws, which ends
the loop of `co_main` (`Throw`).  A range adds modulo `Word` (2^64 in the code), a character range modulo
256 as a signed `char`.  `Enumeration` says without stack and tokens what a pattern
stands for: a product, put together from the last generator on.  `Generator` and
`PatternsAssumption` say what parsing a pattern gives, with the widths of the
closures' integers; the empty pattern, of which the code takes the front, is left out.

### GetClient

One step per callback.  `body` is what of an old response is still to be read:
`buffered` if it came with the header, `small` or `large` by the limit of 32 KB.
The redirect's body is read through the TLS stream even on a plain connection; there
only a buffered body can be read, and everything else ends in a new connection
(`Discards`).

### JsonRpc

One step per handler of `connect_op` and `request_op`.  A document is what
`request_op` looks at, with the call it really answers as history.  The server
answers in any order, late and repeatedly, but puts no wrong id on an answer.  Calls
come one after the other, as in `co_main`; after a message that was not transferred
there is no further call.

## 3. What TLC checks

| run | instance | shows | states |
|---|---|---|---|
| `https_reuse` | one TLS worker, two connections, two requests each of any form, pipelining allowed | `FreshRequestState`, `StreamIsLive`, `RequestsInOrder`, `CloseIsLast` | 2,456,682 |
| `server_pool` | a plain and a TLS worker, three connections, targets that do not parse, in front of bodies | `EndsClean` on every way out of a session | 271,488 |
| `server_liveness` | one TLS worker, two connections, two requests each, one at a time | `RequestsDispatched`, `WorkerRecovered`, `EveryoneAdmitted` | 289,346 |
| `server_pipelined` | as above, pipelining, plain | `RequestsDispatched` is violated | |
| `group` | three URLs, `--parallel-max 2`, `--retry 1`, `--fail-early`, an interrupt at any moment | `NoLostWakeup`, `NoRequestDropped`, `CancelledStops`, `GroupSpec`, `CutShortEnds`, `EverythingEnds` | 2,682 |
| `transfer` | three origins, two redirects, two attempts, a body of two units, 59 combinations of options | `NoCredentialLeak`, `RequestReachesOrigin`, `ReadsOwnResponse`, `FileIsPrefix`, `SuccessIsComplete`, `RemovedOnError`, `TransferEnds` | 211,109 |
| `expect_continue` | everything (the module has no constants) | `FinalStopsBody`, `SuccessIsFinal`, `EndsQuiet`, `RequestEnds` | 414 |
| `cookie_jar` | three URLs, fourteen forms of Set-Cookie, two cookie files, three runs of burl, two fields received, two ticks to a second, both builds | `SentInScope` and `LatestWins` over restarts, `RestoresJar` | 2,207,667 |
| `connect` | eight URLs, 67 combinations of proxy, rules and flags, every failure | `DialSpec`: `connect()` implements `Dialer`; `Authentic`, `ReplyConsumed` | 6,488 |
| `json_rpc` | three calls, four answers, nine shapes of document, plain and TLS | `OwnResult`, `CleanAfterError` | 1,115,120 |
| `get_client` | two hosts, two ports, three schemes, three redirects, any response | `RequestToOrigin`, `NothingLeftOver`, `GetEnds` | 2,046 |
| `command_line` | 53 arguments in all combinations of up to three, ten patterns in pairs with outputs and uploads | `EnumeratesPatterns`, `PayloadKept`, `GeneratorEnds` | 134,362 |

Why the bounds are enough to meet the interesting cases.  Reuse takes two
connections and one worker, and stale data two requests.  A pool takes one client
more than there is room for; for the group a third URL waits while two run, either
of which may be in an attempt, in its delay, or cancelled.  Redirects take a way
back to the first origin (two hops) and a third origin that `--proto-redir` does
not allow; a retry takes two attempts, and a partial file two units.  A cookie
takes one field to set it, one to replace or remove it, and three runs for an older
file to come back after a run that did not save, or for two files of different age
to be read together.  A connection takes every kind of proxy with rules for the host,
the port or both, in sequences of which the first one that applies is not the first; names in a SOCKS5 reply of zero to two bytes
show an error of one, and the longest host is the longest that its length byte can
hold.  For JSON-RPC an answer that is read by another call takes two calls and one
answer too many.  The conflicts of `parse_args` are between two or three options.  A
pattern takes a static part between two others, three parts that vary, parts without
any value, ranges that wrap or stand still, and one that ends just below the wrap;
`Word` is 100, so that wrapping
happens within a few steps.  With more redirects than three the get client only
repeats itself, since its state is one URL and one connection.

Deadlock is not checked where the system may stop: a server with no peers left, a
cookie jar at the bound on its runs, a JSON-RPC client at the bound on its calls, and
a command line that was refused or is exhausted, or whose generator goes on for ever
and was cut off at `MaxProduced`.

### Known disagreements

One run is expected to fail, because the code disagrees with a text of the
repository (quoted in `PROJECT.json`):

- `server_pipelined`: a second request that arrives in the same read as the first
  is dropped by `parser.reset()`; the session then waits for bytes it already had.

Others are in the models as the code has them, with the properties stated around
them:

- `rv.value()` on the error of the URL parse throws in place of answering 400
  (`http_worker.cpp` 84); the socket is not shut down.  `ReadBadTarget` ends in
  `raised`.
- After an early failure `co_main` drops the group's own exception and the
  transfer's went to a completion handler only: with `--fail-early`, "Fail on first
  transfer error, do not continue", burl exits with success (`main.cpp` 833).
- The clean-up of `--remove-on-error`, "Remove output file on errors"
  (`options.cpp` 382), knows the path the transfer began with, not the file of
  Content-Disposition that it wrote (`main.cpp` 434).  It is also set up after
  `create_request`, which refuses a URL with a user name when the output is already
  open (`main.cpp` 427).  `RemovedOnError` is about the path the transfer began with
  and URLs that are not refused; both conditions are in its formula, and the run has
  the options for which they matter.
- `--connect-to`, "Connect to host" (`options.cpp` 267), rewrites nothing, because
  its rules are converted twice (`options.cpp` 1079).  `DialSpec` says where the URL
  and `--resolve` lead, and `ConnectToIdle` is proved.
- A file to upload is accepted by `parse_args` and then always refused by
  `perform_request`, "File upload is not available" (`main.cpp` 378); and
  `--request-target` replaces the query that `--get` and `--url-query` have filled
  (`main.cpp` 66).  `PayloadKept` is about what `parse_args` stores.
- A retry of a resumed transfer appends the same range again (`main.cpp` 426).
  `FileIsPrefix` is stated for transfers without `--continue-at` and `--range`, and
  `SuccessIsComplete` of a 206 for the first attempt.
- Of a SOCKS5 reply with a domain name one byte stays in the socket: "subtract 1
  because we have pre-read one byte" (`connect.cpp` 137) is right for addresses,
  but for a name the byte that was read is its length.  `ReplyConsumed` is stated
  for addresses.
- A SOCKS5 request keeps only the lowest byte of a host's length and 16 bits of a
  port (`connect.cpp` 117, 120): a longer name or a larger port reaches another
  place.  `DialSpec` is checked for what fits.

Others have no text to disagree with: the body of a 416 with a Content-Range is
appended to the complete file; `path_match` looks at the wrong character; a cookie
with an empty value, or a tab in its path, makes the cookie file unreadable, and one
whose domain begins with `#` is lost there; dates of cookies are taken for
local time; the libpsl test is the other way round; after a redirect that came
instead of a 100 an announced body was never sent, yet the connection may be reused;
`[a-z:100]` and a step of 0 give generators that never end; an empty URL pattern
reads the front of an empty vector; `--tls-max 1.0` without `--tlsv1.0` leaves no TLS
version at all, as does `--tlsv1.3` with a lower `--tls-max`; `--limit-rate 0` stops a
transfer for good; the kinds of `--data` are joined in the order of their names and
not of the command line; `--output` and
`--upload-file` beyond the number of URLs are ignored; two concurrent calls of the
JSON-RPC client would share one serializer and both parsers.

### Fairness

- Servers: a read completes when bytes or the end of the stream are there, a
  handler returns, and a TLS operation on a connection whose peer is gone fails.
  Nothing is assumed of peers, because the servers set no timer: `WorkerRecovered`
  speaks of peers that have left, and `EveryoneAdmitted` assumes that they do.
  `OneAtATime` restricts `server_liveness` to peers that wait for each response and to
  handlers that read the body before they respond; without it the pipelining
  finding is all one sees.
- burl: queued handlers run and timers fire, since the thread runs the
  `io_context` until it is out of work.  An attempt that was cancelled ends; one
  that was not may take for ever, as `--max-time` is not set by default, and
  `EverythingEnds` therefore assumes that attempts end.
- `Transfer`: what is awaited ends, with success or not.
- `ExpectContinue`: writes end, and a server that has the whole request answers or
  leaves.
- `GetClient`: an operation that was started completes, as `ioc.run()` returns only
  then; servers that keep silent for ever are excluded, since the client sets no
  timer.
- `CommandLine`: `parse_args` returns, and `co_main` calls the generator until it is
  empty.

## 4. What is proved

The proofs are for all values of the constants, under the named assumptions of the
modules: finite sets of workers, a positive `--parallel-max`, option combinations
that `parse_args` accepts, and so on.  Every safety property that a passing run checks is
the statement of a theorem, one of them (`DialSpec`) under a hypothesis that is named
below.  Each module has an inductive invariant `IInv` with `Init => IInv` and `IInv /\ [Next]_vars => IInv'` (one step per
action), from which the theorems follow.

- **HttpServer**: `IInv` = `TypeOK` and `Ownership` (a worker has a connection
  exactly while in a session, and no two have the same one) and `Wiring` (the TLS
  stream is the connection's, and from the handshake on the session is wired to
  it) and `Cleanliness` (parser and data stores are empty outside of a dispatch).
  `StreamIsLive` is not inductive alone, since nothing in it says what the
  handshake will wire; `Wiring` says it of every suspension point.  `EndsClean`
  needs `Ownership` and `Wiring` for a worker in the pool, and `Cleanliness` for one
  whose coroutine ended with an exception.  For the order of requests `Ordered` says of each connection that
  what is on the wire is newer than what was dispatched, and the heads on the wire in
  order; for their end `Closing` says that where another request may still come, all
  before it, and all responses to them, kept the connection: a worker that does not
  keep it is in `dispatching`, and the connection is never handed to a worker again.
  Theorems: `TypeCorrect`, `RequestStateFresh`, `StreamsLive`, `SessionsEndClean`,
  `RequestsOrdered`, `NothingAfterClose`.
- **TaskGroup**: `IInv` adds to `GroupIsExact`, `NoLostWakeup` and `JoinedAtExit`
  that the group's size is bounded (`Bounded`: the size is what admission looks
  at, the number of running tasks what the property is about), that tasks are
  created in order (`InOrder`), that attempts are paid for with retries
  (`Budget`), and that whoever was cancelled or never started has a reason
  (`Reasons`, for `NoRequestDropped`).  Theorems: all safety properties of the run
  `group` and `GroupRefinesService`; and, which no run states, `ConcurrencyBounded`,
  `GroupExact`, `ClosedStartsNothing`, `RetriesBounded` and `ExitsJoined`.
- **Transfer**: `IInv` adds `AtStart`, `Trust` (a request with credentials goes to
  a trusted URL), `Routing` (the connection being reused is the right one already
  while the old body is discarded), `Budget` (requests sent, about to be sent and
  redirects left), `Written` (the output file and the units that have arrived grow
  together) and `Complete` (success already holds before the shutdown).  Theorems:
  every safety property of the run `transfer`, and `RedirectsBounded`.
  `RemovedOnError` rests on `Removed` (nothing is open at the start of an attempt).
  The part of `SuccessIsComplete` about a 206 rests on `Continued`: at the first
  attempt the file has the given length until the body comes, and then grows with it.
- **CookieJar**: `IInv` says of the jar and of the file alike that every cookie is
  still what its server sent (`Genuine`) and the last of its key (`Latest`); of
  the file, because the next run starts from it.  The lemma `ParsedLine` is that
  reading a line gives back the cookie it was written for with its expiry cut to whole
  seconds (`Cut`: less than a second earlier, never later); it needs stored expiries
  to be at least a second, so that none is written as 0, which is why `TypeOK` says so.
  Theorems: all properties of the run `cookie_jar`,
  `ExpiredNotSent` and `SessionCookiesJunked`.
- **GetClient**: `RequestToOrigin` speaks only of the callbacks that transfer a
  message.  `IInv` adds what holds before them: `secure_` and the port are the URL's
  from `do_resolve()` on (`Decided`), the stream is new until the handshake (`New`),
  and peer and name are right from the connection and the handshake on, also while
  an old body is discarded (`Connected`, `Secured`).  Theorems: `TypeCorrect`,
  `RequestsToOrigin`, `ReuseIsClean`.
- **JsonRpc**: `CleanAfterError` speaks of the time between calls.  `IInv` adds the
  states of both parsers at each suspension point of a call (`Parsers`) and that a
  call under way has an id and, in its body, a response (`Busy`).  `OwnResult` rests
  on the lemma `ResultIsOwn`: a document for another id never gives a result.
  Theorems: `TypeCorrect`, `ResultsAreOwn`, `ErrorsLeaveClean`.

- **Connect**: `IInv` adds to `Authentic` what the rewriting made of the URL (`Aimed`),
  which options lead to which step (`Branch`), that the caller's stream is untouched
  until the end (`Untouched`), how much of a SOCKS5 reply is still unread at each step
  (`Reply`), and that only https shakes hands (`Secure`).  That the rules of
  `--resolve` give a URL again needs that the first rule that
  applies exists, which is the lemma `Least`: a set of natural numbers has a least
  one.  For the refinement `Arrived` says that the socket leads to the target before
  the stream is handed over.  It needs the hypothesis `SocksFits`, that with a SOCKS5
  proxy hosts are shorter than 256 and ports below 65536: `connect()` tests neither.
  Theorems: `TypeCorrect`, `SessionsAuthentic`, `RepliesConsumed`,
  `ConnectImplementsDialer`; and `ConnectToIdle`, that no rules of `--connect-to`
  change any URL.
- **CommandLine**: TLC tries combinations of three options, the theorems hold for
  command lines of any length.  The core is the lemma `OccurrencesListed`: the
  places that an option is looked up at are all its occurrences, each once.  It is
  proved by induction over the command line (`Induction`, from `Least`), first that
  the recursive function of `Occurrences` exists (`PushingExists`), then what it
  computes (`PushingEnumerates`).  From it follow the pieces of payload
  (`HoldTogether`, `DataHolds`, `AllPieces`, with `OneBody` for what is refused).
  Theorems: `PayloadStored`, `PatternsEnumerated`.
- **Glob**, in `CommandLineProofs`: `EnumeratesPatterns` compares what was produced
  with a prefix of what is expected, and is not inductive, since nothing in it says
  what a stack with half-used generators will still give.  `Enumerating` does: what was
  produced followed by what is `Pending` is `Expected`, where `Pending` is what the
  requests that are left stand for, in a row.  It is built from below:
  - of a generator, the values it has left (`Goes`): asking takes the first of them,
    and a generator that gives none has none left.  For ranges this is where `Sane`
    is needed: a step, and a first number beyond the bound that does not wrap, which is
    the same number however many were given (`SameBeyond`);
  - of a stack, what is left on each of its levels (`Ledger`, `Leaves`), the levels
    above first, and that the tokens at each level are those of the generators below
    it, static ones left out;
  - of the machine, `MachineReturns`, `MachineDescends`, `MachineRetreats` and
    `MachineEnds`: a result is the first of what is left, a descent and a retreat
    leave it as it is, and an empty stack has nothing left;
  - of the requests, that `Return` moves one element from `Pending` to `produced` with
    the output of its own tokens, and `NextPattern` drops a pattern with nothing left.

  Flattening and the recursive function of `Enumeration` are reasoned about as above,
  by induction for a set in place of a predicate.  Assumed of the patterns:
  `PatternsAssumption`.
- **ExpectContinue**, in `TransferProofs`, as an instance with variables of its own next
  to those of `Transfer`.  `RequestInv` adds to the properties what each chain has done
  at each point (`HeadOnly`, `OneChain`, `TwoChains`: the body waits for the timer's
  handler, and only the first read finds the timer waiting), which headers can still be
  in the stream (`HeadersInOrder`: the second read starts when the 100 was taken) and
  that a final header which overtook the body has set the state that the timer's
  handler looks at (`BodyKept`).  `FinalStopsBody` alone is not inductive: a handler that
  is queued already could still send the body.  Theorems: `RequestTypeCorrect`,
  `FinalsStopBodies`, `SuccessesAreFinal`, `RequestsEndQuiet`.  The module has no
  constants, so the run visits all of its states too; the proof says why it holds.

Only model-checked: everything about liveness (`RequestsDispatched`, `WorkerRecovered`,
`EveryoneAdmitted`, `CutShortEnds`, `EverythingEnds`, `TransferEnds`, `RequestEnds`,
`GetEnds`, `GeneratorEnds`), which with ENABLED is out of the prover's reach.

## 5. What is not modelled

Components without state or order of events to get wrong: `endpoint`, error tables,
MIME types, base64, certificate data, HTML rendering, `format`, the progress meter.
The logger's `get` is one critical section under one mutex.  `route_rule` is a private
header that only its own test includes, made of the parser combinators of Boost.URL.
burl's `any_stream` delays reads and writes by its rate limits; no property here is
about time.  The `visit` client takes the steps of the get client.  Of the options,
the parsing of a form field is left out, as forms are always refused, and the loading
of Windows certificates.  The grammars of options, patterns and Set-Cookie are taken
as parsed.  Boost.HTTP, corosio and Boost.Asio are external and modelled from their use
here.  A process kill in the middle of writing the cookie file is not modelled, nor are
cookie files that another program wrote, nor concurrent calls of the JSON-RPC client.

## 6. Plan

Done, in this order: the servers with their abstract service and proofs; the task
group; transfers; Expect: 100-continue; the cookie jar; `connect` with its dialer; the
JSON-RPC and get clients; the command line with its URL patterns.

Proofs, in this order: type correctness and the first safety invariants of the
servers, the task group, transfers, the cookie jar and the two other clients; then
`Connect` with its refinement, the order of requests, `RemovedOnError`, and the command
line; then the patterns of `Glob` and `ExpectContinue`.

Proofs to add: that an output is named after the tokens of its own URL also for
patterns that wrap around or stand still, which have no enumeration and are therefore
not covered by `PatternsEnumerated`.

Models that could follow: `ExpectContinue` composed with `Transfer`, for the announced
body that was never sent; `any_stream`'s rate limits with a reader and a writer side
by side.
