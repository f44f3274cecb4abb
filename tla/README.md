# Statico in TLA+

Statico is an HTTP server that answers every request with one configured
response, as fast as one of six runtimes allows, and can also act as a mock MCP
server. This directory specifies the parts of it whose correctness depends on
an order of events: how a connection's buffer is kept while reads, requests and
writes interleave, how counters are written and read by several threads at once,
how options, ports, threads, rings and listeners come up and go down, and what a
service makes of requests that arrive in pieces, side by side or not at all. The
algorithms on which answers and counters rest, the JSON scanner of the MCP server
and the sizes of messages, are compared with reference definitions.

Sources are named relative to the repository (`src/main.rs` and so on). Every
definition that models code is mapped to its lines in `PROJECT.json`.

## The system

| Part | Source | State it keeps | Operations |
|---|---|---|---|
| Pipelined connection handlers | `tokio_uring.rs`, `monoio.rs`, `compio.rs`, `glommio.rs` (`handle_connection_*`) | the receive buffer (memory, length, capacity), the cursor `parsed`, `requests_served`, the encoded response | reset, compact or keep the buffer; reserve; read; decode; delay; write; close |
| hyper service | `tokio.rs` (`tokio_srv`), `smol.rs` | per request only: the collected body, the response | collect body, count, delay, build response, count; HTTP/1 or HTTP/2 |
| Delayed body | `delayed_body.rs` | the bytes, an optional sleep | poll a frame, size hint, end of stream |
| MCP server | `mcp.rs` | per request: the parsed JSON-RPC call; per response: the parts of the stream still to send | parse, dispatch, tool call, ping, unary or event stream |
| Counters | `main.rs:55-111` | four global counters, four per port | `record_request`, `record_response` |
| Meter thread | `main.rs:277-331` | previous values, previous instant, deadline | sleep, read the counters, print, keep |
| Final report | `main.rs:252-259, 494-547` | none | read the totals, read each port, exit |
| Port balancing | `main.rs:341-387` | the repeated list, offset, chunks | repeat, cut |
| Startup | `main.rs:261-275, 333-336`, `run_thread` of each runtime | thread handles, listeners | spawn, create listener, accept, join |
| Wire sizes | `http.rs` | none | size of a request or response as encoded in HTTP/1 |
| Ring parameters | `uring.rs`, `run_thread` of four runtimes | none | options to the sizes of a ring |
| Command line, TLS | `options.rs`, `main.rs:173-246`, `tls.rs` | none | parse, refuse, load, negotiate |
| Pretty printing, response encoding | `pretty.rs`, `response.rs` | none | format, encode |

**How they interact.** `main` parses the options, shares the ports among the
worker threads, refuses what it does not support and spawns them. A worker sets up
its ring if its runtime has one, creates its listeners and, for each connection it
accepts, a task: a pipelined handler in the four completion-based
runtimes, a hyper connection in the two others. The tasks of a thread share it
and yield only at awaits. They call the counters, which are shared by all
threads and read by the meter thread once per second and by the Ctrl-C handler
at the end. Connections share nothing else.

**What is hard.** The handlers keep one `Vec<u8>` through unsafe `set_len`
calls, lend its spare capacity to the kernel across an await, and move a cursor
over whatever cut of the stream the reads return. Counters are bumped four at a
time with no lock and read while they change. Startup is a race of binds against
connecting clients, in which a bind, a ring or an accept may fail, and what that
leaves behind depends on the runtime; all three draw on the same descriptors as the
clients that are served already. Nothing is persisted and there are no retries, so
crash recovery has no model here.

**What makes each part correct.**

- A handler: the buffer holds exactly the bytes received and not yet dropped;
  requests are decoded in order, none lost, none twice; one response each; every
  complete request is answered; the buffer stays bounded; the task ends when
  the client has left.
- Counters and their readers: nothing counted is lost or shown twice; values read
  do not go back; totals and ports agree up to the calls in progress.
- Balancing: every port is served, none twice by a thread, loads within one.
- Startup: what is bound is served; a failure takes down no more than its own
  thread, and with descriptors for everyone clients cause none; no connection waits for a
  thread that has ended; a client is served as the options ask or not at all; an accept
  that runs out of descriptors costs no listener and no waiting connection.
- A hyper service: each request and its response are recorded at most once and in
  this order, however the request breaks off; the frames of a body come in order,
  all of them, and not before `--body-delay`; one request does not hold up another.
- The MCP scanner: on every legal request it finds the members that a JSON parser
  would find; an answer is JSON, carries the id and the text that were sent, and a
  notification gets none.
- Wire sizes: what is recorded of a request or a response is what was on the wire, or
  differs by what can be named.

## Modules

### `PipelinedServer`, `PipelinedConn`: one pipelined connection

`PipelinedServer` says what a handler promises: requests that have arrived are
taken in order, one at a time, each is answered before the next is taken, and a
clean end leaves nothing unanswered. It has no buffer.

`PipelinedConn` is the handler. A byte is its position in the client's stream
(0 is memory nobody wrote), which is all the properties need: the model can tell
a byte that is stale, duplicated, missing or uninitialised from the right one.

| Module | Code |
|---|---|
| `mem`, `cap`, `len` | the `Vec`'s memory, `capacity()` and `len()` |
| `currentLen`, `parsed`, `served` | `current_len`, `parsed`, `requests_served` |
| `pc` | the await the task is at (`read`, `delay`, `write`), or the step it takes next |
| `FastReset`, `Compact`, `KeepBuffer` | the three ways through the top of the loop, each up to the await of the read: reset / compaction, `reserve`, the loan of the spare capacity |
| `ReadOk`, `ReadEof`, `ReadErr` | the read's result and the `set_len` after it |
| `DecodeOk`, `DecodeErr` | the decode loop's two branches; `record_request` |
| `DelayOver`, `WriteOk`, `WriteErr` | `execute_delay`, `write_all`, `record_response` |
| `Client*` | the peer: sends any chunk, reads responses, half closes, resets |

The four handlers are the same loop. They differ in how the spare capacity is
lent: three build a `Vec` that aliases it (`len` unchanged during the read),
glommio sets `len` to the capacity for the time of the read (`SubmitRead`,
`conf.runtime`). The sizes 8192 and 4096 are constants.

A scenario (`conf`) fixes the stream and the options. `wellFormed` are the
requests the decoder accepts; any other makes it return an error, whether for
malformed text or for more headers than the 128 there is room for. `builds` is
FALSE when a configured header makes `build_response` fail, which ends every
connection at once.

Abstractions: the response is one unit (`write_all` completes when the kernel
has taken all of it); `SocketIn` and `SocketOut` bound what the kernel queues;
`Vec::reserve` grows to twice the capacity or to what is needed, as the standard
library does. The `http2` guard at the top of three handlers is left out: their callers
pass `false`. Printing for `--verbose` is left out.

### `Counters`, `Meter`, `FinalReport`: the counters and their readers

`Sums` is the sum of a function's values over a finite set, in which the properties of
the counters and the sizes of messages are written.

`Counters` models `record_request` and `record_response` as a sequence of four
adds (`adds[w]`), done one at a time, so that every interleaving of the workers'
and the readers' steps is explored. The calls contain no await, hence one call
in progress per worker thread. `open` is the number of requests recorded whose
response is not; `Abandon` is a connection that ends in between.

`Meter` adds the thread of `--meter`: the snapshot before the loop, the deadline,
the sleep that may last longer than asked, the four reads, the subtraction.
`FinalReport` adds the Ctrl-C handler: the totals, then each port in order, then
`process::exit`, which stops the workers wherever they are.

A counter is a `contatori::Monotone`: sharded, its value a sum over shards.
`Meter` models a read in two steps (`BeginSum`, `EndSum`) that returns anything
between the value at its start and at its end, which is what a sum over growing
shards read one by one can return. `FinalReport` reads each counter in one step;
a sum in several steps returns a value between, and its properties only bound
what is read from both sides. Adds are taken to be seen in the order in which
one thread does them: with weaker orderings between different counters,
`PortsCoverTotals` could be off by adds not yet visible.
64-bit counters are taken not to overflow.

### `PortBalance`, `Options`, `Startup`: from the command line to the connections

`PortBalance` is `balance_ports` and the loop of `chunks_balanced`; an element of
the repeated list is its index, its port the index modulo the number of ports.
Slicing out of bounds and division by zero are the state `panic`.

`Options` is what becomes of a command line, as operators: what `main` refuses
(`Refused`), which server `run_thread` starts (`Server`), what that server speaks
and over what (`Protocol`, `UsesTls`), what `load_server_config` lets a client
negotiate (`AlpnProtocols`) and what becomes of a client that speaks something
(`Session`), and the sizes of the io_uring that each runtime asks for
(`SqEntries`, `CqEntries`, in the width of a `u32`) against what the kernel grants
(`RingGranted`). rustls and the kernel are external.

`Startup` composes both. Its state is `main`'s (`mainpc`, `spawned`, `joined`), the
threads' (`wpc`, `result`, `made`), the kernel's (`sockets`, the queued and open
connections in `conns`); it extends `PortBalance` and takes its steps as `main`'s first.

| Module | Code |
|---|---|
| `BalanceStep`, `CheckOptions`, `Spawn`, `Join`, `Return` | `main`, in its order |
| `Setup`, `SetupFails` | the builder of a runtime: before the listeners under the three io_uring runtimes that bind inside it, after them under tokio, mcp and glommio, and with the first one under smol, whose threads share one reactor; a ring of a size that the kernel refuses, or the want of descriptors, is an error under tokio, mcp and compio and a panic under the others |
| `CreateListener`, `ListenerFails`, `Bound` | the loop over the addresses in each `run_thread` |
| `Accept`, `AcceptFails` | the loop over `select_all`; a failed accept is logged, and the stream keeps its listener |
| `Begin`, `Leave` | the task of a connection: handshake and protocol, and the end that closes its descriptor |
| `Connect`, `Refuse`, `Request`, `HangUp`, `Close`, `Abort` | clients and kernel |

What happens when a listener cannot be created differs: `tokio`, `mcp` and `smol`
return the error, `tokio_uring`, `monoio` and `compio` log it and return Ok, and in
all of these the listeners created before are dropped, hence closed; `glommio`
returns the error but holds its listeners as raw descriptors, which are not closed.
`Listen` includes the thread without any port, whose `select_all` is over at once.
A panic is `Abort`, as the release profile says (`panic = "abort"`); a `Request` matters
to this model only where it panics, under smol with `--body-delay` (`SleepPanics`).

Descriptors are counted (`Used`): one for a listener or a connection, `SetupCost` for a
runtime (its epoll or rings, and what wakes it), against `conf.limit`, which stands for the
limit of the process less what `main` has open. A listener, a runtime and an accept each
need theirs, so clients of a thread that accepts already can take those that a later
thread needs: `create_listener` fails then as for a port that cannot be bound (`CannotListen`,
`main.rs:425`), and the builder as for a ring that is refused (`SetupShort`). A socket that is
created and cannot be bound is closed in the same step. smol and glommio
call accept before they wait for it, so that with a connection queued and no
descriptor left their loop does not yield and their tasks do not run (`TasksRun`).
Socket options and CPU pinning are left out.

### `RequestService`, `HyperService`, `WireSize`: a connection of tokio, smol or the MCP server

`RequestService` says what such a connection promises, with no body, timer or
protocol in sight: a request is counted before its response, a response before the
client sees anything of it, parts come in order and the end after the last, a
request given up is neither counted nor answered further, and a serial connection
begins a response when those before it are over.

`HyperService` is the detailed one. hyper parses the requests, calls the service,
and sends what it returns; it is external, and modelled by the order in which it
does so: one request after the other over HTTP/1, side by side over HTTP/2. What
the services do is the model:

| Module | Code |
|---|---|
| `CallStatic`, `CollectedStatic`, `DelayOver` | `tokio_srv` and `smol`'s service from one await to the next: `collect_request`, `record_request`, `execute_delay`, build, `record_response` |
| `CallMcp`, `CollectedMcp` | `handle_conn` of `mcp.rs` and `mcp_srv`: 404 and 405 without reading the body, a body that breaks off, a dispatched one |
| `body`, `Taken`, `HasFrame`, `IsEndStream` | `DelayedBody` and `McpBody`: `delay_finished`, `idx`, the final event; `poll_frame` and `is_end_stream` |
| `PollPending`, `SleepOver` | the timer of `DelayedBody`, and the waker left with it |
| `tally`, `SizeIn`, `StaticSize`, `McpSize` | the counts and bytes that `record_request` and `record_response` are given |
| `sent` | the head, the frames and the bytes that hyper wrote |
| `Drain` | hyper, when a service has answered without reading the request's body |
| `CanGoOn`, `Work` | what wakes the task of a request, and how many polls are left to it |
| `ClientHead`, `ClientBody`, `ResetStream`, `LoseConnection` | the client, which can break off at any await |

hyper ends a response of exactly 0 bytes with its head over HTTP/1
(`EndsWithHead`), so an empty body does not wait for `--body-delay` there, and
over HTTP/2 it does; `BodyWaits` says both. A service without a response (`builder.body` failed, or it panicked) is `Fail`: the
connection ends, or over HTTP/2 the stream. A panic reaches further than this model, which
has one connection: in the release profile, where `panic = "abort"`, it ends the process, which is
modelled in `Startup` (`SleepPanics`); in a debug build under smol it unwinds the thread's
executor, and all its connections with it. Over HTTP/1 hyper reads on once when a body was left unread, and closes
the connection if that is not the rest of it: requests behind it are then `refused`.
A TLS handshake comes before the first request and is in `Startup`.

`WireSize` has the sizes, operators only: those of `http.rs`, which computes them from
lengths by bit tricks and logarithms before anything is written, and those of what
hyper then writes over HTTP/1, with the headers it adds, counting digits by division.
`HyperService` records with the first and writes with the second, frame by frame, and
`RecordedIsWritten` compares them. They are not always equal, and the property names each
difference of a response that was sent whole.

| Recorded and not written (`Withheld`) | Written and not recorded (`Uncounted`) |
|---|---|
| the body of an answer to HEAD or with the status 204 or 304, and a zero length in answer to HEAD | the `Connection` line: `close` to a client that asks for it, `keep-alive` to one of HTTP/1.0 that asks for that, if the response is in HTTP/1.1 (smol's, and the MCP server's 404, 405 and 400) |
| over HTTP/1.0, the header that announces chunks and what the chunks of an event stream cost | `<none>`, which hyper writes for the reason phrase of a status that has none |

`response_head_size` (`http.rs:38`) counts the date and the length that hyper adds and nothing
else that it adds. Of a request that was read whole, what is recorded is its size, less what
it costs to send the body in more than one chunk.

Out of the comparison: HTTP/2, where the sizes are estimates, headers being compressed;
trailers; an interim `100 Continue`; and responses with a configured Content-Length,
Transfer-Encoding or Connection (`framing`). `tokio.rs:157` and `smol.rs` pass such headers
through, beside the length they always add, and hyper refuses a head that contradicts itself or corrects
it. Which, and how long the head becomes, is not modelled: `RefuseHead` and `SendHead` are a
choice, and the bytes of such a head are left out. A response that is refused stays recorded;
that it holds up nothing and is recorded once is checked like the rest. CONNECT and
statuses below 200 are not modelled. Connections with HTTP/1.0, a client that closes, or framing headers
have one request, as the first response may end them.

`log10` in f64 is exact
for the sizes below 10^15 that occur. `SizeLimit`, 10^9, is assumed of the sizes of a
scenario: up to it `BitsUsed` and `LenDigits` find every number of digits.

### `JsonGrammar`, `McpRpc`: JSON-RPC without a parser

`mcp.rs` builds no tree: `parse_rpc` and its helpers scan the text of a request
for the few members they need, skip the rest, and splice answers from slices of it.
`McpRpc` is that scanner and `dispatch_rpc`. `JsonGrammar` is the reference, taken
from no code: a pushdown automaton that reads a JSON text and notes the members of
its outermost object. A client writes a request piece by piece, the automaton reads
along (and, for a strict client, lets through only what JSON allows), and the server
answers the text when it has been sent.

A text is a sequence of units: a structural character, a quote, a backslash, a whole
number or literal, a run of ordinary content. Every unit that the scanner treats
specially is its own. `Legal` are the requests of which the properties
speak: JSON objects whose strings have no escapes but `\"` and `\\` (the automaton knows
no others, `Escaped`), and in which every `method` is a string and every `id` a string, a number or
null (if there are several, the scanner and the grammar both take the last). Where
`find_raw_value` takes the first and the grammar the last, `EchoIsVerbatim` speaks only of
arguments whose `text` has one value. A method that is `notifications/` and nothing else is no
notification to the code (`len > 14`), nor to `NotificationsAreSilent`. The depth counted by `SkipBrackets` may go below 0 on texts that are not
JSON, where a debug build panics and a release build, which the model follows, wraps.

## Runs

| Run | Question | Size |
|---|---|---|
| `Conn` | Does the handler keep its buffer, order, meter and promises (refinement, liveness) over every cut of the stream, with half closes and resets, in a bounded buffer? Can only its client block it, and does it ever spin? | 54 thousand states |
| `ConnErr` | Does the decode loop stop only at incomplete requests, as its comment says? **It does not.** | violation |
| `MCMeter` | Do the meter's lines partition what is counted, without underflow or drift? | 449 thousand |
| `MCFinalReport` | Do totals and ports agree up to the calls in progress? How far apart can a report's be? | 512 thousand |
| `MCStartup` | From command line to exit: are ports shared out evenly for all command lines up to 6 ports and 13 threads? What is refused, bound, accepted and served, and as asked, when ports fail to bind, rings are refused, and listeners, runtimes and clients compete for descriptors? | 172 thousand |
| `StartupHalf` | Is every connection given to a thread that accepts? **It is not, under glommio.** | violation |
| `StartupAlpn` | Is a client served what it negotiated? **Not HTTP/1.1 with `--http2`.** | violation |
| `StartupRing` | Does the submission queue have the size asked for? **It does not, under monoio.** | violation |
| `MCHyperService` | What is recorded, sent and answered when requests are served through hyper and the client breaks off anywhere, and is it what `RequestService` promises? By what do the bytes recorded differ from those written, at every number of digits and for clients that close or speak HTTP/1.0? Is any request held up, or worked on without end? | 35 thousand |
| `HyperSmol` | Is `--body-delay` supported by smol, as the README says? **It is not.** | violation |
| `MCMcpRpc` | Does the scanner find what the grammar finds, and are the answers the JSON they should be? | 72 thousand |
| `McpMalformed` | Is malformed JSON refused, as the module's comment says? **Not always.** | violation |

**Bounds and why they are enough.** In `Conn` the initial capacity, spare room
and compaction threshold keep the proportions of 8192, 4096, 4096 at 4, 2, 2.
The streams are chosen so that each branch of the top of the loop is taken, a
request exceeds the initial capacity (growth), and a partial request remains
behind dead bytes (compaction). Reads of every size from 1 to what is available
cut the stream everywhere. `SocketOut = 1` makes the handler wait for the client.
The `Long` stream repeats requests of six bytes so that unbounded growth would
show. `MCFinalReport` has two workers and two ports: its properties relate at most
one call of each worker to the sums, and two calls can be between any two adds and
any two reads. A worker looks at the bound on requests before it adds, so a bound of
1 lets both record one. The meter's run has one worker, so that four
reads in two steps each against four adds stay explorable; two slots are enough
for one line to follow another. Two requests are enough to show on an HTTP connection
that one holds up another, or does not; two notifications, that frames keep their order.
The lexicons of `MCMcpRpc` give each client the pieces that could confuse the scanner (keys
as values, brackets and quotes in strings, escapes before a quote, nested and repeated
members, blanks) as often as it takes to place one inside and outside the object searched.
The lengths in `MCHyperService` are those on both sides of each power of 10 and 16 up to
2^20; HEAD and statuses without a body are asked over HTTP/1 without `--body-delay`. Clients
that close, clients of HTTP/1.0 that ask to keep the connection or do not, and a status without a reason
phrase meet every kind of answer with a body of 0 and of 5 bytes, of tokio, smol and the MCP server.
In `MCStartup` two threads on three ports, three on two, and two that bind both of two
make chunks of every kind: longer by one, empty, and the same; command lines with more threads are refused, and end when
the ports are shared. Two threads and two clients, with a runtime at one descriptor, take
six descriptors, or eight with both ports on each thread; limits from 2 (which no thread
but the first can set up with) to these make a bind, a setup or an accept fail by what the
threads have, by what the clients have, and not at all. Ring sizes keep their order: 6 bits stand for 32 (`UintBits`), a kernel limit of 16 for
32768, monoio's default of 4 for 1024, and options are taken on both sides of each limit
and of the overflow.
Theorems extend all of these to all values.

**Deadlock.** All configurations say `CHECK_DEADLOCK FALSE`: connections end, the
bounds on requests and time are reached, `main` returns, the report exits.

**Fairness.** A handler's task is polled when its I/O or timer has completed:
weak fairness of `Handler`. Weak fairness of `ClientRead` says that the client
reads what reaches it; without it a pipelining client and the handler wait for
each other with full socket buffers, in this as in any HTTP/1 server. Nothing
obliges the client to send or to leave. Decoding, reading and writing share one
fairness condition because at any time the task has one thing to do. In `Startup`, `main` and the
workers are scheduled, each thread as a whole (what it does next is its own
choice among accepting and running a task), while clients owe nothing: that a waiting
connection is accepted is claimed only if there is a descriptor again and again. In `HyperService`, each
request's `Serve` is fair on its own: over HTTP/2 hyper polls every stream that was
woken, and a timer fires; a request waits only for its client, which owes nothing.

**Mutants.** Each property has a mutated definition in its module, commented as a
mutant, with which the run finds the property violated; `PROJECT.json` pairs them.

## Findings

1. `ConnErr`. The decode loop leaves on any error under the comment *Incomplete
   request or end of batch* (`tokio_uring.rs:230` and siblings). A malformed
   request takes the same way: the connection stays open, it is never answered,
   nor is anything sent after it, and the buffer keeps growing.
2. `StartupHalf`. A glommio thread that cannot bind its second port ends with its
   first socket still listening (`glommio.rs:45-48`): the kernel gives it
   connections that nobody accepts, where the README (`README.md:203`) says that
   the kernel balances connections across threads.
3. `HyperSmol`. With `--body-delay`, smol's service builds a `DelayedBody`, whose
   constructor calls `tokio::time::sleep` (`delayed_body.rs:26`). No tokio runtime
   has been entered, so it panics on every request, although `README.md:91` names
   smol among the runtimes that support the option.
4. `McpMalformed`. `parse_rpc` returns at the brace that closes the object and looks at
   nothing behind it, and accepts a comma before it: such texts are dispatched, where
   `mcp.rs:15` says that malformed JSON is answered with 400.

5. `StartupAlpn`. With `--cert`, `--key` and `--http2`, `tls.rs:21-25` offers `h2` and
   `http/1.1`, and the handshake of a client that knows only HTTP/1.1 succeeds; the
   connection is then served as HTTP/2 by the option (`tokio.rs:207`, `mcp.rs:951`),
   not by what was negotiated, and fails. `README.md:169` says that ALPN negotiates.
6. `StartupRing`. `--uring-entries` is the *size of the io_uring Submission Queue*
   (`options.rs:138`, `README.md:108`); monoio's builder is never told it
   (`monoio.rs:42-44` has no `with_entries`) and makes its default, 1024. The completion
   queue follows the option (`uring.rs:14-16`), so that up to 256 entries it is smaller
   than the submission queue, the kernel refuses the ring, and the `unwrap` at
   `monoio.rs:45` ends the process.

Smaller ones need no run. With `-p 0 --meter` the first connection ends the process:
`port_counters` (`main.rs:105`) is asked for the port the kernel chose, which was not
registered; under smol with `--body-delay` the first request does (finding 3). Where there
are descriptors for the listeners and runtimes but not for the clients as well, clients
that connect while threads are still setting up can cost one of these its chunk, or, where
it unwraps its runtime, end the process (`Scarce`). `Outlives` and `OnlyChunksFail` name these cases. smol and glommio, with a connection queued and no
descriptor left, spin in their accept loops and never run the tasks that would close one;
`DescriptorsReturn` excepts them. `--cert` and `--key` are accepted and ignored by the
runtimes that `README.md:100` says do not support them, and the port then speaks plain
HTTP; `ServedAsAsked` excepts them. Over HTTP/1, a response made without reading the
request's body (without `--meter` and `-v`, and 404 and 405 of the MCP server) can cost
the client its connection; `ServerKeeps` says when. And `main.rs:333` says that threads
*run forever unless error*, but `FewIdle` and `OnlyChunksFail` allow for threads without a port (three
ports on five threads leave two), which end at once with Ok.

## Proofs

`PipelinedConn_proofs` proves about `Safe` (the specification without fairness),
for every set of scenarios and all sizes that satisfy `ScenarioAssumption` and
`SizesAssumption`: `Safe => []IInv`, from it `TypeOK`, `BufferIsWindow`, `InOrder`,
`MeterAgrees`, `CapacityBounded`, `StuckOnlyByClient`, the action properties `EofIsGenuine`
and `NeverSpins`, and that `Safe` implements `PipelinedServer` (`Refinement`).

The invariant needs three facts that no other property states. `ReadHasRoom`: a
submitted read has at least `MinSpare` bytes of room, so it can return 0 only at
the end of the stream, and `len` is the capacity only while glommio reads. `Flow`:
bytes received, sent and the requests taken and written relate as the control
point says. `NoneWhole`: outside the decode loop the buffer holds no whole request.
`NoneWhole` carries most of the weight: it is why waiting for more bytes is right
(refinement of `Finish`), and why the bytes after the cursor number fewer than
the largest request, hence the bound on the capacity: a reset or compaction leaves
at most `CompactAbove` dead bytes and `MaxRequest - 1` live ones. It is also why a handler
that waits to read owes no answer (`NothingOwed`), from which `StuckOnlyByClient` follows.

`Meter_proofs` proves `Spec => []IInv` for any workers, ports, slot and request
sizes, and from it `TypeOK`, `LinesPartition`, `NoDrift` and `NoUnderflow`. The
strengthening is `ReadInv`: each value kept lies between the previous snapshot and
the counter, and so does the beginning of a sum in progress; counters only grow.

`Counters_proofs` proves what both readers of the counters rely on: the workers' adds keep
their type, no counter goes down, and `CInv`. Its conjuncts: a call in progress is what is
left of a `Record` (`CallsInProgress`), so that it adds to one port, counts at most one
request or response, and owes its port no less than the total; totals and ports differ by
what the calls have left (`PortsAccountForTotal`); a request is open before its response is
counted, and each counter of responses, together with the requests that are open or being
counted, stays below that of requests (`RequestsAreOpen`, `ResponsesAreOwed`, hence
`ResponsesFollowRequests`). `FinalReport_proofs` adds the report: what it has read is in its
tables and not above the counters, which only grow (`NotAhead`, with which `ReportIsPast`
holds), and when the second count of the totals has been read, what the ports show is short
of the totals by no more than the calls then in progress, one count for each worker
(`SeenCoversTotals`), from which `PortsCoverTotals` follows as the ports are read later. All
of this holds for any finite sets of workers and ports, of which none is named `total`.

These are facts about sums over finite sets, which `Sums` defines by a fold. `Sums_proofs`
proves what they need: a sum is the sum without one element and that element's value, is a
number, changes by as much as one of its terms, and splits into the sums of its terms. The
induction is on the set, by a smallest counterexample: the library's `WFMin`, with
`FS_StrictSubsetOrderingWellFounded`, says that sets without the property, if there are
any, have a least one among them.

`Startup_proofs` begins with `PortBalance`, for which it proves `NeverPanics`,
`EveryElementOnce`, `Fair` and `FewIdle` (the run checks the last two as `EvenlyShared`), with
any number of ports and threads. The
invariant knows the offset without a sum: after `i`
chunks it is `i * Base + min(i, Remainder)`, from which the last chunk ends at the end of
the list; and that the chunks made so far stand behind one another up to the offset.
`Fair` needs that no chunk is longer than the ports before they are repeated: the list is
repeated only as long as it does not exceed the threads (`ListLength`), so a repeated list
gives chunks of one element at most (`ShortList`).

The composition comes next: every step of `Startup` is a step of
`PortBalance` on its variables or leaves them alone (`Composition`), so the theorems of
`PortBalance` hold in it (`SharedFairly`). Its own invariant says where `main` can be with
which threads, which listeners a thread has made (those of its first ports, none of them
broken, each a socket that listens), that a socket's thread is going to accept or is a
failed glommio thread (`SocketInv`), that a connection is queued on a socket, then
held by a thread that accepts, and served as `Session` says (`ConnInv`), and why a thread
or the process can have ended (`MayEnd`, `MayPanic`). The last one rests on a count: a socket is of
a port that its thread was given (`SocketsWanted`), a runtime of a thread, a connection of a
client, so that `Used` never exceeds `Demand`, and stays below it by what a thread that
is still binding (`RefusedListener`) or setting up (`RefusedRuntime`) has to come; a
thread is refused only where `Demand` exceeds the limit. That a thread never makes two
listeners of one port, so that each of them counts, is what `Fair` says. From it follow
`TypeOK`, `NoneStranded`, `Outlives`, `OnlyChunksFail` and `ServedAsAsked`, for any command
lines, threads, limits and connections; the last one splits on the protocol and the transport,
and on what a client can have negotiated (`SpokenAsAsked`). Its progress theorems are
described below.

`HyperService_proofs` proves, for any number of requests, notifications and sizes, that
`Safe` implements `RequestService` (`Refinement`), and `RecordedOnce`, `FramesInOrder`,
`BodyWaits`, `ServerKeeps`, and, in parts of their own, `RecordedIsWritten`, `NoneHeldUp` and
`WorkGoesDown`. Its invariant says of each request how far its counters
(`Counts`), what the client has (`Sends`), what is left of its body (`Bodies`: frames sent
and frames left add up to the frames there are) and its timer (`Waits`) have come at each
place of its service, and over HTTP/1 that a request whose service was called has only
finished ones before it (`Order`). The conjunct `Bodies` is what makes the end of a
response safe, and `Order` what makes a serial connection serial.

Its second part proves `RecordedIsWritten` (`SizesAgree`): over HTTP/1, what is recorded
of each request and response is what is on the wire, but for `Withheld` and `Uncounted`, for
any bodies, notifications, headers (other than framing ones), reason phrases, clients
and cuts with sizes below `SizeLimit`. First comes arithmetic: the bits of `leading_zeros`, in fours, and
the logarithm give the number of digits that division gives. `Digits` is a
recursive function, so it is shown that a function with its recursion exists and that there is one only
(`DigitsExist`, `DigitsUnique`, by a smallest counterexample), and then in each range of
sizes how many digits there are. A body sent in one chunk has the length that `http.rs` computes (`OneChunk`),
one cut into several is longer (`ManyChunks`), and a head is as long as computed, whichever of the
headers that hyper adds are given, and whatever the client is, but for the lines and the phrase
just named (`HeadRecorded`). Then comes the invariant
`WireInv`, on top of the first. It says of each request what is written
of its response up to where its body stands (`Written`), what is recorded
(`Recorded`), that the body and its framing are those of its kind (`Form`), and that a
request without a body is not one that the MCP endpoint reads (`Bare`). `Written` leaves out
responses with framing headers. Without `Written`, one would not know at
the last frame that the frames before it were written as recorded: `McpBody` is recorded
as a whole before the first of them.

`McpRpc_proofs` proves, for any lexicon, hence for texts of any length and depth, that the
scanner and the grammar agree, and that the answers are the JSON they should be. `ObjectsAgree` is about a text alone: if the automaton reads it
as an object and nothing else, `Members` returns the members that the automaton notes, whatever
values it is told to expect as strings or tokens, provided that those members are such
(`Suited`). `ScannerAgreesAlways` applies it to a request and to the objects in it, and
`NotificationsAreSilentAlways` follows from what `ParseRpc` therefore returns (`Parsed`). The argument:

- A *run* is the sequence of states that the automaton goes through along a text. Both
  folds and the scanner's `scan` functions recur; that each has one solution is shown
  once (`Recursion`), for arguments that come closer to an end.
- Of each function of the scanner it is shown at which unit of a run it ends: `SkipWs` where the
  blanks do, `ParseString` behind the quote at which the automaton leaves its string,
  `SkipBrackets` behind the unit at which the stack is again what it was. For this the
  depth counted by the scanner is the height of the stack above that of the value, so it never
  goes below 0 on JSON.
- The loop of `Members` then follows the run from member to member, by induction on what is
  left of the text: at each key, colon, value and comma the automaton is in the mode that
  belongs there.
- A value read by itself goes through the states of where it stands, less the stack and the
  members below it; so the value of a member is JSON, and if it begins with a brace an object,
  to which `ObjectsAgree` applies in turn.
- A value that is copied into an answer goes through the states it goes through by itself, on
  top of the stack and the members before it (`ValueRead`). So an answer, which is a key and
  a value once or twice in braces, is read as an object with just these members (`OneIs`,
  `TwoIs`); the value may be such an object itself.
- What stands between the quotes of a string that was read makes a string between new quotes
  (`TightString`, `QuotedCompact`), with words in front of it, too (`InnerAfter`): this is why
  the code may splice raw slices, escapes and all, into its answers.

From the last two follow `AnswersAreJsonAlways` and `EchoIsVerbatimAlways`: every method's answer is
of one shape (`Shape`, `DispatchAnswered`), framed as an event or not, and each value in it
is a fixed one, the request's id or a slice that a reader found.

`UnitAssumption` and `WordAssumption` say of the units that the code compares with, and of
the words it answers with, that they are strings, which TLA+ leaves open of a literal as far as these provers are concerned; TLC
evaluates it.

**Progress.** The prover handles neither fairness nor `ENABLED`, so no liveness property is
proved. What a proof of one would rest on is, for every value of the constants: that there is
always a step to take, that it can be taken, and that steps run out.

| | A step is there | It can be taken | Steps run out |
|---|---|---|---|
| `PipelinedConn` | `StuckAlways`: but for a client that does not read | `ReadySteps` | `ProgressAlways`: of one handler, `Left` goes down |
| `HyperService` | `NoRequestHeldUp` | `GoesOnWhenItCan` | `WorkRunsOut`: `Work` goes down for the request served, and up for none |
| `Startup` | `NoneIsForgotten`: of a connection that is queued or left | `ThreadMayGoOn` | `AllGoForward`: no thread and no connection goes back, and a step brings one of them forward |

The second column stands for `ENABLED`: each theorem of it says that a step leads to a
successor state that it names. `HandlerWasReady` and `ServedCouldGoOn` add that a step is taken
only where `Ready` or `CanGoOn` holds, so these are, in every reachable state, what `ENABLED` of
`Handler` or `Serve(r)` would be. What remains for TLC is the temporal rule: weak fairness turns
a step that stays there into one that is taken, and a number that goes down cannot do so for ever.

For `HyperService` there is a third invariant, `LiveInv`: a parked response has a timer that
is still to end (`Woken`, or a `Pending` that registers no waker); a body is drained only
where the service leaves it (`Drained`, else a service could wait for a body that hyper threw
away); and over HTTP/1 a lost request leaves none behind it that waits (`LostTogether`). The
request that can go on is then the first that is not done with. Each step of a request is
one of the few of `MovesOn`, which also gives `WorkRunsOut`. In `Startup`, the exception
of `AllGoForward` is the accept that fails without a descriptor: it changes nothing, and is why
`ConnectionsSettle` and `DescriptorsReturn` make descriptors a condition.

Where a specification states fairness, the theorems are about the one without it
(`Safe`), which it implies, or use no fairness of `Spec`.

Only model-checked: the liveness properties themselves (`AllAnswered`, `ShutdownEnds`,
`ConnectionsSettle`, `DescriptorsReturn`, `Answered`). Every invariant and action property of a passing run is stated by a
theorem.

## Plan

1. Done: the connection; the counters and their readers; options, balancing, startup,
   rings, TLS and accept loops; the hyper services and what they promise; the MCP
   scanner; the sizes of requests and responses; the proofs listed above.
2. To model: `build_response` byte by byte, as a third use of `WireSize`.

## Not modelled

- Option parsing (`clap`, `Ports::from_str`): one value at a time, no state; what it lets
  through are the scenarios.
- Pretty printing: formatting only; `collect_request`, in the same file, is in `HyperService`.
- Of `response.rs`, only that `build_response` can fail (`Begin`).
- Of `uring.rs`, the setup flags: they change no order of events that the program sees.
- Socket options, CPU pinning, logging.
