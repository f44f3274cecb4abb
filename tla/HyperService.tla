---------------------------- MODULE HyperService ---------------------------
(***************************************************************************)
(* One connection served through hyper: the request services of tokio,     *)
(* smol and the MCP server, and the bodies they answer with.               *)
(*                                                                         *)
(* hyper parses the requests, calls the service once for each and sends    *)
(* what it returns: one request at a time over HTTP/1, all of them at once *)
(* over HTTP/2.  A service is a future: it can wait for the request's body *)
(* and for --delay, and hyper may drop it at either await, or drop the     *)
(* body it is sending, when the client gives up.                           *)
(*                                                                         *)
(* A body is polled for its frames, numbered from 1.  It is one frame, or  *)
(* none when empty (Full), the same behind a timer (DelayedBody), or one   *)
(* frame per notification and a final one (McpBody::Sse).                  *)
(***************************************************************************)
EXTENDS WireSize

CONSTANTS
  Scenarios,   \* the connections to explore
  MaxRequests  \* no connection of a scenario has more requests

(***************************************************************************)
(* kind: what each request asks for.  staticHead is asked with HEAD;       *)
(* misdirected is a request to the MCP server with another path or method  *)
(* than its endpoint's POST.                                               *)
(***************************************************************************)
Kinds == {"static", "staticHead", "misdirected", "unary", "accepted", "stream"}

(***************************************************************************)
(* reply: the response configured, or of the MCP server the sizes of its   *)
(* last event and of the notifications before it; framing: some configured *)
(* header is Content-Length, Transfer-Encoding or Connection.              *)
(*                                                                         *)
(* ask: the requests' head, and the pieces in which the client cuts a body;*)
(* http10: in HTTP/1.0, which has no chunks; closes: the client asks to    *)
(* close (HTTP/1.0: does not ask to keep) the connection.                  *)
(*                                                                         *)
(* Where the connection may end with its first response (these two, and    *)
(* framing headers) it has one request.                                    *)
(***************************************************************************)
ASSUME ScenarioAssumption ==
  \A s \in Scenarios :
    /\ s.runtime \in {"tokio", "smol", "mcp"}
    /\ {s.http2, s.meter, s.verbose, s.delay, s.bodyDelay, s.builds,
        s.ask.chunked, s.ask.http10, s.ask.closes, s.reply.empty,
        s.reply.framing} \subseteq BOOLEAN
    /\ s.kind \in Seq(Kinds) /\ Len(s.kind) <= MaxRequests
    /\ s.reply.size \in Nat /\ s.reply.given \subseteq {"date"}
    /\ s.notifications \in Seq(Nat \ {0}) /\ s.ask.pieces \in Seq(Nat \ {0})
    /\ {s.reply.reason, s.ask.method, s.ask.uri} \subseteq Nat
    /\ {s.reply.headers, s.ask.headers} \subseteq Seq(Header)
    /\ {s.reply.size, Sizes(s.ask.pieces)} \subseteq 0..(SizeLimit - 1)
    /\ \A i \in DOMAIN s.notifications : s.notifications[i] < SizeLimit
    /\ s.runtime = "mcp" =>
         ~s.delay /\ ~s.bodyDelay /\ s.builds /\ ~s.reply.framing /\ s.reply.size > 0
    /\ \A r \in DOMAIN s.kind : s.runtime # "mcp" <=> s.kind[r] \in {"static", "staticHead"}
    /\ s.http2 \/ s.bodyDelay =>
         ~s.reply.empty /\ \A r \in DOMAIN s.kind : s.kind[r] # "staticHead"
    /\ s.ask.http10 \/ s.ask.closes \/ s.reply.framing => ~s.http2 /\ Len(s.kind) <= 1
    /\ s.ask.http10 => ~s.ask.chunked

VARIABLES
  conf,     \* the scenario of this behaviour
  request,  \* per request: what of it has arrived, and become of its body
  pc,       \* per request: where its service or its response is
  body,     \* per request: the body of its response, as far as it is left
  elapsed,  \* per request: its DelayedBody's sleep is over
  sent,     \* per request: what the client was sent, [head, frames, bytes]
  tally     \* per request: what was recorded, [requests, responses, in, out]

vars == <<conf, request, pc, body, elapsed, sent, tally>>

Requests == DOMAIN conf.kind
Ended == {"done", "failed", "dropped", "refused"}

(***************************************************************************)
(* A request without a body is bare.  A body that no service reads is      *)
(* drained by hyper, or cut off.                                           *)
(***************************************************************************)
Arrivals == {"unsent", "bare", "head", "whole", "broken", "drained", "cut"}

(***************************************************************************)
(* held: DelayedBody's !delay_finished; idx: frames taken before the last; *)
(* last: the last frame is still to be taken.                              *)
(***************************************************************************)
Body(held, notes, last) == [held |-> held, idx |-> 0, notes |-> notes, last |-> last]
FullBody(empty) == Body(FALSE, 0, ~empty)
SseBody == Body(FALSE, Len(conf.notifications), TRUE)

TypeOK ==
  /\ conf \in Scenarios
  /\ request \in [Requests -> Arrivals]
  /\ pc \in [Requests -> {"idle", "collect", "delay", "head", "stream", "parked"}
                           \cup Ended]
  /\ body \in [Requests -> [held : BOOLEAN, idx : Nat, notes : Nat, last : BOOLEAN]]
  /\ elapsed \in [Requests -> BOOLEAN]
  /\ sent \in [Requests -> [head : BOOLEAN, frames : Seq(Nat), bytes : Nat]]
  /\ tally \in [Requests -> [requests : Nat, responses : Nat, in : Nat, out : Nat]]

Init ==
  /\ conf \in Scenarios
  /\ request = [r \in Requests |-> "unsent"]
  /\ pc = [r \in Requests |-> "idle"]
  /\ body = [r \in Requests |-> FullBody(TRUE)]
  /\ elapsed = [r \in Requests |-> FALSE]
  /\ sent = [r \in Requests |-> [head |-> FALSE, frames |-> <<>>, bytes |-> 0]]
  /\ tally = [r \in Requests |-> [requests |-> 0, responses |-> 0, in |-> 0, out |-> 0]]

Goto(r, where) == pc' = [pc EXCEPT ![r] = where]

(***************************************************************************)
(* record_request and record_response, of the counters t; the counters of  *)
(* a request become t if any are kept.                                     *)
(***************************************************************************)
CountIn(t, bytes) == [t EXCEPT !.requests = @ + 1, !.in = @ + bytes]
CountOut(t, bytes) == [t EXCEPT !.responses = @ + 1, !.out = @ + bytes]
Record(r, t) == tally' = IF conf.meter THEN [tally EXCEPT ![r] = t] ELSE tally
-----------------------------------------------------------------------------
(***************************************************************************)
(* The size of a request as its service counts it: its head; and, if its   *)
(* body was read to the end, that, chunked as if it were in one piece.     *)
(***************************************************************************)
HeadIn == RequestHeadSize(conf.ask, VersionLen(conf.http2))

SizeIn(r) ==
  LET n == Sizes(conf.ask.pieces) IN
    HeadIn + IF request[r] # "whole" THEN 0
             ELSE IF conf.ask.chunked THEN ChunkedBodyWireSize(n) ELSE n

(***************************************************************************)
(* The responses.  A static one has the configured headers, and the length *)
(* of its body if it has one.  The MCP server answers 404, 405 or 202 with *)
(* an empty body, 400 or 200 with JSON, or 200 with an event stream.       *)
(***************************************************************************)
IsStream(r) == conf.kind[r] = "stream" /\ request[r] = "whole"
IsChunked(r) == IsStream(r) /\ ~conf.http2

(***************************************************************************)
(* tokio and the MCP server give a response the version of its request,    *)
(* but for the MCP server's answers to what it does not read whole; smol   *)
(* leaves it HTTP/1.1.  hyper does not keep an HTTP/1.0 connection for a   *)
(* response in HTTP/1.0, and says that it does for one in HTTP/1.1.        *)
(***************************************************************************)
Mirrors(r) ==
  \/ conf.runtime = "tokio"
  \/ conf.runtime = "mcp" /\ conf.kind[r] # "misdirected" /\ request[r] # "broken"

Connection(r) ==
  CASE conf.ask.closes /\ ~conf.ask.http10                  -> "close"
    [] conf.ask.http10 /\ ~conf.ask.closes /\ ~Mirrors(r)   -> "keep-alive"
    [] OTHER                                               -> "none"

VersionOf(r) == IF Mirrors(r) THEN VersionLen(conf.http2) ELSE 8

StaticHead(r) ==
  [version |-> VersionOf(r),
   reason  |-> conf.reply.reason,
   headers |-> conf.reply.headers,
   given   |-> conf.reply.given
                 \cup (IF conf.reply.size = 0 THEN {} ELSE {"content-length"}),
   length  |-> conf.reply.size,
   empty   |-> conf.reply.empty,
   asHead  |-> conf.kind[r] = "staticHead",
   http10  |-> conf.ask.http10,
   connection |-> Connection(r)]

ParseErrorSize == 75
ContentType(n) == [name |-> 12, value |-> n]
CacheControl == [name |-> 13, value |-> 8]

McpLength(r) ==
  IF conf.kind[r] = "misdirected" THEN 0
  ELSE IF request[r] = "broken" THEN ParseErrorSize
  ELSE IF conf.kind[r] = "accepted" THEN 0 ELSE conf.reply.size

McpHead(r) ==
  [version |-> VersionOf(r),
   reason  |-> IF conf.kind[r] = "misdirected" THEN 9
               ELSE IF request[r] = "broken" THEN 11
               ELSE IF conf.kind[r] = "accepted" THEN 8 ELSE 2,
   headers |-> IF IsStream(r) THEN <<ContentType(17), CacheControl>>
               ELSE IF McpLength(r) = 0 THEN <<>> ELSE <<ContentType(16)>>,
   given   |-> IF IsChunked(r) THEN {"transfer-encoding"}
               ELSE IF IsStream(r) THEN {} ELSE {"content-length"},
   length  |-> McpLength(r),
   empty   |-> FALSE,
   asHead  |-> FALSE,
   http10  |-> conf.ask.http10,
   connection |-> Connection(r)]

(***************************************************************************)
(* What is recorded of a response: its head and its whole body, an event   *)
(* stream as its notifications, over HTTP/1 in chunks without the last     *)
(* chunk each, and its last event.                                         *)
(***************************************************************************)
StaticSize(r) == ResponseHeadSize(StaticHead(r), conf.reply.size) + conf.reply.size

StreamSize(r) ==
  LET wire(n) == IF conf.http2 THEN n ELSE ChunkedBodyWireSize(n) - 5 IN
    ResponseHeadSize(McpHead(r), 0)
      + Sizes([i \in DOMAIN conf.notifications |-> wire(conf.notifications[i])])
      + IF conf.http2 THEN conf.reply.size ELSE ChunkedBodyWireSize(conf.reply.size)

McpSize(r) ==
  IF IsStream(r) THEN StreamSize(r)
  ELSE ResponseHeadSize(McpHead(r), McpLength(r)) + McpLength(r)
-----------------------------------------------------------------------------
(***************************************************************************)
(* The static service: collect the request if it is metered or printed,    *)
(* wait the configured delay, build the response.                          *)
(***************************************************************************)
(* Mutant of Collects: what is printed is not read.                        *)
CollectsMetered == conf.meter

Collects == conf.meter \/ conf.verbose

(***************************************************************************)
(* There is no response to send: HTTP/2 resets the stream, HTTP/1 closes   *)
(* the connection.  So it is when a service returns an error.  A panic of  *)
(* one ends more than this: the process in the release profile, where      *)
(* panics abort, and under smol without it the thread's executor, with all *)
(* its connections.                                                        *)
(***************************************************************************)
Fail(r) ==
  pc' = [q \in Requests |->
           IF q = r THEN "failed"
           ELSE IF conf.http2 \/ pc[q] \in Ended THEN pc[q] ELSE "refused"]

(***************************************************************************)
(* DelayedBody::new creates a tokio sleep, which panics outside a tokio    *)
(* runtime; then builder.body(), which fails on an invalid header.         *)
(***************************************************************************)
SleepPanics == conf.bodyDelay /\ conf.runtime = "smol"
StaticBody == [FullBody(conf.reply.size = 0) EXCEPT !.held = conf.bodyDelay]

(***************************************************************************)
(* t: the counters of the request as its service found them.               *)
(***************************************************************************)
Respond(r, t) ==
  IF conf.builds /\ ~SleepPanics
    THEN /\ body' = [body EXCEPT ![r] = StaticBody]
         /\ Record(r, CountOut(t, StaticSize(r)))
         /\ Goto(r, "head")
    ELSE /\ Record(r, t)
         /\ Fail(r)
         /\ UNCHANGED body

(***************************************************************************)
(* With a delay the service awaits before it builds the response.          *)
(***************************************************************************)
DelayOrRespond(r, t) ==
  IF conf.delay
    THEN /\ Record(r, t)
         /\ Goto(r, "delay")
         /\ UNCHANGED body
    ELSE Respond(r, t)

(***************************************************************************)
(* The static service and the MCP server's 404 and 405 answer without      *)
(* reading the body, the first unless it counts or prints.                 *)
(***************************************************************************)
LeavesBody(r) ==
  IF conf.runtime = "mcp" THEN conf.kind[r] = "misdirected" ELSE ~Collects

(***************************************************************************)
(* Over HTTP/1 the next request is read when the body of this one is.      *)
(***************************************************************************)
BodyOver(r) ==
  request[r] \in IF LeavesBody(r) THEN {"bare", "drained"} ELSE {"bare", "whole"}

(* Mutant of Callable: HTTP/2 streams served one after the other.          *)
CallableInTurn(r) ==
  /\ pc[r] = "idle"
  /\ request[r] # "unsent"
  /\ \A q \in 1..(r - 1) : pc[q] = "done" /\ BodyOver(q)

(***************************************************************************)
(* hyper calls the service when the head has arrived; over HTTP/1 when the *)
(* requests before are done with.                                          *)
(***************************************************************************)
Callable(r) ==
  /\ pc[r] = "idle"
  /\ request[r] # "unsent"
  /\ ~conf.http2 =>
       \A q \in 1..(r - 1) : pc[q] = "done" /\ BodyOver(q)

CallStatic(r) ==
  /\ conf.runtime # "mcp"
  /\ Callable(r)
  /\ IF Collects
       THEN Goto(r, "collect") /\ UNCHANGED <<body, tally>>
       ELSE DelayOrRespond(r, tally[r])
  /\ UNCHANGED <<conf, request, elapsed, sent>>

(***************************************************************************)
(* collect_request(req).await.ok(): a body that could not be read is       *)
(* recorded with its head alone, and answered all the same.                *)
(***************************************************************************)
Collected(r) == pc[r] = "collect" /\ request[r] \in {"bare", "whole", "broken"}

(* Mutant of CollectedStatic: a body that could not be read is not counted.*)
CollectedStaticWhole(r) ==
  /\ conf.runtime # "mcp"
  /\ Collected(r)
  /\ DelayOrRespond(r, IF request[r] = "broken" THEN tally[r] ELSE CountIn(tally[r], SizeIn(r)))
  /\ UNCHANGED <<conf, request, elapsed, sent>>

CollectedStatic(r) ==
  /\ conf.runtime # "mcp"
  /\ Collected(r)
  /\ DelayOrRespond(r, CountIn(tally[r], SizeIn(r)))
  /\ UNCHANGED <<conf, request, elapsed, sent>>

DelayOver(r) ==
  /\ pc[r] = "delay"
  /\ Respond(r, tally[r])
  /\ UNCHANGED <<conf, request, elapsed, sent>>
-----------------------------------------------------------------------------
(***************************************************************************)
(* The MCP service.                                                        *)
(***************************************************************************)
Answer(r, b) == body' = [body EXCEPT ![r] = b] /\ Goto(r, "head")

(***************************************************************************)
(* 404 and 405 are answered without reading the request's body.            *)
(***************************************************************************)
CallMcp(r) ==
  /\ conf.runtime = "mcp"
  /\ Callable(r)
  /\ IF conf.kind[r] = "misdirected"
       THEN /\ Record(r, CountOut(CountIn(tally[r], HeadIn), McpSize(r)))
            /\ Answer(r, FullBody(TRUE))
       ELSE Goto(r, "collect") /\ UNCHANGED <<body, tally>>
  /\ UNCHANGED <<conf, request, elapsed, sent>>

(***************************************************************************)
(* What dispatch_rpc returns; a body that could not be read is answered as *)
(* a parse error.                                                          *)
(***************************************************************************)
McpAnswer(r) ==
  IF request[r] = "broken" THEN FullBody(FALSE)
  ELSE CASE conf.kind[r] = "stream"   -> SseBody
         [] conf.kind[r] = "accepted" -> FullBody(TRUE)
         [] conf.kind[r] = "unary"    -> FullBody(FALSE)

CollectedMcp(r) ==
  /\ conf.runtime = "mcp"
  /\ Collected(r)
  /\ Record(r, CountOut(CountIn(tally[r], SizeIn(r)), McpSize(r)))
  /\ Answer(r, McpAnswer(r))
  /\ UNCHANGED <<conf, request, elapsed, sent>>
-----------------------------------------------------------------------------
(* Mutants of IsEndStream: the delay is not looked at; a stream ends with  *)
(* its last notification.                                                  *)
IsEndStreamEarly(b) == ~b.last
IsEndStreamAtIdx(b) ==
  ~b.held /\ IF b.notes > 0 THEN b.idx = b.notes ELSE ~b.last

(***************************************************************************)
(* The response: hyper sends its head, then polls its body.                *)
(***************************************************************************)
IsEndStream(b) == ~b.held /\ ~b.last

HasFrame(b) == b.idx < b.notes \/ b.last

(***************************************************************************)
(* Over HTTP/1 there is no body in answer to HEAD, nor with a status that  *)
(* has none; and the head of a body of exactly no bytes (size_hint) says   *)
(* Content-Length: 0 and is the whole response: hyper drops the body.      *)
(***************************************************************************)
Bodiless(r) == conf.kind[r] = "staticHead" \/ (conf.runtime # "mcp" /\ conf.reply.empty)

EndsWithHead(r) ==
  IsEndStream(body[r]) \/ (~conf.http2 /\ (~HasFrame(body[r]) \/ Bodiless(r)))

HeadOf(r) == IF conf.runtime = "mcp" THEN McpHead(r) ELSE StaticHead(r)

(***************************************************************************)
(* Framing headers that contradict each other or the body make hyper       *)
(* refuse the head, or correct it; the length of such a head is not        *)
(* modelled, and its bytes are left out.                                   *)
(***************************************************************************)
RefuseHead(r) ==
  /\ pc[r] = "head"
  /\ conf.reply.framing
  /\ Fail(r)
  /\ UNCHANGED <<conf, request, body, elapsed, sent, tally>>

SendHead(r) ==
  /\ pc[r] = "head"
  /\ sent' = [sent EXCEPT ![r].head = TRUE,
                          ![r].bytes = @ + IF conf.reply.framing THEN 0
                                           ELSE HeadWritten(HeadOf(r))]
  /\ Goto(r, IF EndsWithHead(r) THEN "done" ELSE "stream")
  /\ UNCHANGED <<conf, request, body, elapsed, tally>>

(***************************************************************************)
(* A poll before the sleep is over returns Pending, and leaves the task to *)
(* be woken by the sleep it polled.                                        *)
(***************************************************************************)
PollPending(r) ==
  /\ pc[r] = "stream"
  /\ body[r].held /\ ~elapsed[r]
  /\ Goto(r, "parked")
  /\ UNCHANGED <<conf, request, body, elapsed, sent, tally>>

SleepOver(r) ==
  /\ pc[r] \in {"head", "stream", "parked"}
  /\ body[r].held /\ ~elapsed[r]
  /\ elapsed' = [elapsed EXCEPT ![r] = TRUE]
  /\ Goto(r, IF pc[r] = "parked" THEN "stream" ELSE pc[r])
  /\ UNCHANGED <<conf, request, body, sent, tally>>

(* Mutant of Taken: one notification more than there are.                  *)
TakenPastEnd(b) ==
  IF b.idx <= b.notes
    THEN [b EXCEPT !.held = FALSE, !.idx = @ + 1]
    ELSE [b EXCEPT !.held = FALSE, !.last = FALSE]

(* Mutant of Taken: the last frame is handed out and kept.                 *)
TakenAndKept(b) == [b EXCEPT !.held = FALSE, !.idx = IF @ < b.notes THEN @ + 1 ELSE @]

(***************************************************************************)
(* The next frame: a notification while there is one, then the last frame; *)
(* None ends the response, and so does is_end_stream after a frame.        *)
(***************************************************************************)
Taken(b) ==
  IF b.idx < b.notes
    THEN [b EXCEPT !.held = FALSE, !.idx = @ + 1]
    ELSE [b EXCEPT !.held = FALSE, !.last = FALSE]

FrameSize(r) ==
  LET b == body[r] IN IF b.idx < b.notes THEN conf.notifications[b.idx + 1] ELSE HeadOf(r).length

(***************************************************************************)
(* The frame as it is sent: over HTTP/1.1 one of a stream is a chunk, and  *)
(* the last is followed by the last chunk.                                 *)
(***************************************************************************)
FrameWritten(r, ends) ==
  IF IsChunked(r) /\ ~conf.ask.http10
    THEN ChunkWritten(FrameSize(r)) + IF ends THEN LastChunk ELSE 0
    ELSE FrameSize(r)

PollFrame(r) ==
  /\ pc[r] = "stream"
  /\ body[r].held => elapsed[r]
  /\ LET b == Taken(body[r])
         ends == IsEndStream(b) \/ ~HasFrame(body[r])
     IN
       /\ body' = [body EXCEPT ![r] = b]
       /\ IF HasFrame(body[r])
            THEN sent' = [sent EXCEPT ![r].bytes = @ + FrameWritten(r, ends), ![r].frames =
                   Append(@, IF body[r].idx < body[r].notes THEN b.idx ELSE b.notes + 1)]
            ELSE UNCHANGED sent
       /\ Goto(r, IF ends THEN "done" ELSE "stream")
  /\ UNCHANGED <<conf, request, elapsed, tally>>

(***************************************************************************)
(* Over HTTP/1 hyper reads once more when a service has ended and left a   *)
(* body: that may be the rest of it.  If not it stops reading: the         *)
(* connection ends with this response.                                     *)
(***************************************************************************)
Drain(r) ==
  /\ ~conf.http2
  /\ LeavesBody(r)
  /\ pc[r] \in {"head", "stream", "parked", "done"}
  /\ request[r] \in {"head", "whole", "broken"}
  /\ \/ /\ request[r] = "whole"
        /\ request' = [request EXCEPT ![r] = "drained"]
        /\ UNCHANGED pc
     \/ /\ request' = [request EXCEPT ![r] = "cut"]
        /\ pc' = [q \in Requests |-> IF pc[q] = "idle" THEN "refused" ELSE pc[q]]
  /\ UNCHANGED <<conf, body, elapsed, sent, tally>>
-----------------------------------------------------------------------------
(***************************************************************************)
(* The client.                                                             *)
(***************************************************************************)
ClientHead(r) ==
  /\ request[r] = "unsent"
  /\ pc[r] = "idle"
  /\ r > 1 => request[r - 1] \in {"bare", "whole", "drained"}
                                \cup (IF conf.http2 THEN {"head", "broken"} ELSE {})
  /\ \E how \in CASE conf.kind[r] = "staticHead"              -> {"bare"}
                   [] conf.kind[r] \in {"static", "misdirected"} -> {"bare", "head"}
                   [] OTHER                                    -> {"head"} :
       request' = [request EXCEPT ![r] = how]
  /\ UNCHANGED <<conf, pc, body, elapsed, sent, tally>>

ClientBody(r) ==
  /\ request[r] = "head"
  /\ \E how \in {"whole", "broken"} : request' = [request EXCEPT ![r] = how]
  /\ UNCHANGED <<conf, pc, body, elapsed, sent, tally>>

(***************************************************************************)
(* A stream is reset, or the connection is lost: what is not ended is      *)
(* dropped where it stands.                                                *)
(***************************************************************************)
ResetStream(r) ==
  /\ conf.http2
  /\ request[r] # "unsent"
  /\ pc[r] \notin Ended
  /\ Goto(r, "dropped")
  /\ UNCHANGED <<conf, request, body, elapsed, sent, tally>>

LoseConnection ==
  /\ \E r \in Requests : pc[r] \notin Ended
  /\ pc' = [r \in Requests |-> IF pc[r] \in Ended THEN pc[r] ELSE "dropped"]
  /\ UNCHANGED <<conf, request, body, elapsed, sent, tally>>

Serve(r) ==
  \/ CallStatic(r) \/ CollectedStatic(r) \/ DelayOver(r)
  \/ CallMcp(r) \/ CollectedMcp(r)
  \/ RefuseHead(r) \/ SendHead(r) \/ PollPending(r) \/ SleepOver(r) \/ PollFrame(r)
  \/ Drain(r)

Client ==
  \/ \E r \in Requests : ClientHead(r) \/ ClientBody(r) \/ ResetStream(r)
  \/ LoseConnection

Next == Client \/ \E r \in Requests : Serve(r)

(***************************************************************************)
(* A task that can go on is polled, and a timer fires; the client reads    *)
(* what it is sent, and owes nothing else.                                 *)
(***************************************************************************)
Fairness ==
  \A r \in 1..MaxRequests : WF_vars(r \in Requests /\ Serve(r))

Spec == Init /\ [][Next]_vars /\ Fairness
-----------------------------------------------------------------------------
(***************************************************************************)
(* RequestService, as this module implements it.                           *)
(***************************************************************************)
Stage(r) ==
  CASE pc[r] \in {"idle", "collect", "delay"}      -> "waiting"
    [] pc[r] = "head"                              -> "answered"
    [] pc[r] \in {"stream", "parked"}              -> "headed"
    [] pc[r] = "done"                              -> "over"
    [] pc[r] \in {"failed", "dropped", "refused"}  -> "lost"

FramesLeft(b) == (b.notes - b.idx) + IF b.last THEN 1 ELSE 0

Parts(r) == IF Bodiless(r) THEN 0 ELSE Len(sent[r].frames) + FramesLeft(body[r])

Service == INSTANCE RequestService WITH
  requests  <- Requests,
  serial    <- ~conf.http2,
  metered   <- conf.meter,
  stage     <- [r \in Requests |-> Stage(r)],
  counted   <- [r \in Requests |-> tally[r].requests + tally[r].responses],
  parts     <- [r \in Requests |-> Parts(r)],
  delivered <- [r \in Requests |-> sent[r].frames]
-----------------------------------------------------------------------------
(***************************************************************************)
(* Properties.                                                             *)
(***************************************************************************)

(***************************************************************************)
(* The services, their bodies and hyper keep the promise of                *)
(* RequestService: counted, then headed, then delivered part by part, in   *)
(* the order of the requests over HTTP/1, and nothing once given up.       *)
(***************************************************************************)
RefinesService == Service!Spec

(***************************************************************************)
(* Each request is recorded at most once and its response at most once,    *)
(* after it; what the client saw of a response was recorded before; and a  *)
(* request recorded without a response is one that still waits its delay,  *)
(* or whose service was dropped or failed.                                 *)
(***************************************************************************)
RecordedOnce ==
  \A r \in Requests :
    IF conf.meter
      THEN /\ tally[r].requests \in {0, 1}
           /\ tally[r].responses <= tally[r].requests
           /\ sent[r].head => tally[r].responses = 1
           /\ tally[r].requests > tally[r].responses
                => pc[r] \in {"delay", "failed", "dropped"}
      ELSE tally[r].requests = 0 /\ tally[r].responses = 0

(***************************************************************************)
(* What the frames of a response should be.                                *)
(***************************************************************************)
Frames(r) ==
  IF conf.runtime # "mcp" THEN IF conf.reply.size = 0 \/ Bodiless(r) THEN 0 ELSE 1
  ELSE IF conf.kind[r] = "misdirected" THEN 0
  ELSE IF request[r] = "broken" THEN 1
  ELSE CASE conf.kind[r] = "accepted" -> 0
         [] conf.kind[r] = "unary"    -> 1
         [] conf.kind[r] = "stream"   -> Len(conf.notifications) + 1

(***************************************************************************)
(* The client receives the frames in order, each once, after the head; and *)
(* a response that ended has sent them all: the end of the stream is never *)
(* announced with a frame left.                                            *)
(***************************************************************************)
FramesInOrder ==
  \A r \in Requests :
    LET n == Len(sent[r].frames) IN
      /\ sent[r].frames = [i \in 1..n |-> i]
      /\ n > 0 \/ pc[r] = "done" => sent[r].head
      /\ pc[r] = "done" => n = Frames(r)

(***************************************************************************)
(* --body-delay: no frame of a body comes before the delay, and no end     *)
(* either, over HTTP/2 not even that of an empty body; the head does not   *)
(* wait for it.                                                            *)
(***************************************************************************)
BodyWaits ==
  \A r \in Requests :
    conf.bodyDelay =>
      /\ sent[r].frames # <<>> => elapsed[r]
      /\ pc[r] = "done" => elapsed[r] \/ (conf.reply.size = 0 /\ ~conf.http2)
      /\ pc[r] = "parked" => sent[r].head

(***************************************************************************)
(* What of a response is recorded and not written.  HTTP withholds a body: *)
(* an answer to HEAD or with an empty status was recorded with it, and     *)
(* with a zero length that HEAD does not get.  And an event stream was     *)
(* recorded in chunks, which HTTP/1.0 does not get: neither the header     *)
(* that announces them, nor what they cost, nor the last one.              *)
(***************************************************************************)
ChunkCost(n) == ChunkWritten(n) - n

Withheld(r) ==
  IF Bodiless(r)
    THEN conf.reply.size
           + IF conf.reply.size = 0 /\ ~conf.reply.empty THEN Line(14, 1) ELSE 0
  ELSE IF IsStream(r) /\ conf.ask.http10
    THEN Line(17, 7)
           + Sizes([i \in DOMAIN conf.notifications |-> ChunkCost(conf.notifications[i])])
           + ChunkCost(conf.reply.size) + LastChunk
  ELSE 0

(***************************************************************************)
(* What is written and not recorded: the Connection line that hyper adds,  *)
(* and "<none>" for the reason of a status that has none.                  *)
(***************************************************************************)
Uncounted(r) ==
  LET p == HeadOf(r) IN ConnectionLine(p) + IF p.reason = 0 THEN 6 ELSE 0

WireIn ==
  HeadIn + IF conf.ask.chunked
             THEN Sizes([i \in DOMAIN conf.ask.pieces |-> ChunkWritten(conf.ask.pieces[i])])
                    + LastChunk
             ELSE Sizes(conf.ask.pieces)

(***************************************************************************)
(* Over HTTP/1, of a response that was sent whole, what is recorded is     *)
(* what was on the wire, but for what was Withheld and what is Uncounted:  *)
(* to the byte, at every number of digits, with the date and the length    *)
(* that hyper adds, or does not.  (Not of one with framing headers; nor is *)
(* an interim 100 Continue part of a response.)  Of a request read whole,  *)
(* as recorded from its head and the length of its body: all of it, but    *)
(* for trailers, and for what it costs to cut the body in more chunks than *)
(* one.                                                                    *)
(***************************************************************************)
RecordedIsWritten ==
  ~conf.http2 /\ conf.meter =>
    \A r \in Requests : pc[r] = "done" =>
      /\ ~conf.reply.framing =>
           tally[r].out + Uncounted(r) = sent[r].bytes + Withheld(r)
      /\ request[r] = "whole" /\ ~LeavesBody(r) =>
           IF conf.ask.chunked /\ Len(conf.ask.pieces) > 1
             THEN tally[r].in < WireIn ELSE tally[r].in = WireIn

(***************************************************************************)
(* hyper stops serving a connection over HTTP/1, while its client has not  *)
(* broken it off nor asked to close it, only where an earlier request      *)
(* failed for want of a response, or was answered with its body unread: a  *)
(* request that is counted or printed, and one to the MCP endpoint, never  *)
(* costs its client the requests behind it.  Over HTTP/2 no request costs  *)
(* another anything.                                                       *)
(***************************************************************************)
ServerKeeps ==
  \A r \in Requests : pc[r] = "refused" =>
    /\ ~conf.http2
    /\ \E q \in 1..(r - 1) :
         \/ pc[q] = "failed"
         \/ /\ request[q] = "cut"
            /\ conf.kind[q] = "misdirected"
                 \/ (conf.runtime # "mcp" /\ ~conf.meter /\ ~conf.verbose)

(***************************************************************************)
(* A request can go on when its service, its response or its timer can be  *)
(* polled, or hyper can look for its body, with nothing from the client.   *)
(* (Serve(r) is enabled in just these states.)                             *)
(***************************************************************************)
CanGoOn(r) ==
  \/ Callable(r) \/ Collected(r)
  \/ pc[r] \in {"delay", "head", "stream"}
  \/ pc[r] = "parked" /\ body[r].held /\ ~elapsed[r]
  \/ /\ ~conf.http2 /\ LeavesBody(r)
     /\ pc[r] \in {"head", "stream", "parked", "done"}
     /\ request[r] \in {"head", "whole", "broken"}

(***************************************************************************)
(* Over HTTP/1 a request waits for those before it, over HTTP/2 for none.  *)
(***************************************************************************)
WaitsFor(r) == IF conf.http2 THEN {r} ELSE 1..r
HasArrived(r) == \A q \in WaitsFor(r) : request[q] \in {"bare", "whole", "drained"}

(***************************************************************************)
(* No request that has arrived is held up: until it is over, or given up,  *)
(* it can go on or, over HTTP/1, one before it can.  No body is waited for *)
(* that nobody reads, no response parked without a timer to wake it, no    *)
(* stream behind another stream.                                           *)
(***************************************************************************)
NoneHeldUp ==
  \A r \in Requests :
    HasArrived(r) /\ pc[r] \notin Ended => \E q \in WaitsFor(r) : CanGoOn(q)

(***************************************************************************)
(* The work left for a request: the places its service and response have   *)
(* still to come to, the frames to send, the timer, the body to drain.     *)
(***************************************************************************)
Place == [idle |-> 7, collect |-> 6, delay |-> 5, head |-> 4, stream |-> 3, parked |-> 2,
          done |-> 0, failed |-> 0, dropped |-> 0, refused |-> 0]

ToSend(r) ==
  IF pc[r] \in Ended THEN 0
  ELSE IF pc[r] \in {"head", "stream", "parked"} THEN FramesLeft(body[r])
  ELSE Len(conf.notifications) + 1

Work(r) ==
  Place[pc[r]] + ToSend(r) + (IF elapsed[r] THEN 0 ELSE 2)
    + (IF request[r] \in {"drained", "cut"} THEN 0 ELSE 1)

(***************************************************************************)
(* Every poll that does something is one less to do for its request, and   *)
(* nothing, whoever does it, makes more work for any: no response is woken *)
(* or polled, no frame sent, no body drained over and over.                *)
(***************************************************************************)
WorkGoesDown ==
  [][\A r \in Requests : /\ Work(r)' \in Nat /\ Work(r)' <= Work(r)
                         /\ Serve(r) => Work(r)' < Work(r)]_vars

(***************************************************************************)
(* A request that arrived is answered in the end, or its response or       *)
(* connection was given up: over HTTP/2 whatever the other requests do,    *)
(* over HTTP/1 if those before it have arrived too.                        *)
(***************************************************************************)
Answered ==
  \A r \in 1..MaxRequests :
    r \in Requests /\ HasArrived(r) ~> (r \in Requests => pc[r] \in Ended)

(***************************************************************************)
(* README, on --body-delay: "Supported by `tokio` and `smol` runtimes": a  *)
(* request fails only when no response can be built.                       *)
(***************************************************************************)
BodyDelaySupported ==
  \A r \in Requests : pc[r] = "failed" => ~conf.builds
=============================================================================
