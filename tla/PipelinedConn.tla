--------------------------- MODULE PipelinedConn ---------------------------
(***************************************************************************)
(* One HTTP/1 connection served by a completion-based runtime:             *)
(* handle_connection_{uring,monoio,compio,glommio}.  The four handlers are *)
(* the same loop over one Vec<u8> with a consumption cursor:               *)
(*                                                                         *)
(*   - drop, compact or keep the bytes already parsed, make room, and      *)
(*     submit a read into the spare capacity;                              *)
(*   - decode every complete request in the buffer; for each, count it,    *)
(*     wait the configured delay, write the response, count the response.  *)
(*                                                                         *)
(* They differ in how the spare capacity reaches the runtime: three lend a *)
(* Vec that aliases it, glommio lengthens the buffer to its capacity for   *)
(* the time of the read and shortens it again afterwards.                  *)
(*                                                                         *)
(* A byte is abstracted to its position in the client's stream, so that    *)
(* the model tells a byte received once, twice or never apart; 0 is memory *)
(* that was never written.  Request k occupies the positions after         *)
(* bounds[k-1] up to bounds[k].                                            *)
(***************************************************************************)
EXTENDS Integers

CONSTANTS
  Scenarios,        \* connections to explore, see ScenarioAssumption
  MaxRequest,       \* no request of theirs is longer than this
  InitialCapacity,  \* Vec::with_capacity(8192)
  MinSpare,         \* reserve(4096) when less than this is spare
  CompactAbove,     \* compact when more than 4096 bytes are dead
  SocketIn,         \* bytes the kernel queues towards the server
  SocketOut         \* responses the kernel queues towards the client

AliasingRuntimes == {"tokio_uring", "monoio", "compio"}
Runtimes == AliasingRuntimes \cup {"glommio"}

(***************************************************************************)
(* A scenario fixes the client's stream and the options of the handler:    *)
(* count requests end at bounds[1] < ... < bounds[count], the decoder      *)
(* accepts those in wellFormed and refuses the others; builds tells        *)
(* whether the configured headers make a response at all.                  *)
(***************************************************************************)
IsScenario(s) ==
  /\ s = [runtime |-> s.runtime, count |-> s.count, bounds |-> s.bounds,
          wellFormed |-> s.wellFormed, delay |-> s.delay, meter |-> s.meter,
          builds |-> s.builds]
  /\ s.runtime \in Runtimes
  /\ s.count \in Nat
  /\ s.bounds \in [0..s.count -> Nat]
  /\ s.bounds[0] = 0
  /\ \A i, j \in 0..s.count : i < j => s.bounds[i] < s.bounds[j]
  /\ s.wellFormed \subseteq 1..s.count
  /\ s.delay \in BOOLEAN
  /\ s.meter \in BOOLEAN
  /\ s.builds \in BOOLEAN

ASSUME ScenarioAssumption ==
  \A s \in Scenarios :
    /\ IsScenario(s)
    /\ \A k \in 1..s.count : s.bounds[k] - s.bounds[k - 1] <= MaxRequest
ASSUME SizesAssumption ==
  /\ MaxRequest \in Nat \ {0}
  /\ InitialCapacity \in Nat \ {0}
  /\ MinSpare \in Nat \ {0}
  /\ CompactAbove \in Nat
  /\ SocketIn \in Nat \ {0}
  /\ SocketOut \in Nat \ {0}

VARIABLES
  conf,        \* the scenario of this behaviour, chosen once
  pc,          \* where the handler is: at an await, or about to take a step
  mem,         \* the buffer's memory, 1..cap -> stream position
  cap,         \* buf.capacity()
  len,         \* buf.len()
  currentLen,  \* current_len: buf.len() when the read was submitted
  parsed,      \* bytes of the buffer already consumed
  served,      \* requests_served
  last,        \* the request decoded most recently (history)
  written,     \* responses whose write_all has completed (history)
  sent,        \* bytes the client has sent
  rcvd,        \* bytes the handler's reads have returned (history)
  got,         \* responses the client has read
  peer,        \* "open", "shut" (client half closed) or "reset"
  counted      \* what record_request and record_response were told

vars == <<conf, pc, mem, cap, len, currentLen, parsed, served, last, written,
          sent, rcvd, got, peer, counted>>

bufVars  == <<mem, cap, len, currentLen>>
peerVars == <<sent, got, peer>>

Uninit == 0
MaxOf(a, b) == IF a < b THEN b ELSE a
MinOf(a, b) == IF a < b THEN a ELSE b

Total   == conf.bounds[conf.count]
Size(k) == conf.bounds[k] - conf.bounds[k - 1]

TypeOK ==
  /\ conf \in Scenarios
  /\ pc \in {"start", "top", "read", "decode", "delay", "write", "closed", "failed"}
  /\ cap \in Nat /\ len \in Nat /\ currentLen \in Nat /\ parsed \in Nat
  /\ mem \in [1..cap -> Nat]
  /\ served \in Nat /\ last \in Nat /\ written \in Nat
  /\ sent \in Nat /\ rcvd \in Nat /\ got \in Nat
  /\ peer \in {"open", "shut", "reset"}
  /\ counted \in [requests : Nat, requestBytes : Nat, responses : Nat]

Init ==
  /\ conf \in Scenarios
  /\ pc = "start"
  /\ cap = InitialCapacity
  /\ mem = [i \in 1..cap |-> Uninit]
  /\ len = 0 /\ currentLen = 0 /\ parsed = 0
  /\ served = 0 /\ last = 0 /\ written = 0
  /\ sent = 0 /\ rcvd = 0 /\ got = 0
  /\ peer = "open"
  /\ counted = [requests |-> 0, requestBytes |-> 0, responses |-> 0]
-----------------------------------------------------------------------------
(***************************************************************************)
(* build_response(&config)? : the response is encoded once per connection. *)
(***************************************************************************)
Begin ==
  /\ pc = "start"
  /\ pc' = IF conf.builds THEN "top" ELSE "failed"
  /\ UNCHANGED <<conf, bufVars, parsed, served, last, written, rcvd, counted,
                 peerVars>>
-----------------------------------------------------------------------------
(***************************************************************************)
(* The top of the loop, up to the await of the read.                       *)
(***************************************************************************)

(* Mutant of Reserved: room is never made.                                 *)
ReservedNever(l) == cap

(***************************************************************************)
(* Vec::reserve(MinSpare) when less than MinSpare is spare beyond length l:*)
(* amortized growth, to twice the capacity or to what is asked if larger.  *)
(***************************************************************************)
Reserved(l) ==
  IF cap - l < MinSpare THEN MaxOf(2 * cap, l + MinSpare) ELSE cap

(* Mutant of CopiedDown: the live bytes stay where they are.               *)
CopiedNothing == mem

(***************************************************************************)
(* buf.copy_within(parsed.., 0)                                            *)
(***************************************************************************)
CopiedDown ==
  [i \in 1..cap |-> IF i <= len - parsed THEN mem[parsed + i] ELSE mem[i]]

(***************************************************************************)
(* Make room after the first l bytes of m and submit the read.  Growing    *)
(* moves the bytes and leaves the new memory unwritten.                    *)
(***************************************************************************)
SubmitRead(m, l, p) ==
  /\ cap' = Reserved(l)
  /\ mem' = [i \in 1..cap' |-> IF i <= cap THEN m[i] ELSE Uninit]
  /\ currentLen' = l
  /\ len' = IF conf.runtime = "glommio" THEN cap' ELSE l
  /\ parsed' = p
  /\ pc' = "read"
  /\ UNCHANGED <<conf, served, last, written, rcvd, counted, peerVars>>

(* Mutants of the two conditions: a partial request counts as parsed; the  *)
(* buffer is never compacted.                                              *)
SomeParsed == parsed > 0
NeverDead  == FALSE

AllParsed == parsed = len /\ parsed > 0
ManyDead  == parsed > CompactAbove

FastReset ==
  /\ pc = "top"
  /\ AllParsed
  /\ SubmitRead(mem, 0, 0)

Compact ==
  /\ pc = "top"
  /\ ~AllParsed
  /\ ManyDead
  /\ SubmitRead(CopiedDown, len - parsed, 0)

KeepBuffer ==
  /\ pc = "top"
  /\ ~AllParsed
  /\ ~ManyDead
  /\ SubmitRead(mem, len, parsed)
-----------------------------------------------------------------------------
(***************************************************************************)
(* The read completes.  It returns 0 when the client has shut its side and *)
(* everything was read, and also when the space it was given is empty.     *)
(***************************************************************************)
Spare == cap - currentLen

ReadOk ==
  /\ pc = "read"
  /\ \E n \in 1..MinOf(Spare, sent - rcvd) :
       /\ mem' = [i \in 1..cap |->
                    IF i \in (currentLen + 1)..(currentLen + n)
                      THEN rcvd + (i - currentLen) ELSE mem[i]]
       /\ len' = currentLen + n
       /\ rcvd' = rcvd + n
  /\ pc' = "decode"
  /\ UNCHANGED <<conf, cap, currentLen, parsed, served, last, written, counted,
                 peerVars>>

(* Mutant of ReadEof: a read of no bytes is not the end of the connection. *)
ReadEofIgnored ==
  /\ pc = "read"
  /\ Spare = 0 \/ (peer = "shut" /\ rcvd = sent)
  /\ pc' = "decode"
  /\ len' = currentLen
  /\ UNCHANGED <<conf, mem, cap, currentLen, parsed, served, last, written,
                 rcvd, counted, peerVars>>

ReadEof ==
  /\ pc = "read"
  /\ Spare = 0 \/ (peer = "shut" /\ rcvd = sent)
  /\ pc' = "closed"
  /\ UNCHANGED <<conf, bufVars, parsed, served, last, written, rcvd, counted,
                 peerVars>>

ReadErr ==
  /\ pc = "read"
  /\ peer = "reset"
  /\ len' = currentLen
  /\ pc' = "failed"
  /\ UNCHANGED <<conf, mem, cap, currentLen, parsed, served, last, written,
                 rcvd, counted, peerVars>>
-----------------------------------------------------------------------------
(* Mutant of Holds: a request that ends with the buffer is not seen.       *)
HoldsMore(k) ==
  /\ k \in conf.wellFormed
  /\ parsed + Size(k) < len
  /\ \A j \in 1..Size(k) : mem[parsed + j] = conf.bounds[k - 1] + j

(***************************************************************************)
(* The decode loop.  FullRequest::decode_uninit accepts &buf[parsed..]     *)
(* when it begins with a whole request that is well formed.                *)
(***************************************************************************)
Holds(k) ==
  /\ k \in conf.wellFormed
  /\ parsed + Size(k) <= len
  /\ \A j \in 1..Size(k) : mem[parsed + j] = conf.bounds[k - 1] + j

(* Mutant of CountRequest: the bytes counted are all those in the buffer.  *)
CountRequestBatch(n) ==
  IF conf.meter
    THEN [counted EXCEPT !.requests = @ + 1, !.requestBytes = @ + (len - parsed)]
    ELSE counted

CountRequest(n) ==
  IF conf.meter
    THEN [counted EXCEPT !.requests = @ + 1, !.requestBytes = @ + n]
    ELSE counted

CountResponse ==
  IF conf.meter THEN [counted EXCEPT !.responses = @ + 1] ELSE counted

DecodeOk(k) ==
  /\ pc = "decode"
  /\ Holds(k)
  /\ served' = served + 1
  /\ last' = k
  /\ parsed' = parsed + Size(k)
  /\ counted' = CountRequest(Size(k))
  /\ pc' = IF conf.delay THEN "delay" ELSE "write"
  /\ UNCHANGED <<conf, bufVars, written, rcvd, peerVars>>

DecodeErr ==
  /\ pc = "decode"
  /\ \A k \in 1..conf.count : ~Holds(k)
  /\ pc' = "top"
  /\ UNCHANGED <<conf, bufVars, parsed, served, last, written, rcvd, counted,
                 peerVars>>

DelayOver ==
  /\ pc = "delay"
  /\ pc' = "write"
  /\ UNCHANGED <<conf, bufVars, parsed, served, last, written, rcvd, counted,
                 peerVars>>

(* Mutant of WriteOk: one request per read, then the next read.            *)
WriteOkThenRead ==
  /\ pc = "write"
  /\ peer # "reset"
  /\ written - got < SocketOut
  /\ written' = written + 1
  /\ counted' = CountResponse
  /\ pc' = "top"
  /\ UNCHANGED <<conf, bufVars, parsed, served, last, rcvd, peerVars>>

(***************************************************************************)
(* write_all completes when the kernel has taken the whole response.       *)
(***************************************************************************)
WriteOk ==
  /\ pc = "write"
  /\ peer # "reset"
  /\ written - got < SocketOut
  /\ written' = written + 1
  /\ counted' = CountResponse
  /\ pc' = "decode"
  /\ UNCHANGED <<conf, bufVars, parsed, served, last, rcvd, peerVars>>

WriteErr ==
  /\ pc = "write"
  /\ peer = "reset"
  /\ pc' = "failed"
  /\ UNCHANGED <<conf, bufVars, parsed, served, last, written, rcvd, counted,
                 peerVars>>
-----------------------------------------------------------------------------
(***************************************************************************)
(* The client: sends its stream in chunks of any size, reads responses,    *)
(* half closes its side, or resets the connection.                         *)
(***************************************************************************)
ClientSend ==
  /\ peer = "open"
  /\ \E n \in 1..MinOf(SocketIn - (sent - rcvd), Total - sent) : sent' = sent + n
  /\ UNCHANGED <<conf, pc, bufVars, parsed, served, last, written, rcvd, got,
                 peer, counted>>

ClientRead ==
  /\ got < written
  /\ peer # "reset"
  /\ got' = got + 1
  /\ UNCHANGED <<conf, pc, bufVars, parsed, served, last, written, rcvd, sent,
                 peer, counted>>

ClientShutdown ==
  /\ peer = "open"
  /\ peer' = "shut"
  /\ UNCHANGED <<conf, pc, bufVars, parsed, served, last, written, rcvd, sent,
                 got, counted>>

ClientReset ==
  /\ peer # "reset"
  /\ peer' = "reset"
  /\ UNCHANGED <<conf, pc, bufVars, parsed, served, last, written, rcvd, sent,
                 got, counted>>

Handler ==
  \/ Begin \/ FastReset \/ Compact \/ KeepBuffer
  \/ ReadOk \/ ReadEof \/ ReadErr
  \/ \E k \in 1..conf.count : DecodeOk(k)
  \/ DecodeErr \/ DelayOver \/ WriteOk \/ WriteErr

Client == ClientSend \/ ClientRead \/ ClientShutdown \/ ClientReset

Next == Handler \/ Client

Safe == Init /\ [][Next]_vars

(***************************************************************************)
(* The runtime polls a task whose I/O or timer has completed; the client   *)
(* is only assumed to read the responses that reach it.                    *)
(***************************************************************************)
Fairness == WF_vars(Handler) /\ WF_vars(ClientRead)

Spec == Safe /\ Fairness
-----------------------------------------------------------------------------
(***************************************************************************)
(* Properties.                                                             *)
(***************************************************************************)

(***************************************************************************)
(* The bytes of the buffer that were received: during a read, those that   *)
(* were there when it was submitted, whatever buf.len() says meanwhile.    *)
(***************************************************************************)
Valid == IF pc = "read" THEN currentLen ELSE len

(***************************************************************************)
(* The buffer is a window on the stream: whatever mix of resets,           *)
(* compactions, reallocations and partial reads led here, its bytes are    *)
(* the last ones received, each once, in order, none stale and none        *)
(* uninitialised.  (The unsafe set_len calls and the aliasing Vec.)        *)
(***************************************************************************)
BufferIsWindow ==
  pc # "closed" =>
    /\ Valid <= cap /\ Valid <= rcvd
    /\ \A i \in 1..Valid : mem[i] = rcvd - Valid + i

(***************************************************************************)
(* Requests are decoded in the order of the stream, none skipped and none  *)
(* decoded twice, and the cursor always stands on the boundary after the   *)
(* last one: what is left in the buffer starts the next request.           *)
(***************************************************************************)
InOrder ==
  /\ last = served
  /\ pc # "closed" => /\ parsed <= Valid
                      /\ rcvd - (Valid - parsed) = conf.bounds[served]

(***************************************************************************)
(* The metered values are those of the requests: the bytes recorded are    *)
(* those of the requests served, and a response is recorded for each       *)
(* response written, at most one behind the requests.                      *)
(***************************************************************************)
MeterAgrees ==
  IF conf.meter
    THEN /\ counted = [requests |-> served, requestBytes |-> conf.bounds[served],
                       responses |-> written]
         /\ counted.requests - counted.responses \in {0, 1}
    ELSE counted = [requests |-> 0, requestBytes |-> 0, responses |-> 0]

(***************************************************************************)
(* The buffer of a connection stays within a bound given by its largest    *)
(* request, however many requests it serves and however they are cut into  *)
(* reads.  Only a stream of well-formed requests has such a bound.         *)
(***************************************************************************)
CapacityBound ==
  MaxOf(InitialCapacity, 2 * (CompactAbove + MaxRequest + MinSpare - 2))

CapacityBounded ==
  conf.wellFormed = 1..conf.count => cap <= CapacityBound

(***************************************************************************)
(* The handler takes a read of 0 bytes for the end of the stream only when *)
(* it is one: the client has shut its side and all it sent was read.  (A   *)
(* read into an empty slice returns 0 as well.)                            *)
(***************************************************************************)
EofIsGenuine ==
  [][ReadEof => peer = "shut" /\ rcvd = sent]_vars

(***************************************************************************)
(* The requests that have arrived in full, up to the first malformed one.  *)
(***************************************************************************)
Arrived ==
  {k \in 1..conf.count : /\ conf.bounds[k] <= sent
                         /\ 1..k \subseteq conf.wellFormed}

Ending == CASE pc = "closed" -> "clean"
            [] pc = "failed" -> "aborted"
            [] OTHER         -> "open"

Server == INSTANCE PipelinedServer
            WITH arrived <- Arrived, taken <- served, answered <- written,
                 ending <- Ending

(***************************************************************************)
(* The handler implements the abstract server: what is taken has arrived,  *)
(* in order, one at a time, each answered once, and nothing that arrived   *)
(* is unanswered when the connection is closed cleanly.                    *)
(***************************************************************************)
RefinesServer == Server!Spec

(***************************************************************************)
(* Every request that arrived is answered in the end unless the client     *)
(* resets the connection (or no response can be built): no chunking of the *)
(* stream leaves a complete request waiting in the buffer for bytes that   *)
(* do not come.                                                            *)
(***************************************************************************)
AllAnswered ==
  []<>(Arrived \subseteq 1..written \/ peer = "reset" \/ ~conf.builds)

(***************************************************************************)
(* When the runtime can poll the task: what the handler awaits is there,   *)
(* or it awaits nothing.  (Handler is enabled in just these states.)       *)
(***************************************************************************)
Ready ==
  \/ pc \in {"start", "top", "decode", "delay"}
  \/ pc = "read" /\ (Spare = 0 \/ rcvd < sent \/ peer # "open")
  \/ pc = "write" /\ (peer = "reset" \/ written - got < SocketOut)

(***************************************************************************)
(* The handler writes before it reads again, so a client that pipelines    *)
(* and does not read waits with it for ever.  That is the only way to wait *)
(* on each other: a handler that cannot go on, with an answer due, has the *)
(* client's socket full of answers it has not read.                        *)
(***************************************************************************)
StuckOnlyByClient ==
  ~Ready /\ pc # "failed" /\ ~(Arrived \subseteq 1..written)
    => written - got = SocketOut

(***************************************************************************)
(* The handler's work is bounded by what the client has sent: each of its  *)
(* steps brings it closer to waiting, and only ClientSend gives it more to *)
(* do, so no cut of the stream and no end of it makes the task spin.       *)
(***************************************************************************)
Left ==
  IF pc \in {"closed", "failed"} THEN 0
  ELSE 3 * (sent - rcvd) + 3 * (sent - conf.bounds[served])
         + [start |-> 3, top |-> 2, read |-> 1, decode |-> 3, delay |-> 5, write |-> 4][pc]

NeverSpins == [][Handler => Left' \in Nat /\ Left' < Left]_vars

(***************************************************************************)
(* A connection the client has left ends: the task does not outlive it.    *)
(***************************************************************************)
ShutdownEnds == peer # "open" ~> pc \in {"closed", "failed"}

(***************************************************************************)
(* The comment on the decode loop's break: "Incomplete request or end of   *)
(* batch".  The loop stops only when the buffer does not hold the whole of *)
(* the next request.                                                       *)
(***************************************************************************)
ErrMeansIncomplete ==
  [][DecodeErr => served = conf.count \/ rcvd < conf.bounds[served + 1]]_vars
=============================================================================
