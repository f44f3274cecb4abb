--------------------------- MODULE MCHyperService --------------------------
(***************************************************************************)
(* Connections of two requests, every option that changes what a service   *)
(* awaits, and of the MCP server every kind of answer; one request for     *)
(* every change in the number of digits of a size, and for each kind of    *)
(* client and of configured header that changes what hyper writes.         *)
(***************************************************************************)
EXTENDS HyperService

Reply(size, g, e) ==
  [reason |-> 2, headers |-> <<[name |-> 12, value |-> 10]>>, given |-> g,
   empty |-> e, framing |-> FALSE, size |-> size]

Ask(chunked, pieces) ==
  [method |-> 4, uri |-> 1, headers |-> <<[name |-> 4, value |-> 14]>>,
   chunked |-> chunked, http10 |-> FALSE, closes |-> FALSE, pieces |-> pieces]

Static(rt, h2, m, d, bd, b, size) ==
  [runtime |-> rt, http2 |-> h2, meter |-> m, verbose |-> ~m /\ size = 0, delay |-> d,
   bodyDelay |-> bd, builds |-> b, notifications |-> <<>>,
   reply |-> Reply(size, {}, FALSE), ask |-> Ask(FALSE, <<4>>),
   kind |-> <<"static", "static">>]

Mcp(h2, m, k) ==
  [runtime |-> "mcp", http2 |-> h2, meter |-> m, verbose |-> ~m, delay |-> FALSE,
   bodyDelay |-> FALSE, builds |-> TRUE, notifications |-> <<9, 16>>,
   reply |-> Reply(12, {}, FALSE), ask |-> Ask(TRUE, <<4, 16>>), kind |-> k]

StaticScenarios ==
  {Static(rt, FALSE, m, d, FALSE, TRUE, n) :
     rt \in {"tokio", "smol"}, m, d \in BOOLEAN, n \in {0, 5}}
  \cup {Static("tokio", h2, m, d, TRUE, TRUE, n) : h2, m, d \in BOOLEAN, n \in {0, 5}}
  \cup {Static("tokio", h2, TRUE, TRUE, FALSE, FALSE, 5) : h2 \in BOOLEAN}

McpScenarios ==
  {Mcp(h2, m, k) : h2, m \in BOOLEAN,
     k \in {<<"stream", "unary">>, <<"misdirected", "stream">>,
            <<"accepted", "stream">>}}

(***************************************************************************)
(* Both sides of every change in the number of digits, and event streams   *)
(* of up to two notifications before the last event.                       *)
(***************************************************************************)
Boundaries == {9, 10, 15, 16, 99, 100, 255, 256, 999, 1000, 4095, 4096, 9999, 10000,
               65535, 65536, 99999, 100000, 1048575, 1048576}
Short == {1, 15, 16, 255, 256, 4096}

Sized(n, g, e, k) ==
  [Static("tokio", FALSE, TRUE, FALSE, FALSE, TRUE, n) EXCEPT
     !.reply = Reply(n, g, e), !.kind = <<k>>, !.ask = Ask(TRUE, <<n + 1>>)]

Streamed(notes, n) ==
  [Mcp(FALSE, TRUE, <<"stream">>) EXCEPT
     !.reply.size = n, !.notifications = notes, !.ask = Ask(FALSE, <<n>>)]

SizeScenarios ==
  {Sized(n, g, FALSE, "static") : n \in {0} \cup Boundaries, g \in SUBSET {"date"}}
  \cup {Sized(n, {}, e, k) : n \in {0, 9, 10}, e \in BOOLEAN, k \in {"static", "staticHead"}}
  \cup {Streamed(notes, n) : notes \in UNION {[1..k -> Short] : k \in 0..2}, n \in Short}

(***************************************************************************)
(* Clients that close the connection or speak HTTP/1.0, a status without a *)
(* reason, and configured headers that frame the message.                  *)
(***************************************************************************)
Peer(s, old, close) == [s EXCEPT !.ask.http10 = old, !.ask.closes = close, !.ask.chunked = FALSE]

PeerScenarios ==
  {Peer([Static(rt, FALSE, TRUE, FALSE, FALSE, TRUE, n) EXCEPT !.kind = <<k>>, !.reply.reason = w],
        old, close) :
     rt \in {"tokio", "smol"}, n \in {0, 5}, k \in {"static", "staticHead"}, w \in {0, 2},
     old, close \in BOOLEAN}
  \cup {Peer(Mcp(FALSE, TRUE, <<k>>), old, close) :
          k \in {"misdirected", "unary", "accepted", "stream"}, old, close \in BOOLEAN}

FramingScenarios ==
  {[Static("tokio", FALSE, TRUE, FALSE, bd, TRUE, n) EXCEPT
      !.kind = <<"static">>, !.reply.framing = TRUE] : bd \in BOOLEAN, n \in {0, 5}}

AllScenarios ==
  StaticScenarios \cup McpScenarios \cup SizeScenarios \cup PeerScenarios \cup FramingScenarios

SmolBodyDelay == {Static("smol", FALSE, TRUE, FALSE, TRUE, TRUE, 5)}
=============================================================================
